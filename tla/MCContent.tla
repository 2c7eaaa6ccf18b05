------------------------------ MODULE MCContent ------------------------------
(* An instance of Content for TLC. *)
EXTENDS Content, TLC

CONSTANTS x, y

\* .bitfsattributes, two files at the top, a directory that may be the second
\* of them, and a directory in it.
attributes == 0
a == 1
d == 2
e == 3
TheAttributes == <<attributes>>
Branch == {<<attributes>>, <<a>>, <<d>>, <<d, a>>, <<d, e, a>>}

\* a is a name like "d-a": its text is before those of what is in d.
Places ==
  Root :> 1 @@ <<attributes>> :> 2 @@ <<d>> :> 3 @@ <<a>> :> 4
  @@ <<d, a>> :> 5 @@ <<d, e>> :> 6 @@ <<d, e, a>> :> 7

Names == {attributes, a, d, e}
All == [kind |-> Base, names |-> <<Names>>]
InD == [kind |-> Under, names |-> <<{d}>>]
DA == [kind |-> Full, names |-> <<{d}, Names>>]
EA == [kind |-> Ending, names |-> <<{e}, {a}>>, ending |-> {e}]
Nothing == [kind |-> Inner, names |-> <<>>]

Line(pattern, attrs) == [pattern |-> pattern, attrs |-> attrs, long |-> FALSE]

\* Everything is free; nearly every rule the code knows; a misspelt mode; a line
\* that is too long.
AllFree == <<Line(All, <<"private">>), Line(All, <<Other, "free">>)>>
Mixed == <<Line(All, <<"free">>), Line(InD, <<"free", "private">>),
           Line(DA, <<"paid", Other>>), Line(EA, <<"free">>),
           Line(Nothing, <<"paid">>), Line(All, <<>>)>>
Misspelt == <<Line(DA, <<"public">>)>>
TooLong == <<Line(All, <<"paid">>), [Line(Nothing, <<>>) EXCEPT !.long = TRUE]>>

FilesIn == [p \in Branch |->
  CASE p = <<attributes>> -> [data : {AllFree, Mixed, Misspelt, TooLong}, mode : {Regular}]
    [] p = <<a>> -> [data : {x, y}, mode : {Regular}]
    [] OTHER -> [data : {x}, mode : {Regular}]]
=============================================================================
