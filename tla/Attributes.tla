----------------------------- MODULE Attributes -----------------------------
(***************************************************************************)
(* internal/config/attributes.go: the access rules of a .bitfsattributes   *)
(* file.  A path is a sequence of names.  A pattern is its kind, which the *)
(* place of "**" and "/" decides, and for each of its segments the names   *)
(* that the segment's glob matches; a segment without wildcards is the set *)
(* of the one name it spells.  What follows "**/" is compared as text too, *)
(* so the names that end in its first segment are given with the pattern.  *)
(***************************************************************************)
EXTENDS Integers, Sequences, SequencesExt, Slices

Base == "base"      \* no "/": *.md
Full == "full"      \* with "/": docs/*.md
Under == "under"    \* a prefix and "/**"
Ending == "ending"  \* "**/" and a suffix
Inner == "inner"    \* "**" anywhere else

Globs(names, path) ==
  Len(names) = Len(path) /\ \A i \in DOMAIN path : path[i] \in names[i]

\* Where the code compares strings, a wildcard matches nothing.
Spells(names, path) ==
  Len(names) = Len(path) /\ \A i \in DOMAIN path : names[i] = {path[i]}

\* matchDoubleGlob, and matchPattern for the rest.  "**/" means nothing by
\* itself: the rest is compared with the end of the path, as text, and with its
\* last name, as a glob.
MatchPattern(pattern, path) ==
  LET names == pattern.names
      m == Len(names)
      n == Len(path)
  IN  \/ pattern.kind = Base /\ Globs(names, <<Last(path)>>)
      \/ pattern.kind = Full /\ Globs(names, path)
      \/ pattern.kind = Under /\ m <= n /\ Spells(names, SubSeq(path, 1, m))
      \/ /\ pattern.kind = Ending /\ m <= n
         /\ path[n - m + 1] \in pattern.ending
         /\ Spells(Tail(names), SubSeq(path, n - m + 2, n))
      \/ pattern.kind = Ending /\ Globs(names, <<Last(path)>>)

\* A line of the file is a pattern, its attributes, and whether it is too long
\* for the scanner.  Attributes are the values of "access=" in order, with Other
\* for one that sets something else.
Other == "other"

\* ParseAttributes: lines without attributes are skipped, the last "access="
\* of a line counts, whatever value it gives.
ParseAttributes(lines) ==
  LET rule(line) ==
        LET i == SelectLastInSeq(line.attrs, LAMBDA a : a # Other)
        IN  [pattern |-> line.pattern,
             access |-> IF i = 0 THEN "private" ELSE line.attrs[i]]
  IN  Selected([i \in DOMAIN lines |-> rule(lines[i])],
               [i \in DOMAIN lines |-> lines[i].attrs # <<>>])[Len(lines)]

\* bufio.Scanner stops at a line of more than 64 KB, and ParseAttributes returns
\* its error.
Scans(lines) == \A i \in DOMAIN lines : ~lines[i].long

\* Mutant: the first rule that matches wins.
GetAccessFirst(rules, path) ==
  LET i == SelectInSeq(rules, LAMBDA r : MatchPattern(r.pattern, path))
  IN  IF i = 0 THEN "private" ELSE rules[i].access

\* GetAccess: the last rule that matches wins.
GetAccess(rules, path) ==
  LET i == SelectLastInSeq(rules, LAMBDA r : MatchPattern(r.pattern, path))
  IN  IF i = 0 THEN "private" ELSE rules[i].access

\* "*" as access=private: a policy without rules gives the same.
DefaultPolicy == <<>>
=============================================================================
