------------------------------ MODULE MCStream ------------------------------
(* Instances of Stream for TLC. *)
EXTENDS Stream

CONSTANTS plain, spaced, special, main, dev

Mark(n) == Line("mark", n)
By(k) == Line(k, plain)
From == Line("from", 1)
Path(name, quotes) == [name |-> name, quotes |-> quotes]
Regular(path) == Modify("mark", "regular", path, <<>>)

\* Data that are empty, that look like a stream, and that end without newline.
Blob(data) == Command("blob", None, <<Mark(1)>>, FALSE, data, <<>>, <<>>)
Blobs == {Blob(<<>>), Blob(<<Line("done", None), Line("data", 2)>>), Blob(<<Blank, Piece>>)}

Commit(head, odd, data, after, ops) == Command("commit", main, head, odd, data, after, ops)
Full == Commit(<<Mark(2), By("author"), By("committer")>>, FALSE, <<Text>>, <<From, Line("merge", 1)>>,
               <<Regular(Path(plain, 1)), Delete(Path(special, 0))>>)
Submodule == Commit(<<Mark(2)>>, FALSE, <<Line("reset", dev), Piece>>, <<>>,
                    <<Modify("mark", "gitlink", Path(plain, 0), <<>>), Regular(Path(spaced, 0))>>)
Signed(data) == Commit(<<Mark(2)>>, TRUE, data, <<From>>, <<Regular(Path(plain, 0))>>)
Inline == Commit(<<>>, FALSE, <<>>, <<>>,
                 <<Modify("inline", "regular", Path(plain, 0), <<Line("D", Path(plain, 0))>>),
                   Delete(Path(plain, 1))>>)

Reset(head) == Command("reset", dev, head, FALSE, <<>>, <<>>, <<>>)
Resets == {Reset(<<>>), Reset(<<From>>)}
Tag == Command("tag", dev, <<From, By("tagger")>>, FALSE, <<Text, Piece>>, <<>>, <<>>)
Noise == Command("noise", None, <<>>, FALSE, <<>>, <<>>, <<>>)

GitWritten == Blobs \cup Resets \cup {Full, Submodule, Signed(<<Text>>), Tag, Noise}
Generated == {Blob(<<Blank, Piece>>), Full, Inline} \cup Resets

UpTo(n, S) == UNION {[1 .. m -> S] : m \in 0 .. n}
Written(writer, streams, waiting) == [writer : {writer}, commands : streams, waits : waiting]

\* Two commands of git's, and of the generator's; one of a writer that does
\* not wait; a message that is read as commands.
Pairs == Written("git", UpTo(2, GitWritten), {TRUE})
         \cup Written("generator", UpTo(2, Generated), {TRUE})
         \cup Written("git", UpTo(1, GitWritten), {FALSE})
         \cup Written("git", {<<Signed(<<Line("done", None)>>)>>}, {TRUE})

One == Written("git", {<<Full>>}, {TRUE})
=============================================================================
