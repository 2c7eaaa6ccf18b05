------------------------------- MODULE Stream -------------------------------
(***************************************************************************)
(* The fast-export stream: internal/stream/parser.go as handleExport of    *)
(* internal/helper/export.go drives it, what git fast-export writes and    *)
(* what internal/stream/generator.go would, and the command loop of        *)
(* internal/helper/helper.go around it.                                    *)
(*                                                                         *)
(* Text is a sequence of units: lines, each with its newline, and pieces   *)
(* without one.  The bytes that "data" counts are units too, and may look  *)
(* like anything.  A line is a keyword k and its value v; the keyword      *)
(* "text" stands for every line that the parser does not know.             *)
(***************************************************************************)
EXTENDS Integers, Sequences, SequencesExt, FiniteSets, Slices

CONSTANTS
  Plans,   \* what is written: [writer, commands, waits], see below
  Special, \* names with characters that have to be quoted
  Spaced,  \* names with a space
  None,    \* no value
  Cut      \* a value that ends too early

VARIABLES
  plan,     \* the commands of the export, who writes them ("git" or
            \* "generator"), and whether git waits for one answer before it
            \* writes its next command, as it does, or not, as a script
  turns,    \* the units still to be written for each of git's commands
  flow,     \* "open", or "closed" by git, or "torn": closed within a unit
  pipe,     \* written, and not read or still in h.stdin
  ahead,    \* what the parser has read and not used yet: its buffer, a peeked
            \* line included
  pc,       \* "run", "next" (command), "body" (of one), "report"; "end", "failed"
  cur,      \* the command that is parsed
  out,      \* the commands parsed
  answered, \* how many commands of git's were answered
  answer    \* the answer to export: if a chain is configured, and the refs it
            \* names; None before

git == <<plan, turns, flow>>
helper == <<ahead, pc, cur, out, answered, answer>>
vars == <<git, pipe, helper>>

Line(k, v) == [k |-> k, v |-> v]
Text == Line("text", None)
Blank == Line("blank", None)
Piece == Line("piece", None)   \* text without a newline

-----------------------------------------------------------------------------
(* Commands: a type and its value, header lines before the data and after  *)
(* it, whether a header is unknown to the parser, data, file changes.  A   *)
(* path is a name with so many pairs of quotes around it.                  *)

Command(type, of, head, odd, data, after, ops) ==
  [type |-> type, of |-> of, head |-> head, odd |-> odd, data |-> data,
   after |-> after, ops |-> ops]

Modify(ref, mode, path, data) ==
  [k |-> "M", ref |-> ref, mode |-> mode, path |-> path, data |-> data]
Delete(path) == [k |-> "D", path |-> path]

\* Mutant: a quotation mark is an ordinary character.
NeedsQuotingSome(path) == path.name \in Special

\* needsQuoting.
NeedsQuoting(path) == path.name \in Special \/ path.quotes > 0

Quoted(path) == [path EXCEPT !.quotes = @ + 1]

\* quotePath; git also quotes a space.
QuotePath(writer, path) ==
  IF NeedsQuoting(path) \/ (writer = "git" /\ path.name \in Spaced)
  THEN Quoted(path) ELSE path

\* unquotePath.  The quoting of characters is undone with the quotes.
UnquotePath(path) ==
  IF path.quotes > 0 THEN [path EXCEPT !.quotes = @ - 1] ELSE path

DataLines(data) == <<Line("data", Len(data))>> \o data

\* writeData: a newline after the bytes.
WriteData(data) == Append(DataLines(data), Blank)

\* writeFileOp.
OpLines(writer, op) ==
  CASE op.k = "D" -> <<Line("D", QuotePath(writer, op.path))>>
    [] op.k = "M" ->
         <<Line("M", [ref |-> op.ref, mode |-> op.mode,
                      path |-> QuotePath(writer, op.path)])>>
         \o (IF op.ref = "inline" THEN WriteData(op.data) ELSE <<>>)

\* WriteBlob, WriteCommit, WriteReset; the generator has no tags.  git ends no
\* commit message with a newline of its own, and only a reset that has a "from"
\* with an empty line: the other comes before a commit without parents.
Lines(writer, c) ==
  CASE c.type = "noise" -> <<Text>>
    [] c.type = "blob" -> <<Line("blob", c.of)>> \o c.head \o WriteData(c.data)
    [] c.type = "reset" ->
         <<Line("reset", c.of)>> \o c.head
         \o (IF writer = "git" /\ c.head = <<>> THEN <<>> ELSE <<Blank>>)
    [] c.type = "tag" -> <<Line("tag", c.of)>> \o c.head \o WriteData(c.data)
    [] c.type = "commit" ->
         <<Line("commit", c.of)>> \o c.head
         \o (IF c.odd THEN <<Text>> ELSE <<>>)
         \o (IF writer = "git" THEN DataLines(c.data) ELSE WriteData(c.data))
         \o c.after
         \o FlattenSeq([i \in DOMAIN c.ops |-> OpLines(writer, c.ops[i])])
         \o <<Blank>>

\* WriteDone.  git begins with "feature done".
StreamOf(p) ==
  <<Text>> \o FlattenSeq([i \in DOMAIN p.commands |-> Lines(p.writer, p.commands[i])])
           \o <<Line("done", None)>>

-----------------------------------------------------------------------------
(* git: an export, another command, and the empty line that ends a session.*)

Turns(p) ==
  << <<Line("export", None)>> \o StreamOf(p), <<Line("list", None)>>, <<Blank>> >>

GitWrites ==
  /\ flow = "open" /\ turns # <<>>
  /\ plan.waits => answered >= 3 - Len(turns)
  /\ pipe' = Append(pipe, Head(Head(turns)))
  /\ turns' = IF Len(Head(turns)) = 1 THEN Tail(turns)
              ELSE <<Tail(Head(turns))>> \o Tail(turns)
  /\ UNCHANGED <<plan, flow, helper>>

\* What may be left of a line: another keyword, or a value that ends too early;
\* of an M line also too few fields.
CutForms(unit) ==
  {Text} \cup CASE unit.v = None -> {}
                [] unit.v # None /\ unit.k # "M" -> {Line(unit.k, Cut)}
                [] unit.k = "M" -> {Line("M", [unit.v EXCEPT !.path = Cut]),
                                    Line("M", [unit.v EXCEPT !.mode = Cut])}

\* git closes the pipe when it is through; before, because it or its
\* fast-export dies, perhaps within a line.
GitCloses ==
  /\ flow = "open"
  /\ \/ flow' = "closed" /\ UNCHANGED pipe
     \/ /\ turns # <<>> /\ Head(Head(turns)).k \notin {"blank", "piece"}
        /\ flow' = "torn"
        /\ \E unit \in CutForms(Head(Head(turns))) : pipe' = Append(pipe, unit)
  /\ UNCHANGED <<plan, turns, helper>>

Died == flow # "open" /\ turns # <<>>

-----------------------------------------------------------------------------
(* Run.                                                                    *)

At(s) == pc = s

\* ReadString: a line has come with its newline.
HasCommand ==
  \E i \in DOMAIN pipe : pipe[i].k # "piece" /\ (flow = "torn" => i < Len(pipe))

\* A command is read from h.stdin, which keeps what it reads ahead.
RunExport ==
  /\ At("run") /\ HasCommand /\ Head(pipe).k = "export"
  /\ pc' = "next" /\ pipe' = Tail(pipe)
  /\ UNCHANGED <<git, ahead, cur, out, answered, answer>>

RunList ==
  /\ At("run") /\ HasCommand /\ Head(pipe).k = "list"
  /\ answered' = answered + 1 /\ pipe' = Tail(pipe)
  /\ UNCHANGED <<git, ahead, pc, cur, out, answer>>

\* An empty line, or the end of the pipe, with the rest of a line before it.
RunEnds ==
  /\ At("run")
  /\ \/ HasCommand /\ Head(pipe).k = "blank" /\ pipe' = Tail(pipe)
     \/ ~HasCommand /\ flow # "open" /\ pipe' = <<>>
  /\ pc' = "end"
  /\ UNCHANGED <<git, ahead, cur, out, answered, answer>>

RunFails ==
  /\ At("run") /\ HasCommand /\ Head(pipe).k \notin {"export", "list", "blank"}
  /\ pc' = "failed" /\ pipe' = Tail(pipe)
  /\ UNCHANGED <<git, ahead, cur, out, answered, answer>>

-----------------------------------------------------------------------------
(* The parser.                                                             *)

Parsing == pc \in {"next", "body"}
Eof == flow # "open" /\ pipe = <<>>

\* A line is there if its newline is, or if nothing more comes.  A piece is
\* the beginning of the line that follows it.
HasLine == ahead # <<>> /\ (Eof \/ \E i \in DOMAIN ahead : ahead[i].k # "piece")
NoLine == Eof /\ ahead = <<>>
ThisLine == IF ahead = <<>> \/ ahead[1].k = "piece" THEN Text ELSE ahead[1]
Rest(s) ==
  LET n == SelectInSeq(s, LAMBDA unit : unit.k # "piece")
  IN  IF n = 0 THEN <<>> ELSE SubSeq(s, n + 1, Len(s))

\* readData at a data line: the bytes, and a newline if one follows.  To know
\* that, it waits for one byte more.
DataThere(s) ==
  \/ Eof
  \/ s # <<>> /\ (s[1].k = "data" /\ s[1].v # Cut => Len(s) >= s[1].v + 2)

\* Mutant: the newline is required.
DataGoodStrict(s) ==
  /\ s # <<>> /\ s[1].k = "data" /\ s[1].v # Cut
  /\ Len(s) > s[1].v + 1 /\ s[s[1].v + 2].k = "blank"

DataGood(s) ==
  /\ s # <<>> /\ s[1].k = "data" /\ s[1].v # Cut
  /\ Len(s) > s[1].v
  /\ flow = "torn" /\ Eof /\ s[1].v > 0 => Len(s) > s[1].v + 1
DataOf(s) == SubSeq(s, 2, s[1].v + 1)

AfterData(s) ==
  LET rest == SubSeq(s, s[1].v + 2, Len(s))
  IN  IF rest # <<>> /\ rest[1].k = "blank" THEN Tail(rest) ELSE rest

Wants ==
  \/ ~HasLine
  \/ /\ At("body") /\ ThisLine.k = "data" /\ cur.type # "reset"
     /\ ~DataThere(ahead)
  \/ /\ At("body") /\ ThisLine.k = "M" /\ cur.type = "commit"
     /\ ThisLine.v.mode # Cut /\ ThisLine.v.ref = "inline"
     /\ ~DataThere(Tail(ahead))

\* bufio fills the buffer with what it gets, when it has to.
Fill ==
  /\ Parsing /\ Wants /\ pipe # <<>>
  /\ \E n \in 1 .. Len(pipe) :
       ahead' = ahead \o SubSeq(pipe, 1, n) /\ pipe' = SubSeq(pipe, n + 1, Len(pipe))
  /\ UNCHANGED <<git, pc, cur, out, answered, answer>>

Types == {"blob", "commit", "reset", "tag"}

\* Next: a command, a line to skip, "done" or the end of the stream.
NextBegins ==
  /\ At("next") /\ HasLine /\ ThisLine.k \in Types
  /\ pc' = "body"
  /\ cur' = [type |-> ThisLine.k, of |-> ThisLine.v, head |-> <<>>, data |-> <<>>, ops |-> <<>>]
  /\ ahead' = Rest(ahead)
  /\ UNCHANGED <<git, pipe, out, answered, answer>>

NextSkips ==
  /\ At("next") /\ HasLine /\ ThisLine.k \notin Types \cup {"done"}
  /\ ahead' = Rest(ahead)
  /\ UNCHANGED <<git, pipe, pc, cur, out, answered, answer>>

\* Mutant: only the end of the stream ends it.
NextEndsAtEof ==
  /\ At("next") /\ NoLine
  /\ pc' = "report"
  /\ UNCHANGED <<git, pipe, ahead, cur, out, answered, answer>>

NextEnds ==
  /\ At("next")
  /\ \/ HasLine /\ ThisLine.k = "done" /\ ahead' = Rest(ahead)
     \/ NoLine /\ UNCHANGED ahead
  /\ pc' = "report"
  /\ UNCHANGED <<git, pipe, cur, out, answered, answer>>

\* The header lines that parseBlob, parseCommit, parseReset, parseTag know.
Headers ==
  [blob |-> {"mark"}, reset |-> {"from"}, tag |-> {"from", "tagger"},
   commit |-> {"mark", "author", "committer", "from", "merge"}]
Many == {"commit", "tag"}

Header ==
  /\ At("body") /\ HasLine /\ ThisLine.k \in Headers[cur.type]
  /\ cur.type \in Many \/ cur.head = <<>>
  /\ cur' = [cur EXCEPT !.head = Append(@, ThisLine)]
  /\ ahead' = Rest(ahead)
  /\ UNCHANGED <<git, pipe, pc, out, answered, answer>>

\* A blob ends with its data.
Data ==
  /\ At("body") /\ cur.type # "reset"
  /\ DataThere(ahead) /\ DataGood(ahead)
  /\ ahead' = AfterData(ahead)
  /\ IF cur.type = "blob"
     THEN /\ out' = Append(out, [cur EXCEPT !.data = DataOf(ahead)])
          /\ pc' = "next" /\ cur' = None
     ELSE /\ cur' = [cur EXCEPT !.data = DataOf(ahead)]
          /\ UNCHANGED <<pc, out>>
  /\ UNCHANGED <<git, pipe, answered, answer>>

\* Mutant: a submodule is taken for a file.
SkippedNever(line) == FALSE
Skipped(line) == line.v.mode = "gitlink"

\* parseFileModify: a submodule is skipped before its data would be read.
FileModify ==
  /\ At("body") /\ cur.type = "commit" /\ HasLine
  /\ ThisLine.k = "M" /\ ThisLine.v.mode # Cut
  /\ LET v == ThisLine.v
         op(data) == Modify(v.ref, v.mode, IF v.path = Cut THEN Cut ELSE UnquotePath(v.path), data)
         rest == Tail(ahead)
     IN  \/ Skipped(ThisLine) /\ ahead' = rest /\ UNCHANGED cur
         \/ /\ ~Skipped(ThisLine) /\ v.ref # "inline"
            /\ ahead' = rest
            /\ cur' = [cur EXCEPT !.ops = Append(@, op(<<>>))]
         \/ /\ ~Skipped(ThisLine) /\ v.ref = "inline"
            /\ DataThere(rest) /\ DataGood(rest)
            /\ ahead' = AfterData(rest)
            /\ cur' = [cur EXCEPT !.ops = Append(@, op(DataOf(rest)))]
  /\ UNCHANGED <<git, pipe, pc, out, answered, answer>>

FileDelete ==
  /\ At("body") /\ cur.type = "commit" /\ HasLine /\ ThisLine.k = "D"
  /\ cur' = [cur EXCEPT !.ops = Append(@, Delete(
       IF ThisLine.v = Cut THEN Cut ELSE UnquotePath(ThisLine.v)))]
  /\ ahead' = Rest(ahead)
  /\ UNCHANGED <<git, pipe, pc, out, answered, answer>>

BlankLine ==
  /\ At("body") /\ cur.type \in Many /\ HasLine /\ ThisLine.k = "blank"
  /\ ahead' = Rest(ahead)
  /\ UNCHANGED <<git, pipe, pc, cur, out, answered, answer>>

\* A line that is none of these, or the end of the stream, ends a commit or a
\* tag, and belongs to the next command.
Ends ==
  /\ At("body")
  /\ \/ /\ cur.type \in Many
        /\ NoLine \/ (HasLine /\ ThisLine.k \notin
             Headers[cur.type] \cup {"data", "blank"}
             \cup (IF cur.type = "commit" THEN {"M", "D"} ELSE {}))
     \/ /\ cur.type = "reset"
        /\ \/ cur.head # <<>> \/ NoLine
           \/ HasLine /\ ThisLine.k # "from"
  /\ out' = Append(out, cur) /\ cur' = None
  /\ pc' = "next"
  /\ UNCHANGED <<git, pipe, ahead, answered, answer>>

\* No data where data have to be, or not all of them; a path is missing.
BodyFails ==
  /\ At("body")
  /\ \/ /\ cur.type = "blob"
        /\ \/ NoLine
           \/ /\ HasLine /\ ThisLine.k # "data"
              /\ ThisLine.k = "mark" => cur.head # <<>>
     \/ /\ cur.type # "reset" /\ HasLine /\ ThisLine.k = "data"
        /\ DataThere(ahead) /\ ~DataGood(ahead)
     \/ /\ cur.type = "commit" /\ HasLine /\ ThisLine.k = "M"
        /\ \/ ThisLine.v.mode = Cut
           \/ /\ ThisLine.v.ref = "inline" /\ ~Skipped(ThisLine)
              /\ DataThere(Tail(ahead)) /\ ~DataGood(Tail(ahead))
  /\ pc' = "failed"
  /\ UNCHANGED <<git, pipe, ahead, cur, out, answered, answer>>

\* Mutant: the refs of tags are answered for, not those of resets.
NamedTags(chain) ==
  {c.of : c \in {d \in ToSet(out) : d.type = "commit" \/ (d.type = "tag" /\ ~chain)}}

\* handleExport answers for the refs of the commits, and without a chain for
\* those of the resets too.
Named(chain) ==
  {c.of : c \in {d \in ToSet(out) : d.type = "commit" \/ (d.type = "reset" /\ ~chain)}}

\* Mutants: the answer comes after the first command; the parser is kept.
ReportEarly(chain) ==
  /\ At("report") \/ (At("next") /\ out # <<>>)
  /\ answer' = [chain |-> chain, refs |-> Named(chain)]
  /\ answered' = answered + 1
  /\ ahead' = <<>>
  /\ pc' = "run"
  /\ UNCHANGED <<git, pipe, cur, out>>

ReportKeepsParser(chain) ==
  /\ At("report")
  /\ answer' = [chain |-> chain, refs |-> Named(chain)]
  /\ answered' = answered + 1
  /\ pc' = "run"
  /\ UNCHANGED <<git, pipe, ahead, cur, out>>

\* The parser is dropped, and what it has read ahead.
Report(chain) ==
  /\ At("report")
  /\ answer' = [chain |-> chain, refs |-> Named(chain)]
  /\ answered' = answered + 1
  /\ ahead' = <<>>
  /\ pc' = "run"
  /\ UNCHANGED <<git, pipe, cur, out>>

-----------------------------------------------------------------------------
(* What git and the generator write: sequences of commands, each with the  *)
(* headers, data and file changes of its type.  Submodules have no data of *)
(* their own, files have data only in line, and those only the generator   *)
(* writes, which has no unknown headers.  What breaks off is told from     *)
(* what does not.                                                          *)

HeaderOf(type, line) == line = Line(line.k, line.v) /\ line.k \in Headers[type]

GoodPath(path) ==
  /\ path = [name |-> path.name, quotes |-> path.quotes] /\ path.quotes \in Nat
  /\ path # Cut /\ Quoted(path) # Cut

GoodOp(op) ==
  /\ GoodPath(op.path)
  /\ \/ /\ op.k = "M" /\ op = Modify(op.ref, op.mode, op.path, op.data)
        /\ op.mode # Cut /\ Sequence(op.data)
        /\ op.ref # "inline" => op.data = <<>>
        /\ op.mode = "gitlink" => op.ref # "inline"
     \/ op = Delete(op.path)

GoodCommand(c) ==
  /\ c.type \in Types /\ c.odd \in BOOLEAN
  /\ Sequence(c.head) /\ \A i \in DOMAIN c.head : HeaderOf(c.type, c.head[i])
  /\ c.type \notin Many => Len(c.head) <= 1
  /\ Sequence(c.data) /\ (c.type = "reset" => c.data = <<>>)
  /\ Sequence(c.after) /\ \A i \in DOMAIN c.after : HeaderOf("commit", c.after[i])
  /\ Sequence(c.ops) /\ \A i \in DOMAIN c.ops : GoodOp(c.ops[i])
  /\ c.odd => \A i \in DOMAIN c.ops : c.ops[i].k = "M" => c.ops[i].ref # "inline"
  /\ c.type # "commit" => ~c.odd /\ c.after = <<>> /\ c.ops = <<>>

GoodPlan(p) ==
  /\ p.writer \in {"git", "generator"} /\ p.waits \in BOOLEAN
  /\ Sequence(p.commands)
  /\ \A i \in DOMAIN p.commands :
       p.commands[i].type = "noise" \/ GoodCommand(p.commands[i])

ASSUME StreamAssumption == Cut \notin Nat /\ \A p \in Plans : GoodPlan(p)

-----------------------------------------------------------------------------
Init ==
  /\ plan \in Plans
  /\ turns = Turns(plan)
  /\ flow = "open"
  /\ pipe = <<>> /\ ahead = <<>>
  /\ pc = "run" /\ cur = None /\ out = <<>>
  /\ answered = 0 /\ answer = None

Helper ==
  \/ RunExport \/ RunList \/ RunEnds \/ RunFails
  \/ Fill
  \/ NextBegins \/ NextSkips \/ NextEnds
  \/ Header \/ Data \/ FileModify \/ FileDelete \/ BlankLine \/ Ends \/ BodyFails
  \/ \E chain \in BOOLEAN : Report(chain)

Next == GitWrites \/ GitCloses \/ Helper

Spec == Init /\ [][Next]_vars

\* The helper runs, and git writes what it may write, unless it closes the pipe.
FairSpec == Spec /\ WF_vars(Helper) /\ WF_vars(GitWrites)
-----------------------------------------------------------------------------
(* Properties.                                                             *)

\* Submodules are skipped.
Kept(ops) ==
  Selected(ops, [n \in DOMAIN ops |-> ops[n].k = "M" => ops[n].mode # "gitlink"])

\* What the parser makes of a command: of a commit with a header it does not
\* know, only what comes before that.
Meant(c) ==
  [type |-> c.type, of |-> c.of,
   head |-> IF c.odd THEN c.head ELSE c.head \o c.after,
   data |-> IF c.odd THEN <<>> ELSE c.data,
   ops |-> IF c.odd THEN <<>> ELSE Kept(c.ops)[Len(c.ops)]]

\* What it makes of the first n.
MeantBy(commands) ==
  Selected([n \in DOMAIN commands |-> Meant(commands[n])],
           [n \in DOMAIN commands |-> commands[n].type # "noise"])

Expected == MeantBy(plan.commands)[Len(plan.commands)]

\* The data of a commit with an unknown header are read as commands.
Harmless ==
  \A i \in DOMAIN plan.commands :
    LET c == plan.commands[i]
    IN  c.odd => \A j \in DOMAIN c.data : c.data[j].k \notin Types \cup {"done"}

Whole == Len(turns) < 3

\* A sequence that ends too early, perhaps within its last element.
Short(s, t, IsCut(_, _)) ==
  /\ Len(s) <= Len(t)
  /\ \A i \in DOMAIN s : s[i] = t[i] \/ (i = Len(s) /\ IsCut(s[i], t[i]))

CutLine(a, b) == a = [b EXCEPT !.v = Cut]
CutOp(a, b) == a = [b EXCEPT !.path = Cut]

ShortCommand(c, d) ==
  /\ c.type = d.type /\ c.of \in {d.of, Cut}
  /\ Short(c.head, d.head, CutLine) /\ Short(c.ops, d.ops, CutOp)
  /\ c.data \in {<<>>, d.data}

\* Every variable has its type; the answers are counted.
TypeOK ==
  /\ plan \in Plans
  /\ Len(turns) <= 3 /\ flow \in {"open", "closed", "torn"}
  /\ pc \in {"run", "next", "body", "report", "end", "failed"}
  /\ pc \notin {"body", "failed"} => cur = None
  /\ pc = "body" => cur.type \in Types
  /\ ~Parsing => ahead = <<>> \/ pc \in {"report", "failed"}
  /\ answered \in Nat /\ (Harmless => answered <= 2)
  /\ answer # None => answered > 0

\* The parser gives the commands that were written, in their order, each with
\* all of its headers, data and file changes: whatever lines the data are made
\* of, end with or look like, whichever paths are quoted by git or by the
\* generator, wherever the reads of the pipe end, and whatever is between
\* commands.  Of a commit with an unknown header the rest is lost, and only
\* that, if no line of its message starts a command.
ParsedAsWritten == answer # None /\ Whole /\ Harmless => out = Expected

\* While the stream comes in, and when it breaks off anywhere, the parser has
\* no command that was not written: all are as they were meant but the last one
\* before the break, which lacks what came later or ends within a value.
NothingMadeUp ==
  Harmless =>
    \/ IsPrefix(out, Expected)
    \/ Died /\ Short(out, Expected, ShortCommand)

\* An export that fails failed because the stream broke off.
FailsOnlyIfBroken == pc = "failed" /\ Harmless => Died

\* git gets one answer for each command it waits for, although the parser's
\* buffer is dropped with all that was read beyond "done".
AnsweredInTurn == plan.waits /\ Harmless /\ pc = "end" => Died \/ answered = 2

\* The answer names the refs the stream is about: those of commits, and those
\* that a reset sets without a commit, but not if a chain is configured.
RefsAnswered ==
  answer # None /\ Whole /\ Harmless =>
    answer.refs = {c.of : c \in {d \in ToSet(Expected) :
                     d.type = "commit" \/ (d.type = "reset" /\ ~answer.chain)}}

\* git gets an end of every export: neither waits for the other for ever.
ExportEnds == pc \in {"next", "body", "report"} ~> pc \in {"run", "end", "failed"}

-----------------------------------------------------------------------------
(* What comments of the source say and the code does not keep.             *)

\* internal/helper/export.go: "parse reads the entire fast-export stream,
\* collecting blobs and commits."  Of a ref that is answered for, the commits
\* that were to be written were collected, each with all that it has.
EntireStreamParsed ==
  answer # None =>
    \A i \in DOMAIN plan.commands :
      LET c == plan.commands[i]
      IN  c.type = "commit" /\ c.of \in answer.refs => Meant(c) \in ToSet(out)
=============================================================================
