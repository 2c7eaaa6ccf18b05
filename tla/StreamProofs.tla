---------------------------- MODULE StreamProofs ----------------------------
(***************************************************************************)
(* Proofs about Stream: that every run property of it but the liveness one *)
(* holds of every session, for all plans that StreamAssumption admits.     *)
(*                                                                         *)
(* The text of a session is numbered, unit by unit.  The invariant says    *)
(* how many units m are written and how many, at, the helper has used; the *)
(* others are read ahead or in the pipe, in their order (Tape), so that    *)
(* the next line is the one that was written or, where the stream is torn, *)
(* what is left of it.  Where the helper is in the text says what it has   *)
(* parsed (Sound): the commands before, and of the one it is in the        *)
(* headers, data and file changes before (InBody).  A stream that breaks   *)
(* off leaves the text (Broken), as does the end of the session (Over).    *)
(* SessionStands puts the three together; the theorems after it follow.    *)
(***************************************************************************)
EXTENDS Stream, Recursion

-----------------------------------------------------------------------------
(* The helper's buffer.                                                    *)

\* Rest drops a line and the pieces before it.
LEMMA RestFacts ==
  ASSUME NEW s, Sequence(s)
  PROVE  \/ Rest(s) = <<>> /\ \A i \in 1 .. Len(s) : s[i].k = "piece"
         \/ \E n \in 1 .. Len(s) :
              /\ Rest(s) = SubSeq(s, n + 1, Len(s)) /\ s[n].k # "piece"
              /\ \A j \in 1 .. n - 1 : s[j].k = "piece"
<1>1. PICK I : I = {i \in 1 .. Len(s) : s[i].k # "piece"}
  OBVIOUS
<1>2. PICK r : r = SelectInSeq(s, LAMBDA unit : unit.k # "piece")
  OBVIOUS
<1>3. Rest(s) = IF r = 0 THEN <<>> ELSE SubSeq(s, r + 1, Len(s))
  BY <1>2 DEF Rest
<1>4. CASE I = {}
  <2>1. r = 0
    BY <1>1, <1>2, <1>4 DEF SelectInSeq
  <2> QED
    BY <1>1, <1>3, <1>4, <2>1
<1>5. CASE I # {}
  <2>1. PICK n \in I : \A d \in I : n <= d
    BY <1>1, <1>5, LeastNumber, SMTT(60) DEF Sequence
  <2>2. PICK m : m = Min(I)
    OBVIOUS
  <2>3. m \in I /\ \A d \in I : m <= d
    BY <2>1, <2>2 DEF Min
  <2>4. r = m
    BY <1>1, <1>2, <1>5, <2>2 DEF SelectInSeq
  <2>5. m \in 1 .. Len(s) /\ Len(s) \in Nat /\ m # 0
    BY <1>1, <2>3 DEF Sequence
  <2>6. ASSUME NEW j \in 1 .. m - 1 PROVE s[j].k = "piece"
    <3>1. j \in 1 .. Len(s) /\ ~(m <= j)
      BY <2>5
    <3> QED
      BY <1>1, <2>3, <3>1
  <2> QED
    BY <1>1, <1>3, <2>3, <2>4, <2>5, <2>6
<1> QED
  BY <1>4, <1>5

-----------------------------------------------------------------------------
(* The text of a session, unit by unit.                                    *)

LinesAt(p, i) == Lines(p.writer, p.commands[i])

\* How many units there are when i commands are past; "export" and "feature
\* done" come before.
Past(p) == RunningSum(2, [i \in 1 .. Len(p.commands) |-> Len(LinesAt(p, i))])

ExportText(p) == <<Line("export", None)>> \o StreamOf(p)
Size(p) == Past(p)[Len(p.commands)] + 1
Unit(p, j) ==
  IF j <= Size(p) THEN ExportText(p)[j] ELSE IF j = Size(p) + 1 THEN Line("list", None) ELSE Blank

\* The units of git's commands when m are written.
Left(p, m) ==
  IF m < Size(p)
  THEN << SubSeq(ExportText(p), m + 1, Size(p)), <<Line("list", None)>>, <<Blank>> >>
  ELSE IF m = Size(p) THEN << <<Line("list", None)>>, <<Blank>> >>
  ELSE IF m = Size(p) + 1 THEN << <<Blank>> >>
  ELSE <<>>

-----------------------------------------------------------------------------
(* The lines of a command, and what is parsed of it between two of them.   *)

OpsPast(writer, ops) ==
  RunningSum(0, [j \in 1 .. Len(ops) |-> Len(OpLines(writer, ops[j]))])

Parsed(c, head, data, ops) ==
  [type |-> c.type, of |-> c.of, head |-> head, data |-> data, ops |-> ops]

\* Where the lines after the data begin, and where the file changes do.
Pad(writer, c) == IF writer = "git" /\ c.type = "commit" THEN 0 ELSE 1
AfterFrom(writer, c) == Len(c.head) + 2 + Len(c.data) + Pad(writer, c)
OpsFrom(writer, c) == AfterFrom(writer, c) + Len(c.after)

\* A reset of git's without a "from" is one line; what comes next ends it, as
\* it ends a commit or a tag.
Bare(writer, c) == c.type = "reset" /\ writer = "git" /\ c.head = <<>>
EndsOpen(writer, c) == c.type \in Many \/ Bare(writer, c)

AllHeads(c) == c.head \o c.after
Heads(c, k) == SubSeq(AllHeads(c), 1, k)

\* After x units of c it is parsed so far.
Spot(writer, c, x, sofar) ==
  \/ \E k \in 0 .. Len(c.head) :
       x = 1 + k /\ sofar = Parsed(c, Heads(c, k), <<>>, <<>>)
  \/ /\ c.type \in Many /\ ~c.odd
     /\ \E k \in 0 .. Len(c.after) :
          /\ x = AfterFrom(writer, c) + k
          /\ sofar = Parsed(c, Heads(c, Len(c.head) + k), c.data, <<>>)
  \/ /\ c.type = "commit" /\ ~c.odd
     /\ \E j \in 0 .. Len(c.ops) :
          /\ x = OpsFrom(writer, c) + OpsPast(writer, c.ops)[j]
          /\ sofar = Parsed(c, AllHeads(c), c.data, Kept(c.ops)[j])
  \/ /\ c.type = "commit" /\ ~c.odd
     /\ x = Len(Lines(writer, c)) /\ sofar = Meant(c)

\* The same, but an empty line may still come that says nothing.
InBody(writer, c, x, sofar) ==
  \/ Spot(writer, c, x, sofar)
  \/ /\ x \in 1 .. Len(Lines(writer, c)) - 1 /\ Lines(writer, c)[x + 1] = Blank
     /\ Spot(writer, c, x + 1, sofar)

-----------------------------------------------------------------------------
(* The invariant.                                                          *)

\* The j-th unit when m are written whole: it may be cut if it is the next.
Sent(p, closed, m, j, unit) ==
  \/ j <= m /\ unit = Unit(p, j)
  \/ j = m + 1 /\ closed = "torn" /\ unit \in CutForms(Unit(p, j))

Torn(closed) == IF closed = "torn" THEN 1 ELSE 0

\* m units are written, the helper has used the first at of them; the others
\* are read ahead or in the pipe.
TapeOf(p, left, closed, read, sent, m, at) ==
  /\ left = Left(p, m)
  /\ closed = "torn" => m <= Size(p) + 1 /\ Unit(p, m + 1).k \notin {"blank", "piece"}
  /\ Sequence(read) /\ Sequence(sent)
  /\ at + Len(read) + Len(sent) = m + Torn(closed)
  /\ \A a \in 1 .. Len(read) : Sent(p, closed, m, at + a, read[a])
  /\ \A b \in 1 .. Len(sent) : Sent(p, closed, m, at + Len(read) + b, sent[b])

Tape(m, at) == TapeOf(plan, turns, flow, ahead, pipe, m, at)

Idle(unit) == unit.k \notin Types \cup {"done"}

\* Between commands, and in a message that is skipped.
Between(p, i, at) ==
  /\ at <= Past(p)[i]
  /\ \A j \in at + 1 .. Past(p)[i] : Idle(Unit(p, j))
  /\ at < Past(p)[i] => Unit(p, Past(p)[i]).k # "piece"

Count == Len(plan.commands)
MeantOf(i) == MeantBy(plan.commands)[i]

Starting(at) == pc = "run" /\ at = 0 /\ out = <<>> /\ ahead = <<>> /\ answered = 0

AtNext(at) ==
  pc = "next" /\ answered = 0 /\ \E i \in 0 .. Count : out = MeantOf(i) /\ Between(plan, i, at)

AtBody(at) ==
  /\ pc = "body" /\ answered = 0
  /\ \E i \in 1 .. Count :
       /\ plan.commands[i].type # "noise" /\ out = MeantOf(i - 1)
       /\ InBody(plan.writer, plan.commands[i], at - Past(plan)[i - 1], cur)

AtReport(at) == pc = "report" /\ answered = 0 /\ at = Size(plan) /\ out = MeantOf(Count)

Answered(at) ==
  /\ pc = "run" /\ ahead = <<>> /\ out = MeantOf(Count) /\ at >= Size(plan)
  /\ answered = 1 \/ (answered = 2 /\ at > Size(plan))
  /\ plan.waits => at = Size(plan) + (answered - 1)

Sound(m, at) ==
  /\ Tape(m, at) /\ (plan.waits => m <= Size(plan) + answered)
  /\ Starting(at) \/ AtNext(at) \/ AtBody(at) \/ AtReport(at) \/ Answered(at)

\* The session is over.
Over ==
  /\ pc = "end" /\ out = MeantOf(Count) /\ answered \in 1 .. 2
  /\ flow # "open" \/ turns = <<>>
  /\ plan.waits => Died \/ answered = 2

\* The stream has broken off, and the helper has seen it.
Broken ==
  /\ Died /\ pipe = <<>>
  /\ Short(out, MeantOf(Count), ShortCommand)
  /\ Len(turns) = 3 \/ out = MeantOf(Count)
  /\ pc = "run" => ahead = <<>>
  /\ pc = "next" => Sequence(ahead) /\ \A a \in DOMAIN ahead : Idle(ahead[a])
  /\ pc = "body" =>
       /\ ahead = <<>>
       /\ \E i \in 1 .. Count :
            /\ plan.commands[i].type # "noise" /\ out = MeantOf(i - 1)
            /\ ShortCommand(cur, Meant(plan.commands[i]))
  /\ answered <= IF pc \in {"next", "body", "report"} THEN 0 ELSE 2

Fine == Over \/ Broken \/ \E m \in 0 .. Size(plan) + 2 : \E at \in 0 .. m : Sound(m, at)

\* What every variable is, the commands and refs that come of them left aside.
Basic ==
  /\ plan \in Plans /\ \E m \in 0 .. Size(plan) + 2 : turns = Left(plan, m)
  /\ flow \in {"open", "closed", "torn"}
  /\ pc \in {"run", "next", "body", "report", "end", "failed"}
  /\ pc \notin {"body", "failed"} => cur = None
  /\ pc = "body" => cur.type \in Types /\ cur = Parsed(cur, cur.head, cur.data, cur.ops)
  /\ ~Parsing => ahead = <<>> \/ pc \in {"report", "failed"}
  /\ answered \in Nat /\ (answer # None => answered > 0)

\* The answer is for what was parsed.
AnswerMatches == answer # None => answer.refs = Named(answer.chain)

StreamInv == Basic /\ (Harmless => Fine /\ AnswerMatches)

-----------------------------------------------------------------------------
(* What the lines of a command are.                                        *)

\* Data, without and with the newline after them.
LEMMA DataText ==
  ASSUME NEW data, Sequence(data)
  PROVE  /\ Sequence(DataLines(data)) /\ Len(DataLines(data)) = Len(data) + 1
         /\ DataLines(data)[1] = Line("data", Len(data))
         /\ \A q \in 1 .. Len(data) : DataLines(data)[1 + q] = data[q]
         /\ Sequence(WriteData(data)) /\ Len(WriteData(data)) = Len(data) + 2
         /\ WriteData(data)[1] = Line("data", Len(data))
         /\ \A q \in 1 .. Len(data) : WriteData(data)[1 + q] = data[q]
         /\ WriteData(data)[Len(data) + 2] = Blank
<1>1. PICK t : t = <<Line("data", Len(data))>>
  OBVIOUS
<1>2. Sequence(t) /\ Len(t) = 1 /\ t[1] = Line("data", Len(data))
  BY <1>1, ShortSequences
<1>3. PICK n \in Nat : n = Len(data)
  BY DEF Sequence
<1>4. PICK s : s = t \o data
  OBVIOUS
<1>5. /\ Sequence(s) /\ Len(s) = 1 + n /\ s[1] = Line("data", Len(data))
      /\ \A q \in 1 .. n : s[1 + q] = data[q]
  <2>1. IsConcat(s, t, data)
    BY <1>2, <1>4, ConcatFacts
  <2> QED
    BY <1>2, <1>3, <2>1 DEF IsConcat
<1>6. s = DataLines(data)
  BY <1>1, <1>4 DEF DataLines
<1>7. PICK w : w = Append(s, Blank)
  OBVIOUS
<1>8. /\ Sequence(w) /\ Len(w) = Len(s) + 1
      /\ \A i \in 1 .. Len(s) : w[i] = s[i]
      /\ w[Len(s) + 1] = Blank
  <2>1. Sequence(s)
    BY <1>5
  <2> QED
    BY <1>7, <2>1, AppendElement
<1>9. w = WriteData(data)
  BY <1>6, <1>7 DEF WriteData
<1>10. Len(s) = n + 1 /\ Len(w) = n + 2 /\ w[n + 2] = Blank /\ w[1] = s[1]
  BY <1>5, <1>8
<1>11. \A q \in 1 .. n : w[1 + q] = data[q]
  <2>1. \A q \in 1 .. n : 1 + q \in 1 .. Len(s)
    BY <1>10
  <2> QED
    BY <1>5, <1>8, <2>1
<1> QED
  BY <1>3, <1>5, <1>6, <1>8, <1>9, <1>10, <1>11

\* L is the lines of a file change: one, and data if they are in line.
OpLaid(writer, op, L) ==
  /\ Sequence(L) /\ Len(L) >= 1
  /\ op.k \in {"D", "M"}
  /\ op.k = "D" => Len(L) = 1 /\ L[1] = Line("D", QuotePath(writer, op.path))
  /\ op.k = "M" =>
       L[1] = Line("M", [ref |-> op.ref, mode |-> op.mode, path |-> QuotePath(writer, op.path)])
  /\ op.k = "M" /\ op.ref # "inline" => Len(L) = 1
  /\ op.k = "M" /\ op.ref = "inline" =>
       /\ Len(L) = Len(op.data) + 3
       /\ L[2] = Line("data", Len(op.data))
       /\ \A q \in 1 .. Len(op.data) : L[2 + q] = op.data[q]
       /\ L[Len(op.data) + 3] = Blank

\* The lines of a file change are laid out like that.
LEMMA OpText ==
  ASSUME NEW writer, NEW op, GoodOp(op)
  PROVE  OpLaid(writer, op, OpLines(writer, op))
<1>1. op.k = "D" \/ (op.k = "M" /\ Sequence(op.data))
  BY DEF GoodOp, Delete
<1>2. CASE op.k = "D"
  <2>1. PICK e : e = Line("D", QuotePath(writer, op.path))
    OBVIOUS
  <2>2. OpLines(writer, op) = <<e>>
    BY <1>2, <2>1 DEF OpLines
  <2>3. op.k # "M"
    BY <1>2
  <2> QED
    BY <1>2, <2>1, <2>2, <2>3, ShortSequences DEF OpLaid
<1>3. CASE op.k = "M" /\ Sequence(op.data)
  <2>1. PICK e : e = Line("M", [ref |-> op.ref, mode |-> op.mode,
                                path |-> QuotePath(writer, op.path)])
    OBVIOUS
  <2>2. PICK t : t = <<e>>
    OBVIOUS
  <2>3. Sequence(t) /\ Len(t) = 1 /\ t[1] = e
    BY <2>2, ShortSequences
  <2>4. OpLines(writer, op) = t \o (IF op.ref = "inline" THEN WriteData(op.data) ELSE <<>>)
    BY <1>3, <2>1, <2>2 DEF OpLines
  <2>5. op.k # "D"
    BY <1>3
  <2>6. CASE op.ref # "inline"
    <3>1. PICK s : s = t \o <<>>
      OBVIOUS
    <3>2. OpLines(writer, op) = s
      BY <2>4, <2>6, <3>1
    <3>3. Sequence(<<>>) /\ Len(<<>>) = 0
      BY ShortSequences
    <3>4. IsConcat(s, t, <<>>)
      BY <2>3, <3>1, <3>3, ConcatFacts
    <3>5. Sequence(s) /\ Len(s) = 1 /\ s[1] = e
      BY <2>3, <3>3, <3>4 DEF IsConcat
    <3>6. Sequence(OpLines(writer, op)) /\ Len(OpLines(writer, op)) = 1
      BY <3>2, <3>5
    <3>7. OpLines(writer, op)[1] = e /\ ~(op.ref = "inline")
      BY <2>6, <3>2, <3>5
    <3> QED
      BY <1>3, <2>1, <2>5, <3>6, <3>7 DEF OpLaid
  <2>7. CASE op.ref = "inline"
    <3>1. PICK w : w = WriteData(op.data)
      OBVIOUS
    <3>2. PICK s : s = t \o w
      OBVIOUS
    <3>3. OpLines(writer, op) = s
      BY <2>4, <2>7, <3>1, <3>2
    <3>4. PICK n \in Nat : n = Len(op.data)
      BY <1>3 DEF Sequence
    <3>5. /\ Sequence(w) /\ Len(w) = n + 2 /\ w[1] = Line("data", Len(op.data))
          /\ \A q \in 1 .. n : w[1 + q] = op.data[q]
          /\ w[n + 2] = Blank
      BY <1>3, <3>1, <3>4, DataText
    <3>6. IsConcat(s, t, w)
      BY <2>3, <3>2, <3>5, ConcatFacts
    <3>7. Len(s) = n + 3 /\ s[1] = e /\ s[2] = w[1] /\ s[n + 3] = w[n + 2]
      <4>1. 1 \in 1 .. Len(w) /\ n + 2 \in 1 .. Len(w) /\ 1 + (n + 2) = n + 3
        BY <3>5
      <4> QED
        BY <2>3, <3>5, <3>6, <4>1 DEF IsConcat
    <3>8. \A q \in 1 .. n : s[2 + q] = op.data[q]
      <4>1. \A q \in 1 .. n : 1 + q \in 1 .. Len(w) /\ 1 + (1 + q) = 2 + q
        BY <3>5
      <4> QED
        BY <2>3, <3>5, <3>6, <4>1 DEF IsConcat
    <3>9. Sequence(s)
      BY <3>6 DEF IsConcat
    <3> QED
      BY <1>3, <2>1, <2>5, <2>7, <3>3, <3>4, <3>5, <3>7, <3>8, <3>9 DEF OpLaid
  <2> QED
    BY <2>6, <2>7
<1> QED
  BY <1>1, <1>2, <1>3

\* F is the lines of file changes, each after the ones before it.
OpsLaid(writer, ops, F) ==
  /\ Sequence(F)
  /\ OpsPast(writer, ops) \in [0 .. Len(ops) -> Nat]
  /\ OpsPast(writer, ops)[0] = 0
  /\ \A j \in 1 .. Len(ops) :
       OpsPast(writer, ops)[j] = OpsPast(writer, ops)[j - 1] + Len(OpLines(writer, ops[j]))
  /\ Len(F) = OpsPast(writer, ops)[Len(ops)]
  /\ \A j \in 1 .. Len(ops) : \A q \in 1 .. Len(OpLines(writer, ops[j])) :
       /\ OpsPast(writer, ops)[j - 1] + q \in 1 .. Len(F)
       /\ F[OpsPast(writer, ops)[j - 1] + q] = OpLines(writer, ops[j])[q]
  /\ \A x \in 1 .. Len(F) : \E j \in 1 .. Len(ops) :
       \E q \in 1 .. Len(OpLines(writer, ops[j])) : F[x] = OpLines(writer, ops[j])[q]

\* The lines of file changes are laid out like that.
LEMMA OpsText ==
  ASSUME NEW writer, NEW ops, Sequence(ops), \A j \in 1 .. Len(ops) : GoodOp(ops[j])
  PROVE  OpsLaid(writer, ops, FlattenSeq([j \in DOMAIN ops |-> OpLines(writer, ops[j])]))
<1> DEFINE F == FlattenSeq([j \in DOMAIN ops |-> OpLines(writer, ops[j])])
<1>1. PICK N \in Nat : N = Len(ops)
  BY DEF Sequence
<1>2. DOMAIN ops = 1 .. N
  BY <1>1, SequenceSet
<1>3. PICK s : s = [j \in 1 .. N |-> OpLines(writer, ops[j])]
  OBVIOUS
<1>4. F = FlattenSeq(s)
  BY <1>2, <1>3
<1>5. PICK S : S = UNION {{OpLines(writer, ops[j])[q] : q \in 1 .. Len(OpLines(writer, ops[j]))} :
                            j \in 1 .. N}
  OBVIOUS
<1>6. ASSUME NEW j \in 1 .. N
      PROVE  s[j] \in Seq(S) /\ s[j] = OpLines(writer, ops[j])
  <2>1. PICK t : t = OpLines(writer, ops[j])
    OBVIOUS
  <2>2. Sequence(t)
    BY <1>1, <2>1, OpText DEF OpLaid
  <2>3. t \in Seq({t[q] : q \in 1 .. Len(t)})
    BY <2>2, SequenceSet
  <2>4. {t[q] : q \in 1 .. Len(t)} \subseteq S
    BY <1>5, <2>1
  <2>5. t \in Seq(S)
    BY <2>3, <2>4
  <2> QED
    BY <1>3, <2>1, <2>5
<1>7. s \in Seq(Seq(S)) /\ Len(s) = N
  <2> HIDE <1>5
  <2> QED
    BY <1>3, <1>6
<1>8. PICK lens : lens = [j \in 1 .. N |-> Len(s[j])]
  OBVIOUS
<1>9. lens \in Seq(Nat) /\ Len(lens) = N
  <2>1. \A j \in 1 .. N : Len(s[j]) \in Nat
    BY <1>6
  <2> QED
    BY <1>8, <2>1
<1>10. [j \in 1 .. Len(ops) |-> Len(OpLines(writer, ops[j]))] = lens
  BY <1>1, <1>6, <1>8
<1>11. PICK off : off = OpsPast(writer, ops)
  OBVIOUS
<1>12. off = RunningSum(0, lens)
  BY <1>10, <1>11 DEF OpsPast
<1>13. /\ off \in [0 .. N -> Nat] /\ off[0] = 0
       /\ \A j \in 1 .. N : off[j] = off[j - 1] + lens[j]
  <2>1. AddsUp(off, 0, lens)
    BY <1>9, <1>12, RunningSumFacts
  <2> QED
    BY <1>9, <2>1 DEF AddsUp
<1>14. \A j \in 1 .. N : lens[j] = Len(s[j])
  BY <1>8
<1>15. /\ FlattenSeq(s) \in Seq(S)
       /\ off[N] = 0 + Len(FlattenSeq(s))
       /\ \A j \in 1 .. N : \A q \in 1 .. Len(s[j]) :
            /\ off[j - 1] - 0 + q \in 1 .. Len(FlattenSeq(s))
            /\ FlattenSeq(s)[off[j - 1] - 0 + q] = s[j][q]
  <2>1. /\ off \in [0 .. Len(s) -> Nat] /\ 0 \in Nat
        /\ \A j \in 1 .. Len(s) : off[j] = off[j - 1] + Len(s[j])
    BY <1>7, <1>13, <1>14
  <2> HIDE <1>3, <1>5, <1>8, <1>11
  <2>2. FlattenSeq(s) \in Seq(S) /\ Joins(FlattenSeq(s), s, 0, off)
    BY <1>7, <1>13, <2>1, FlattenFacts
  <2> QED
    BY <1>7, <2>2 DEF Joins
<1> HIDE DEF F
<1>16. F \in Seq(S) /\ off[N] = Len(F)
  BY <1>4, <1>13, <1>15
<1>17. Sequence(F)
  BY <1>16, SequenceOf
<1>18. ASSUME NEW j \in 1 .. N, NEW q \in 1 .. Len(s[j])
       PROVE  off[j - 1] + q \in 1 .. Len(F) /\ F[off[j - 1] + q] = s[j][q]
  <2>1. off[j - 1] - 0 + q = off[j - 1] + q
    BY <1>13
  <2> QED
    BY <1>4, <1>15, <2>1
<1>19. ASSUME NEW x \in 1 .. Len(F)
       PROVE  \E j \in 1 .. N : \E q \in 1 .. Len(OpLines(writer, ops[j])) :
                F[x] = OpLines(writer, ops[j])[q]
  <2>1. F[x] \in S
    BY <1>16
  <2> QED
    BY <1>5, <2>1
<1>20. \A j \in 1 .. N : off[j] = off[j - 1] + Len(OpLines(writer, ops[j]))
  BY <1>6, <1>13, <1>14
<1>21. \A j \in 1 .. N : \A q \in 1 .. Len(OpLines(writer, ops[j])) :
         off[j - 1] + q \in 1 .. Len(F) /\ F[off[j - 1] + q] = OpLines(writer, ops[j])[q]
  BY <1>6, <1>18
<1> HIDE DEF F
<1>22. OpsLaid(writer, ops, F)
  BY <1>1, <1>11, <1>13, <1>16, <1>17, <1>19, <1>20, <1>21 DEF OpsLaid
<1> QED
  BY <1>22 DEF F

\* L is the lines of the commit c.
CommitLaid(writer, c, L) ==
  /\ Sequence(L) /\ L[1] = Line("commit", c.of) /\ Len(L) >= Len(c.head) + 3
  /\ \A k \in 1 .. Len(c.head) : L[1 + k] = c.head[k]
  /\ ~c.odd =>
       /\ Len(L) = OpsFrom(writer, c) + OpsPast(writer, c.ops)[Len(c.ops)] + 1
       /\ L[Len(c.head) + 2] = Line("data", Len(c.data))
       /\ \A q \in 1 .. Len(c.data) : L[Len(c.head) + 2 + q] = c.data[q]
       /\ writer # "git" => L[Len(c.head) + 2 + Len(c.data) + 1] = Blank
       /\ \A k \in 1 .. Len(c.after) : L[AfterFrom(writer, c) + k] = c.after[k]
       /\ \A j \in 1 .. Len(c.ops) : \A q \in 1 .. Len(OpLines(writer, c.ops[j])) :
            L[OpsFrom(writer, c) + OpsPast(writer, c.ops)[j - 1] + q]
              = OpLines(writer, c.ops[j])[q]
  /\ c.odd =>
       /\ L[Len(c.head) + 2] = Text
       /\ (\A q \in 1 .. Len(c.data) : Idle(c.data[q]))
            => \A x \in Len(c.head) + 2 .. Len(L) : Idle(L[x])
  /\ L[Len(L)] = Blank

\* The lines of a commit are laid out like that.
LEMMA CommitText ==
  ASSUME NEW writer, NEW c, GoodCommand(c), c.type = "commit"
  PROVE  CommitLaid(writer, c, Lines(writer, c))
<1>1. /\ Sequence(c.head) /\ Sequence(c.data) /\ Sequence(c.after) /\ Sequence(c.ops)
      /\ c.odd \in BOOLEAN
      /\ \A j \in 1 .. Len(c.ops) : GoodOp(c.ops[j])
      /\ \A k \in 1 .. Len(c.after) : HeaderOf("commit", c.after[k])
      /\ c.odd => \A j \in 1 .. Len(c.ops) : c.ops[j].k = "M" => c.ops[j].ref # "inline"
  BY SequenceSet DEF GoodCommand
<1>2. PICK A0 : A0 = <<Line("commit", c.of)>>
  OBVIOUS
<1>3. PICK O : O = IF c.odd THEN <<Text>> ELSE <<>>
  OBVIOUS
<1>4. PICK D : D = IF writer = "git" THEN DataLines(c.data) ELSE WriteData(c.data)
  OBVIOUS
<1>5. PICK F : F = FlattenSeq([j \in DOMAIN c.ops |-> OpLines(writer, c.ops[j])])
  OBVIOUS
<1>6. PICK Z : Z = <<Blank>>
  OBVIOUS
<1>7. PICK A : A = A0 \o c.head
  OBVIOUS
<1>8. PICK B : B = A \o O
  OBVIOUS
<1>9. PICK C : C = B \o D
  OBVIOUS
<1>10. PICK E : E = C \o c.after
  OBVIOUS
<1>11. PICK G : G = E \o F
  OBVIOUS
<1>12. PICK L : L = G \o Z
  OBVIOUS
<1>13. Lines(writer, c) = L
  <2>1. c.type \notin {"noise", "blob", "reset", "tag"}
    OBVIOUS
  <2>2. Lines(writer, c) = <<Line("commit", c.of)>> \o c.head
         \o (IF c.odd THEN <<Text>> ELSE <<>>)
         \o (IF writer = "git" THEN DataLines(c.data) ELSE WriteData(c.data))
         \o c.after
         \o FlattenSeq([i \in DOMAIN c.ops |-> OpLines(writer, c.ops[i])])
         \o <<Blank>>
    BY <2>1 DEF Lines
  <2> QED
    BY <1>2, <1>3, <1>4, <1>5, <1>6, <1>7, <1>8, <1>9, <1>10, <1>11, <1>12, <2>2, Zenon
<1>14. PICK n \in Nat : n = Len(c.data)
  BY <1>1 DEF Sequence
<1>15. PICK h \in Nat : h = Len(c.head)
  BY <1>1 DEF Sequence
<1>16. PICK r \in Nat : r = Len(c.after)
  BY <1>1 DEF Sequence
<1>17. /\ Sequence(D) /\ D[1] = Line("data", n)
       /\ \A q \in 1 .. n : D[1 + q] = c.data[q]
       /\ writer = "git" => Len(D) = n + 1
       /\ writer # "git" => Len(D) = n + 2 /\ D[n + 2] = Blank
  BY <1>1, <1>4, <1>14, DataText
<1>18. OpsLaid(writer, c.ops, F)
  BY <1>1, <1>5, OpsText
<1>19. Sequence(F)
  BY <1>18 DEF OpsLaid
<1>20. /\ Sequence(A0) /\ Len(A0) = 1 /\ A0[1] = Line("commit", c.of)
       /\ Sequence(Z) /\ Len(Z) = 1 /\ Z[1] = Blank
  BY <1>2, <1>6, ShortSequences
<1>21. /\ Sequence(O) /\ (c.odd => Len(O) = 1 /\ O[1] = Text) /\ (~c.odd => Len(O) = 0)
  BY <1>3, ShortSequences
<1>22. IsConcat(A, A0, c.head) /\ Sequence(A)
  BY <1>1, <1>7, <1>20, ConcatFacts
<1>23. IsConcat(B, A, O) /\ Sequence(B)
  BY <1>8, <1>21, <1>22, ConcatFacts
<1>24. IsConcat(C, B, D) /\ Sequence(C)
  BY <1>9, <1>17, <1>23, ConcatFacts
<1>25. IsConcat(E, C, c.after) /\ Sequence(E)
  BY <1>1, <1>10, <1>24, ConcatFacts
<1>26. IsConcat(G, E, F) /\ Sequence(G)
  BY <1>11, <1>19, <1>25, ConcatFacts
<1>27. IsConcat(L, G, Z) /\ Sequence(L)
  BY <1>12, <1>20, <1>26, ConcatFacts
<1>28. /\ Sequence(A) /\ Len(A) = 1 + h /\ A[1] = Line("commit", c.of)
       /\ \A k \in 1 .. h : A[1 + k] = c.head[k]
  BY <1>15, <1>20, <1>22 DEF IsConcat
<1>29. PICK f \in Nat : f = Len(F)
  BY <1>19 DEF Sequence
<1>30. PICK o \in Nat : o = Len(O)
  BY <1>21 DEF Sequence
<1>31. PICK d \in Nat : d = Len(D)
  BY <1>17 DEF Sequence
<1>32. /\ Len(B) = 1 + h + o /\ Len(C) = 1 + h + o + d /\ Len(E) = 1 + h + o + d + r
       /\ Len(G) = 1 + h + o + d + r + f /\ Len(L) = 1 + h + o + d + r + f + 1
  BY <1>16, <1>20, <1>23, <1>24, <1>25, <1>26, <1>27, <1>28, <1>29, <1>30, <1>31 DEF IsConcat
<1>33. /\ \A x \in 1 .. Len(G) : L[x] = G[x]
       /\ \A x \in 1 .. Len(E) : L[x] = E[x]
       /\ \A x \in 1 .. Len(C) : L[x] = C[x]
       /\ \A x \in 1 .. Len(B) : L[x] = B[x]
       /\ \A x \in 1 .. Len(A) : L[x] = A[x]
  <2>1. /\ \A x \in 1 .. Len(G) : L[x] = G[x]
        /\ \A x \in 1 .. Len(E) : G[x] = E[x]
        /\ \A x \in 1 .. Len(C) : E[x] = C[x]
        /\ \A x \in 1 .. Len(B) : C[x] = B[x]
        /\ \A x \in 1 .. Len(A) : B[x] = A[x]
    BY <1>23, <1>24, <1>25, <1>26, <1>27 DEF IsConcat
  <2>2. Len(A) <= Len(B) /\ Len(B) <= Len(C) /\ Len(C) <= Len(E) /\ Len(E) <= Len(G)
    BY <1>28, <1>32
  <2>3. /\ \A x \in 1 .. Len(A) : x \in 1 .. Len(B)
        /\ \A x \in 1 .. Len(B) : x \in 1 .. Len(C)
        /\ \A x \in 1 .. Len(C) : x \in 1 .. Len(E)
        /\ \A x \in 1 .. Len(E) : x \in 1 .. Len(G)
    BY <1>28, <1>32, <2>2
  <2> QED
    BY <2>1, <2>3, ZenonT(60)
<1>34. /\ Sequence(L) /\ L[1] = Line("commit", c.of) /\ Len(L) >= h + 3
       /\ \A k \in 1 .. h : L[1 + k] = c.head[k]
  <2>1. Sequence(L)
    BY <1>27 DEF IsConcat
  <2>2. d >= 1
    BY <1>17, <1>31
  <2>3. Len(L) >= h + 3
    BY <1>32, <2>2
  <2>4. 1 \in 1 .. Len(A) /\ \A k \in 1 .. h : 1 + k \in 1 .. Len(A)
    BY <1>28
  <2> QED
    BY <1>28, <1>33, <2>1, <2>3, <2>4
<1>35. L[Len(L)] = Blank
  <2>1. 1 \in 1 .. Len(Z) /\ Len(L) = Len(G) + 1
    BY <1>20, <1>32
  <2> QED
    BY <1>20, <1>27, <2>1 DEF IsConcat
<1>36. /\ \A x \in 1 .. o : L[1 + h + x] = O[x]
       /\ \A x \in 1 .. d : L[1 + h + o + x] = D[x]
       /\ \A x \in 1 .. r : L[1 + h + o + d + x] = c.after[x]
       /\ \A x \in 1 .. f : L[1 + h + o + d + r + x] = F[x]
  <2>1. /\ \A x \in 1 .. o : B[1 + h + x] = O[x]
        /\ \A x \in 1 .. d : C[1 + h + o + x] = D[x]
        /\ \A x \in 1 .. r : E[1 + h + o + d + x] = c.after[x]
        /\ \A x \in 1 .. f : G[1 + h + o + d + r + x] = F[x]
    BY <1>16, <1>23, <1>24, <1>25, <1>26, <1>28, <1>29, <1>30, <1>31, <1>32, ZenonT(60) DEF IsConcat
  <2>2. /\ \A x \in 1 .. o : 1 + h + x \in 1 .. Len(B)
        /\ \A x \in 1 .. d : 1 + h + o + x \in 1 .. Len(C)
        /\ \A x \in 1 .. r : 1 + h + o + d + x \in 1 .. Len(E)
        /\ \A x \in 1 .. f : 1 + h + o + d + r + x \in 1 .. Len(G)
    BY <1>32
  <2> QED
    BY <1>33, <2>1, <2>2, ZenonT(60)
<1>37. CASE ~c.odd
  <2>1. o = 0 /\ c.odd = FALSE
    BY <1>1, <1>21, <1>30, <1>37
  <2>2. AfterFrom(writer, c) = 1 + h + o + d /\ OpsFrom(writer, c) = 1 + h + o + d + r
    <3>1. Pad(writer, c) = IF writer = "git" THEN 0 ELSE 1
      BY DEF Pad
    <3>2. d = n + 1 + (IF writer = "git" THEN 0 ELSE 1)
      BY <1>17, <1>31
    <3>3. AfterFrom(writer, c) = h + 2 + n + (IF writer = "git" THEN 0 ELSE 1)
      BY <1>14, <1>15, <3>1 DEF AfterFrom
    <3>4. AfterFrom(writer, c) = 1 + h + o + d
      BY <2>1, <3>2, <3>3
    <3> QED
      BY <1>16, <3>4 DEF OpsFrom
  <2>3. Len(L) = OpsFrom(writer, c) + OpsPast(writer, c.ops)[Len(c.ops)] + 1
    BY <1>18, <1>29, <1>32, <2>2 DEF OpsLaid
  <2>4. /\ L[h + 2] = Line("data", n)
        /\ \A q \in 1 .. n : L[h + 2 + q] = c.data[q]
        /\ writer # "git" => L[h + 2 + n + 1] = Blank
    <3>1. /\ 1 \in 1 .. d /\ \A q \in 1 .. n : 1 + q \in 1 .. d
          /\ writer # "git" => n + 2 \in 1 .. d
      BY <1>17, <1>31
    <3>2. /\ 1 + h + o + 1 = h + 2 /\ \A q \in 1 .. n : 1 + h + o + (1 + q) = h + 2 + q
          /\ 1 + h + o + (n + 2) = h + 2 + n + 1
      BY <2>1
    <3> QED
      BY <1>17, <1>36, <3>1, <3>2, SMTT(60)
  <2>5. \A k \in 1 .. Len(c.after) : L[AfterFrom(writer, c) + k] = c.after[k]
    BY <1>16, <1>36, <2>2
  <2>6. ASSUME NEW j \in 1 .. Len(c.ops), NEW q \in 1 .. Len(OpLines(writer, c.ops[j]))
        PROVE  L[OpsFrom(writer, c) + OpsPast(writer, c.ops)[j - 1] + q]
                 = OpLines(writer, c.ops[j])[q]
    <3>1. PICK u \in Nat : u = OpsPast(writer, c.ops)[j - 1]
      <4>1. j - 1 \in 0 .. Len(c.ops)
        BY <1>1 DEF Sequence
      <4> QED
        BY <1>18, <4>1 DEF OpsLaid
    <3>2. u + q \in 1 .. f /\ F[u + q] = OpLines(writer, c.ops[j])[q]
      BY <1>18, <1>29, <3>1 DEF OpsLaid
    <3>3. L[1 + h + o + d + r + (u + q)] = F[u + q]
      BY <1>36, <3>2
    <3>4. q \in Nat
      OBVIOUS
    <3>5. 1 + h + o + d + r + (u + q) = OpsFrom(writer, c) + u + q
      BY <2>2, <3>4
    <3> QED
      BY <3>1, <3>2, <3>3, <3>5
  <2> QED
    BY <1>13, <1>14, <1>15, <1>34, <1>35, <1>37, <2>3, <2>4, <2>5, <2>6 DEF CommitLaid
<1>38. CASE c.odd
  <2>1. o = 1
    BY <1>1, <1>21, <1>30, <1>38
  <2>2. L[h + 2] = Text
    BY <1>21, <1>30, <1>36, <1>38, <2>1
  <2>3. ASSUME \A q \in 1 .. Len(c.data) : Idle(c.data[q]), NEW x \in h + 2 .. Len(L)
        PROVE  Idle(L[x])
    <3>1. Idle(Text) /\ Idle(Blank) /\ Idle(Line("data", n))
      BY DEF Idle, Text, Blank, Line, Types
    <3>2. \/ x = h + 2 \/ \E y \in 1 .. d : x = 1 + h + o + y
          \/ \E y \in 1 .. r : x = 1 + h + o + d + y
          \/ \E y \in 1 .. f : x = 1 + h + o + d + r + y
          \/ x = Len(L)
      <4>1. x \in Nat
        OBVIOUS
      <4>2. /\ x <= 1 + h + o + d => x = h + 2 \/ x - (1 + h + o) \in 1 .. d
            /\ x > 1 + h + o + d /\ x <= 1 + h + o + d + r => x - (1 + h + o + d) \in 1 .. r
            /\ x > 1 + h + o + d + r /\ x <= 1 + h + o + d + r + f
                 => x - (1 + h + o + d + r) \in 1 .. f
            /\ x > 1 + h + o + d + r + f => x = Len(L)
        BY <1>32, <2>1, <4>1
      <4>3. /\ x = 1 + h + o + (x - (1 + h + o))
            /\ x = 1 + h + o + d + (x - (1 + h + o + d))
            /\ x = 1 + h + o + d + r + (x - (1 + h + o + d + r))
        BY <4>1
      <4>4. \/ x <= 1 + h + o + d
            \/ (x > 1 + h + o + d /\ x <= 1 + h + o + d + r)
            \/ (x > 1 + h + o + d + r /\ x <= 1 + h + o + d + r + f)
            \/ x > 1 + h + o + d + r + f
        BY <4>1
      <4> QED
        BY <4>2, <4>3, <4>4
    <3>3. CASE x = h + 2
      BY <2>2, <3>1, <3>3
    <3>4. CASE \E y \in 1 .. d : x = 1 + h + o + y
      <4>1. PICK y \in 1 .. d : x = 1 + h + o + y
        BY <3>4
      <4>2. L[x] = D[y]
        BY <1>36, <4>1
      <4>3. y = 1 \/ (\E q \in 1 .. n : y = 1 + q) \/ (y = n + 2 /\ writer # "git")
        <5>1. y = 1 \/ y - 1 \in 1 .. n \/ (y = n + 2 /\ writer # "git")
          BY <1>17, <1>31
        <5> QED
          BY <5>1
      <4> QED
        BY <1>14, <1>17, <2>3, <3>1, <4>2, <4>3
    <3>5. CASE \E y \in 1 .. r : x = 1 + h + o + d + y
      <4>1. PICK y \in 1 .. r : x = 1 + h + o + d + y
        BY <3>5
      <4>2. L[x] = c.after[y] /\ HeaderOf("commit", c.after[y])
        BY <1>1, <1>16, <1>36, <4>1
      <4> QED
        BY <4>2 DEF HeaderOf, Headers, Idle, Types
    <3>6. CASE \E y \in 1 .. f : x = 1 + h + o + d + r + y
      <4>1. PICK y \in 1 .. f : x = 1 + h + o + d + r + y
        BY <3>6
      <4>2. L[x] = F[y]
        BY <1>36, <4>1
      <4>3. PICK j \in 1 .. Len(c.ops) : \E q \in 1 .. Len(OpLines(writer, c.ops[j])) :
              F[y] = OpLines(writer, c.ops[j])[q]
        BY <1>18, <1>29 DEF OpsLaid
      <4>4. /\ GoodOp(c.ops[j]) /\ (c.ops[j].k = "M" => c.ops[j].ref # "inline")
        BY <1>1, <1>38
      <4>5. /\ Len(OpLines(writer, c.ops[j])) = 1
            /\ OpLines(writer, c.ops[j])[1].k \in {"D", "M"}
        <5>1. OpLaid(writer, c.ops[j], OpLines(writer, c.ops[j]))
          BY <4>4, OpText
        <5> QED
          BY <4>4, <5>1 DEF OpLaid, Line
      <4>6. F[y] = OpLines(writer, c.ops[j])[1]
        BY <4>3, <4>5
      <4> QED
        BY <4>2, <4>5, <4>6 DEF Idle, Types
    <3>7. CASE x = Len(L)
      BY <1>35, <3>1, <3>7
    <3> QED
      BY <3>2, <3>3, <3>4, <3>5, <3>6, <3>7
  <2> QED
    BY <1>13, <1>15, <1>34, <1>35, <1>38, <2>2, <2>3 DEF CommitLaid
<1> QED
  BY <1>1, <1>37, <1>38

\* L is the lines of the blob, tag or reset c.
PlainLaid(writer, c, L) ==
  /\ Sequence(L) /\ L[1] = Line(c.type, c.of)
  /\ \A k \in 1 .. Len(c.head) : L[1 + k] = c.head[k]
  /\ c.type = "reset" /\ ~Bare(writer, c) => Len(L) = Len(c.head) + 2
  /\ Bare(writer, c) => Len(L) = 1
  /\ c.type # "reset" =>
       /\ Len(L) = Len(c.head) + Len(c.data) + 3
       /\ L[Len(c.head) + 2] = Line("data", Len(c.data))
       /\ \A q \in 1 .. Len(c.data) : L[Len(c.head) + 2 + q] = c.data[q]
  /\ ~Bare(writer, c) => L[Len(L)] = Blank

\* The lines of a blob, a tag or a reset are laid out like that.
LEMMA PlainText ==
  ASSUME NEW writer, NEW c, GoodCommand(c), c.type # "commit"
  PROVE  PlainLaid(writer, c, Lines(writer, c))
<1>1. Sequence(c.head) /\ Sequence(c.data) /\ c.type \in {"blob", "tag", "reset"}
  BY DEF GoodCommand, Types
<1>2. PICK A0 : A0 = <<Line(c.type, c.of)>>
  OBVIOUS
<1>3. PICK D : D = IF Bare(writer, c) THEN <<>>
                   ELSE IF c.type = "reset" THEN <<Blank>> ELSE WriteData(c.data)
  OBVIOUS
<1>4. PICK A : A = A0 \o c.head
  OBVIOUS
<1>5. PICK L : L = A \o D
  OBVIOUS
<1>6. Lines(writer, c) = L
  <2>1. CASE c.type = "blob"
    BY <1>2, <1>3, <1>4, <1>5, <2>1 DEF Lines, Bare
  <2>2. CASE c.type = "tag"
    BY <1>2, <1>3, <1>4, <1>5, <2>2 DEF Lines, Bare
  <2>3. CASE c.type = "reset"
    BY <1>2, <1>3, <1>4, <1>5, <2>3 DEF Lines, Bare
  <2> QED
    BY <1>1, <2>1, <2>2, <2>3
<1>7. PICK n \in Nat : n = Len(c.data)
  BY <1>1 DEF Sequence
<1>8. PICK h \in Nat : h = Len(c.head)
  BY <1>1 DEF Sequence
<1>9. /\ Sequence(A0) /\ Len(A0) = 1 /\ A0[1] = Line(c.type, c.of)
  BY <1>2, ShortSequences
<1>10. IsConcat(A, A0, c.head) /\ Sequence(A)
  BY <1>1, <1>4, <1>9, ConcatFacts
<1>11. Len(A) = 1 + h /\ A[1] = Line(c.type, c.of) /\ \A k \in 1 .. h : A[1 + k] = c.head[k]
  BY <1>8, <1>9, <1>10 DEF IsConcat
<1>12. Sequence(D) /\ Len(D) \in Nat
  BY <1>1, <1>3, DataText, ShortSequences, ZenonT(60) DEF Sequence
<1>13. IsConcat(L, A, D) /\ Sequence(L)
  BY <1>5, <1>10, <1>12, ConcatFacts
<1>14. /\ Len(L) = 1 + h + Len(D)
       /\ \A x \in 1 .. 1 + h : L[x] = A[x]
       /\ \A x \in 1 .. Len(D) : L[1 + h + x] = D[x]
  BY <1>11, <1>13 DEF IsConcat
<1>15. L[1] = Line(c.type, c.of) /\ \A k \in 1 .. h : L[1 + k] = c.head[k]
  <2>1. 1 \in 1 .. 1 + h /\ \A k \in 1 .. h : 1 + k \in 1 .. 1 + h
    OBVIOUS
  <2> QED
    BY <1>11, <1>14, <2>1
<1>16. CASE c.type = "reset" /\ ~Bare(writer, c)
  <2>1. Len(D) = 1 /\ D[1] = Blank
    BY <1>3, <1>16, ShortSequences
  <2>2. Len(L) = h + 2 /\ L[h + 2] = Blank
    <3>1. 1 \in 1 .. Len(D) /\ 1 + h + 1 = h + 2
      BY <2>1
    <3> QED
      BY <1>14, <2>1, <3>1
  <2> QED
    BY <1>6, <1>8, <1>13, <1>15, <1>16, <2>2 DEF PlainLaid
<1>17. CASE c.type # "reset"
  <2>1. /\ Len(D) = n + 2 /\ D[1] = Line("data", Len(c.data)) /\ D[n + 2] = Blank
        /\ \A q \in 1 .. n : D[1 + q] = c.data[q]
    BY <1>1, <1>3, <1>7, <1>17, DataText DEF Bare
  <2>2. /\ Len(L) = h + n + 3
        /\ L[h + 2] = Line("data", Len(c.data)) /\ L[h + n + 3] = Blank
        /\ \A q \in 1 .. n : L[h + 2 + q] = c.data[q]
    <3>1. /\ 1 \in 1 .. Len(D) /\ n + 2 \in 1 .. Len(D)
          /\ \A q \in 1 .. n : 1 + q \in 1 .. Len(D)
      BY <2>1
    <3>2. /\ 1 + h + 1 = h + 2 /\ 1 + h + (n + 2) = h + n + 3
          /\ \A q \in 1 .. n : 1 + h + (1 + q) = h + 2 + q
      OBVIOUS
    <3> QED
      BY <1>14, <2>1, <3>1, <3>2
  <2> QED
    BY <1>6, <1>7, <1>8, <1>13, <1>15, <1>17, <2>2 DEF PlainLaid, Bare
<1>18. CASE Bare(writer, c)
  <2>1. Len(D) = 0 /\ h = 0
    BY <1>3, <1>8, <1>18, ShortSequences DEF Bare
  <2>2. Len(L) = 1
    BY <1>14, <2>1
  <2> QED
    BY <1>6, <1>8, <1>13, <1>15, <1>18, <2>2 DEF PlainLaid, Bare
<1> QED
  BY <1>16, <1>17, <1>18

-----------------------------------------------------------------------------
(* What is parsed of a command.                                            *)

\* The beginnings of the headers.
LEMMA HeadsFacts ==
  ASSUME NEW c, GoodCommand(c)
  PROVE  /\ Sequence(AllHeads(c)) /\ Len(AllHeads(c)) = Len(c.head) + Len(c.after)
         /\ \A k \in 1 .. Len(c.head) : AllHeads(c)[k] = c.head[k]
         /\ \A k \in 1 .. Len(c.after) : AllHeads(c)[Len(c.head) + k] = c.after[k]
         /\ \A k \in 0 .. Len(AllHeads(c)) :
              /\ Sequence(Heads(c, k)) /\ Len(Heads(c, k)) = k
              /\ \A i \in 1 .. k : Heads(c, k)[i] = AllHeads(c)[i]
         /\ \A k \in 0 .. Len(AllHeads(c)) - 1 :
              Append(Heads(c, k), AllHeads(c)[k + 1]) = Heads(c, k + 1)
         /\ Heads(c, 0) = <<>>
         /\ Heads(c, Len(c.head)) = c.head
         /\ Heads(c, Len(AllHeads(c))) = AllHeads(c)
<1>1. Sequence(c.head) /\ Sequence(c.after)
  BY DEF GoodCommand
<1>2. PICK s : s = AllHeads(c)
  OBVIOUS
<1>3. IsConcat(s, c.head, c.after) /\ Sequence(s)
  BY <1>1, <1>2, ConcatFacts DEF AllHeads
<1>4. PICK N \in Nat : N = Len(s)
  BY <1>3 DEF Sequence
<1>5. Len(c.head) \in Nat /\ Len(c.after) \in Nat
  BY <1>1 DEF Sequence
<1>6. /\ N = Len(c.head) + Len(c.after)
      /\ \A k \in 1 .. Len(c.head) : s[k] = c.head[k]
      /\ \A k \in 1 .. Len(c.after) : s[Len(c.head) + k] = c.after[k]
  BY <1>3, <1>4 DEF IsConcat
<1>7. ASSUME NEW k \in 0 .. N
      PROVE  /\ Sequence(Heads(c, k)) /\ Len(Heads(c, k)) = k
             /\ \A i \in 1 .. k : Heads(c, k)[i] = s[i]
  <2>1. PICK t : t = SubSeq(s, 1, k)
    OBVIOUS
  <2>2. /\ Sequence(t) /\ Len(t) = (IF k < 1 THEN 0 ELSE k - 1 + 1)
        /\ \A i \in 1 .. Len(t) : t[i] = s[1 + i - 1]
    <3>1. 1 \in Nat /\ k \in Nat /\ 1 <= 1 /\ k <= Len(s)
      BY <1>4
    <3> QED
      BY <1>3, <2>1, <3>1, PartFacts
  <2>3. Len(t) = k /\ \A i \in 1 .. k : 1 + i - 1 = i
    BY <2>2
  <2>4. t = Heads(c, k)
    BY <1>2, <2>1 DEF Heads
  <2> QED
    BY <2>2, <2>3, <2>4
<1>8. ASSUME NEW k \in 0 .. N - 1
      PROVE  Append(Heads(c, k), s[k + 1]) = Heads(c, k + 1)
  <2>1. PICK t : t = Heads(c, k)
    OBVIOUS
  <2>2. PICK u : u = Heads(c, k + 1)
    OBVIOUS
  <2>3. k \in 0 .. N /\ k + 1 \in 0 .. N
    OBVIOUS
  <2>4. /\ Sequence(t) /\ Len(t) = k /\ \A i \in 1 .. k : t[i] = s[i]
        /\ Sequence(u) /\ Len(u) = k + 1 /\ \A i \in 1 .. k + 1 : u[i] = s[i]
    BY <1>7, <2>1, <2>2, <2>3
  <2>5. PICK v : v = Append(t, s[k + 1])
    OBVIOUS
  <2>6. /\ Sequence(v) /\ Len(v) = Len(t) + 1
        /\ \A i \in 1 .. Len(t) : v[i] = t[i]
        /\ v[Len(t) + 1] = s[k + 1]
    BY <2>4, <2>5, AppendElement
  <2>7. \A i \in 1 .. k + 1 : i \in 1 .. k \/ i = k + 1
    OBVIOUS
  <2>8. \A i \in 1 .. k + 1 : v[i] = u[i]
    BY <2>4, <2>6, <2>7
  <2>9. Len(u) = Len(v)
    BY <2>4, <2>6
  <2>10. v = u
    BY <2>4, <2>6, <2>8, <2>9, SameSequence
  <2> QED
    BY <2>1, <2>2, <2>5, <2>10
<1>9. Heads(c, 0) = <<>>
  <2>1. Sequence(Heads(c, 0)) /\ Len(Heads(c, 0)) = 0
    BY <1>7
  <2> QED
    BY <2>1, ShortSequences
<1>10. Heads(c, Len(c.head)) = c.head
  <2>1. Len(c.head) \in 0 .. N
    <3>1. \A x, y \in Nat : x \in 0 .. x + y
      OBVIOUS
    <3> QED
      BY <1>5, <1>6, <3>1, Zenon
  <2>2. PICK t : t = Heads(c, Len(c.head))
    OBVIOUS
  <2>3. Sequence(t) /\ Len(t) = Len(c.head) /\ \A i \in 1 .. Len(c.head) : t[i] = s[i]
    BY <1>7, <2>1, <2>2
  <2>4. \A i \in 1 .. Len(t) : t[i] = c.head[i]
    BY <1>6, <2>3
  <2>5. t = c.head
    BY <1>1, <2>3, <2>4, SameSequence
  <2> QED
    BY <2>2, <2>5
<1>11. Heads(c, N) = s
  <2>1. PICK t : t = Heads(c, N)
    OBVIOUS
  <2>2. Sequence(t) /\ Len(t) = N /\ \A i \in 1 .. N : t[i] = s[i]
    BY <1>7, <2>1
  <2>3. t = s
    BY <1>3, <1>4, <2>2, SameSequence
  <2> QED
    BY <2>1, <2>3
<1> QED
  BY <1>2, <1>3, <1>4, <1>6, <1>7, <1>8, <1>9, <1>10, <1>11

\* What is kept of the first file changes.
LEMMA KeptFacts ==
  ASSUME NEW ops, Sequence(ops)
  PROVE  /\ \A j \in 0 .. Len(ops) : Sequence(Kept(ops)[j])
         /\ Kept(ops)[0] = <<>>
         /\ \A j \in 1 .. Len(ops) :
              /\ (ops[j].k = "M" => ops[j].mode # "gitlink")
                   => Kept(ops)[j] = Append(Kept(ops)[j - 1], ops[j])
              /\ ~(ops[j].k = "M" => ops[j].mode # "gitlink") => Kept(ops)[j] = Kept(ops)[j - 1]
         /\ \A j \in 0 .. Len(ops) : Begins(Kept(ops)[j], Kept(ops)[Len(ops)])
<1>1. PICK keep : keep = [n \in DOMAIN ops |-> ops[n].k = "M" => ops[n].mode # "gitlink"]
  OBVIOUS
<1>2. PICK f : f = Selected(ops, keep)
  OBVIOUS
<1>3. f = Kept(ops)
  BY <1>1, <1>2 DEF Kept
<1>4. PICK N \in Nat : N = Len(ops) /\ DOMAIN ops = 1 .. N
  BY SequenceSet DEF Sequence
<1>5. \A n \in 1 .. N : keep[n] <=> (ops[n].k = "M" => ops[n].mode # "gitlink")
  BY <1>1, <1>4
<1>6. PICK S : S = {ops[n] : n \in 1 .. N}
  OBVIOUS
<1>7. \A n \in 1 .. Len(ops) : ops[n] \in S
  BY <1>4, <1>6
<1> HIDE <1>6
<1>8. /\ f \in [0 .. N -> Seq(S)] /\ f[0] = <<>>
      /\ \A n \in 1 .. N : /\ keep[n] => f[n] = Append(f[n - 1], ops[n])
                           /\ ~keep[n] => f[n] = f[n - 1]
  BY <1>2, <1>4, <1>7, SelectedFacts, ZenonT(60)
<1>9. \A j \in 0 .. N : Sequence(f[j])
  BY <1>8, SequenceOf
<1>10. ASSUME NEW j \in 0 .. N PROVE Begins(f[j], f[N])
  <2>1. j \in 0 .. Len(ops) /\ N \in j .. Len(ops)
    BY <1>4
  <2> QED
    BY <1>2, <2>1, SelectedGrows
<1>11. \A j \in 1 .. N :
         /\ (ops[j].k = "M" => ops[j].mode # "gitlink") => f[j] = Append(f[j - 1], ops[j])
         /\ ~(ops[j].k = "M" => ops[j].mode # "gitlink") => f[j] = f[j - 1]
  BY <1>5, <1>8
<1> QED
  BY <1>3, <1>4, <1>8, <1>9, <1>10, <1>11

\* A part of what a command comes to.
PartOf(sofar, c) ==
  /\ sofar = Parsed(c, sofar.head, sofar.data, sofar.ops)
  /\ Begins(sofar.head, Meant(c).head) /\ Begins(sofar.ops, Meant(c).ops)
  /\ sofar.data \in {<<>>, Meant(c).data}

\* All of it.
LEMMA MeantForms ==
  ASSUME NEW c, GoodCommand(c)
  PROVE  /\ ~c.odd => Meant(c) = Parsed(c, AllHeads(c), c.data, Kept(c.ops)[Len(c.ops)])
         /\ c.odd => Meant(c) = Parsed(c, c.head, <<>>, <<>>)
         /\ c.type # "commit" =>
              ~c.odd /\ AllHeads(c) = c.head /\ Kept(c.ops)[Len(c.ops)] = <<>> /\ Len(c.after) = 0
<1>1. c.odd \in BOOLEAN /\ Sequence(c.head) /\ Sequence(c.ops)
  BY DEF GoodCommand
<1>2. ~c.odd => Meant(c) = Parsed(c, AllHeads(c), c.data, Kept(c.ops)[Len(c.ops)])
  BY DEF Meant, Parsed, AllHeads
<1>3. c.odd => Meant(c) = Parsed(c, c.head, <<>>, <<>>)
  BY DEF Meant, Parsed
<1>4. CASE c.type # "commit"
  <2>1. ~c.odd /\ c.after = <<>> /\ c.ops = <<>>
    BY <1>4 DEF GoodCommand
  <2>2. Len(c.after) = 0 /\ Len(c.ops) = 0
    BY <2>1, ShortSequences
  <2>3. Kept(c.ops)[0] = <<>>
    BY <1>1, KeptFacts
  <2>4. /\ Sequence(AllHeads(c)) /\ Len(AllHeads(c)) = Len(c.head) + Len(c.after)
        /\ \A k \in 1 .. Len(c.head) : AllHeads(c)[k] = c.head[k]
    BY HeadsFacts
  <2>5. Len(AllHeads(c)) = Len(c.head)
    BY <1>1, <2>2, <2>4 DEF Sequence
  <2>6. AllHeads(c) = c.head
    BY <1>1, <2>4, <2>5, SameSequence
  <2> QED
    BY <1>2, <1>3, <2>1, <2>2, <2>3, <2>6
<1> QED
  BY <1>2, <1>3, <1>4

-----------------------------------------------------------------------------
(* What follows a point of a command, and where that leads.                *)

NextHeader(writer, c, x, sofar) ==
  /\ HeaderOf(c.type, Lines(writer, c)[x + 1])
  /\ c.type \in Many \/ sofar.head = <<>>
  /\ InBody(writer, c, x + 1, [sofar EXCEPT !.head = Append(@, Lines(writer, c)[x + 1])])

NextData(writer, c, x, sofar) ==
  LET L == Lines(writer, c)
      n == Len(c.data)
      filled == [sofar EXCEPT !.data = c.data]
  IN  /\ c.type # "reset" /\ ~c.odd
      /\ L[x + 1] = Line("data", n)
      /\ \A q \in 1 .. n : L[x + 1 + q] = c.data[q]
      /\ x + n + 2 <= Len(L)
      /\ c.type \in Many =>
           /\ InBody(writer, c, x + n + 1, filled)
           /\ L[x + n + 2] = Blank => InBody(writer, c, x + n + 2, filled)
      /\ c.type = "blob" => filled = Meant(c) /\ x + n + 2 = Len(L)

NextOp(writer, c, x, sofar) ==
  \E op :
    LET L == Lines(writer, c)
        n == Len(op.data)
        more == [sofar EXCEPT !.ops = Append(@, op)]
    IN  /\ c.type = "commit" /\ GoodOp(op)
        /\ \/ /\ op.k = "D" /\ L[x + 1] = Line("D", QuotePath(writer, op.path))
              /\ InBody(writer, c, x + 1, more)
           \/ /\ op.k = "M"
              /\ L[x + 1] = Line("M", [ref |-> op.ref, mode |-> op.mode,
                                       path |-> QuotePath(writer, op.path)])
              /\ \/ op.mode = "gitlink" /\ InBody(writer, c, x + 1, sofar)
                 \/ /\ op.mode # "gitlink" /\ op.ref # "inline"
                    /\ InBody(writer, c, x + 1, more)
                 \/ /\ op.mode # "gitlink" /\ op.ref = "inline"
                    /\ x + n + 3 <= Len(L)
                    /\ L[x + 2] = Line("data", n)
                    /\ \A q \in 1 .. n : L[x + 2 + q] = op.data[q]
                    /\ PartOf(more, c)
                    /\ InBody(writer, c, x + n + 2, more) /\ InBody(writer, c, x + n + 3, more)

NextBlank(writer, c, x, sofar) ==
  /\ Lines(writer, c)[x + 1] = Blank /\ c.type # "blob"
  /\ c.type \in Many => InBody(writer, c, x + 1, sofar)
  /\ c.type = "reset" => sofar = Meant(c) /\ x + 1 = Len(Lines(writer, c))

NextOdd(writer, c, x, sofar) ==
  /\ c.odd /\ c.type = "commit" /\ Lines(writer, c)[x + 1] = Text
  /\ sofar = Meant(c) /\ x = Len(c.head) + 1

BodyStep(writer, c, x, sofar) ==
  /\ x \in 1 .. Len(Lines(writer, c)) /\ PartOf(sofar, c)
  /\ x = Len(Lines(writer, c)) => EndsOpen(writer, c) /\ sofar = Meant(c)
  /\ x < Len(Lines(writer, c)) =>
       \/ NextHeader(writer, c, x, sofar) \/ NextData(writer, c, x, sofar)
       \/ NextOp(writer, c, x, sofar) \/ NextBlank(writer, c, x, sofar)
       \/ NextOdd(writer, c, x, sofar)

\* The headers before the data.
HeadSpot(writer, c, x, sofar) ==
  \E k \in 0 .. Len(c.head) : x = 1 + k /\ sofar = Parsed(c, Heads(c, k), <<>>, <<>>)

AfterSpot(writer, c, x, sofar) ==
  /\ c.type \in Many /\ ~c.odd
  /\ \E k \in 0 .. Len(c.after) :
       /\ x = AfterFrom(writer, c) + k
       /\ sofar = Parsed(c, Heads(c, Len(c.head) + k), c.data, <<>>)

OpsSpot(writer, c, x, sofar) ==
  /\ c.type = "commit" /\ ~c.odd
  /\ \E j \in 0 .. Len(c.ops) :
       /\ x = OpsFrom(writer, c) + OpsPast(writer, c.ops)[j]
       /\ sofar = Parsed(c, AllHeads(c), c.data, Kept(c.ops)[j])

EndSpot(writer, c, x, sofar) ==
  /\ c.type = "commit" /\ ~c.odd
  /\ x = Len(Lines(writer, c)) /\ sofar = Meant(c)

\* The kinds of spots.
LEMMA SpotKinds ==
  ASSUME NEW writer, NEW c, NEW x, NEW sofar
  PROVE  Spot(writer, c, x, sofar) <=>
           \/ HeadSpot(writer, c, x, sofar) \/ AfterSpot(writer, c, x, sofar)
           \/ OpsSpot(writer, c, x, sofar) \/ EndSpot(writer, c, x, sofar)
BY DEF Spot, HeadSpot, AfterSpot, OpsSpot, EndSpot

\* L is the lines of c.
Laid(writer, c, L) ==
  /\ Sequence(L) /\ L[1] = Line(c.type, c.of)
  /\ ~Bare(writer, c) => L[Len(L)] = Blank /\ Len(L) >= Len(c.head) + 2
  /\ Bare(writer, c) => Len(L) = 1
  /\ \A k \in 1 .. Len(c.head) : L[1 + k] = c.head[k]
  /\ c.type = "reset" /\ ~Bare(writer, c) => Len(L) = Len(c.head) + 2
  /\ c.odd => L[Len(c.head) + 2] = Text
  /\ c.type # "reset" /\ ~c.odd =>
       /\ L[Len(c.head) + 2] = Line("data", Len(c.data))
       /\ \A q \in 1 .. Len(c.data) : L[Len(c.head) + 2 + q] = c.data[q]
       /\ Pad(writer, c) = 1 => L[Len(c.head) + Len(c.data) + 3] = Blank
       /\ Len(L) >= AfterFrom(writer, c) + Len(c.after) + 1 - Pad(writer, c)
  /\ c.type \in {"blob", "tag"} => Len(L) = AfterFrom(writer, c) /\ Pad(writer, c) = 1
  /\ c.type = "commit" /\ ~c.odd =>
       /\ Len(L) = OpsFrom(writer, c) + OpsPast(writer, c.ops)[Len(c.ops)] + 1
       /\ \A k \in 1 .. Len(c.after) : L[AfterFrom(writer, c) + k] = c.after[k]
       /\ \A j \in 1 .. Len(c.ops) : \A q \in 1 .. Len(OpLines(writer, c.ops[j])) :
            L[OpsFrom(writer, c) + OpsPast(writer, c.ops)[j - 1] + q]
              = OpLines(writer, c.ops[j])[q]

\* Where the file changes begin.
LEMMA OpsPastFacts ==
  ASSUME NEW writer, NEW c, GoodCommand(c)
  PROVE  /\ OpsPast(writer, c.ops) \in [0 .. Len(c.ops) -> Nat]
         /\ OpsPast(writer, c.ops)[0] = 0
         /\ \A j \in 1 .. Len(c.ops) :
              OpsPast(writer, c.ops)[j] = OpsPast(writer, c.ops)[j - 1] + Len(OpLines(writer, c.ops[j]))
<1>1. Sequence(c.ops) /\ \A j \in 1 .. Len(c.ops) : GoodOp(c.ops[j])
  BY SequenceSet DEF GoodCommand
<1>2. OpsLaid(writer, c.ops, FlattenSeq([j \in DOMAIN c.ops |-> OpLines(writer, c.ops[j])]))
  BY <1>1, OpsText
<1> QED
  BY <1>2 DEF OpsLaid

\* The lines of a command are laid out like that.
LEMMA CommandText ==
  ASSUME NEW writer, NEW c, GoodCommand(c)
  PROVE  Laid(writer, c, Lines(writer, c))
<1>1. PICK L : L = Lines(writer, c)
  OBVIOUS
<1>2. /\ Sequence(c.head) /\ Sequence(c.data) /\ Sequence(c.after) /\ Sequence(c.ops)
      /\ c.odd \in BOOLEAN /\ c.type \in Types /\ (c.type # "commit" => ~c.odd /\ c.after = <<>>)
  BY DEF GoodCommand
<1>3. PICK h \in Nat : h = Len(c.head)
  BY <1>2 DEF Sequence
<1>4. PICK n \in Nat : n = Len(c.data)
  BY <1>2 DEF Sequence
<1>5. PICK r \in Nat : r = Len(c.after)
  BY <1>2 DEF Sequence
<1>6. PICK z \in Nat : z = Len(c.ops)
  BY <1>2 DEF Sequence
<1>7. CASE c.type = "commit"
  <2>1. CommitLaid(writer, c, L)
    BY <1>1, <1>7, CommitText
  <2>2. PICK p \in Nat : p = OpsPast(writer, c.ops)[z]
    <3>1. OpsPast(writer, c.ops) \in [0 .. Len(c.ops) -> Nat]
      BY OpsPastFacts
    <3> QED
      BY <1>6, <3>1
  <2>3. PICK w \in {0, 1} : w = Pad(writer, c)
    BY DEF Pad
  <2>4. /\ AfterFrom(writer, c) = h + 2 + n + w
        /\ OpsFrom(writer, c) = AfterFrom(writer, c) + r
    BY <1>3, <1>4, <1>5, <2>3 DEF AfterFrom, OpsFrom
  <2>5. PICK N \in Nat : N = Len(L)
    BY <2>1 DEF CommitLaid, Sequence
  <2>6. N >= h + 3
    BY <1>3, <2>1, <2>5 DEF CommitLaid
  <2>7. N >= h + 2
    BY <2>6
  <2>8. ASSUME ~c.odd
        PROVE  /\ L[h + 2] = Line("data", Len(c.data))
               /\ \A q \in 1 .. n : L[h + 2 + q] = c.data[q]
               /\ w = 1 => L[h + n + 3] = Blank
               /\ N >= AfterFrom(writer, c) + r + 1 - w
    <3>1. N = OpsFrom(writer, c) + p + 1
      BY <1>6, <2>1, <2>2, <2>5, <2>8 DEF CommitLaid
    <3>2. N >= AfterFrom(writer, c) + r + 1 - w
      BY <2>4, <3>1
    <3>3. h + 2 + n + 1 = h + n + 3
      OBVIOUS
    <3>4. w = 1 => writer # "git"
      BY <1>7, <2>3 DEF Pad
    <3> QED
      BY <1>3, <1>4, <2>1, <2>8, <3>2, <3>3, <3>4 DEF CommitLaid
  <2>9. c.type # "reset" /\ c.type \notin {"blob", "tag"} /\ ~Bare(writer, c)
    BY <1>7 DEF Bare
  <2> QED
    BY <1>1, <1>2, <1>3, <1>4, <1>5, <1>7, <2>1, <2>3, <2>5, <2>7, <2>8, <2>9 DEF CommitLaid, Laid
<1>8. CASE c.type # "commit"
  <2>1. PlainLaid(writer, c, L)
    BY <1>1, <1>8, PlainText
  <2>2. r = 0 /\ ~c.odd
    BY <1>2, <1>5, <1>8, ShortSequences
  <2>3. Pad(writer, c) = 1 /\ AfterFrom(writer, c) = h + n + 3
    <3>1. Pad(writer, c) = 1
      BY <1>8 DEF Pad
    <3>2. AfterFrom(writer, c) = h + 2 + n + 1
      BY <1>3, <1>4, <3>1 DEF AfterFrom
    <3> QED
      BY <3>1, <3>2
  <2>4. CASE c.type = "reset"
    <3>1. ~Bare(writer, c) => Len(L) >= h + 2
      BY <1>3, <2>1, <2>4 DEF PlainLaid
    <3> QED
      BY <1>1, <1>3, <2>1, <2>2, <2>4, <3>1 DEF PlainLaid, Laid
  <2>5. CASE c.type # "reset"
    <3>1. Len(L) = h + n + 3
      BY <1>3, <1>4, <2>1, <2>5 DEF PlainLaid
    <3>2. Len(L) >= h + 2 /\ Len(L) >= AfterFrom(writer, c) + r + 1 - Pad(writer, c)
      BY <2>2, <2>3, <3>1
    <3>3. L[h + n + 3] = Blank /\ ~Bare(writer, c)
      BY <2>1, <2>5, <3>1 DEF PlainLaid, Bare
    <3> QED
      BY <1>1, <1>3, <1>4, <1>5, <1>8, <2>1, <2>2, <2>3, <2>5, <3>1, <3>2, <3>3
      DEF PlainLaid, Laid
  <2> QED
    BY <2>4, <2>5
<1> QED
  BY <1>7, <1>8

\* What is parsed is a part of what is meant, at every spot.
LEMMA SpotPart ==
  ASSUME NEW writer, NEW c, GoodCommand(c), NEW x, NEW sofar, Spot(writer, c, x, sofar)
  PROVE  PartOf(sofar, c)
<1>1. Sequence(c.head) /\ Sequence(c.after) /\ Sequence(c.ops) /\ c.odd \in BOOLEAN
  BY DEF GoodCommand
<1>2. PICK h \in Nat : h = Len(c.head)
  BY <1>1 DEF Sequence
<1>3. PICK r \in Nat : r = Len(c.after)
  BY <1>1 DEF Sequence
<1>4. PICK z \in Nat : z = Len(c.ops)
  BY <1>1 DEF Sequence
<1>5. /\ Len(AllHeads(c)) = h + r /\ Sequence(AllHeads(c))
      /\ \A k \in 0 .. h + r :
           /\ Sequence(Heads(c, k)) /\ Len(Heads(c, k)) = k
           /\ \A i \in 1 .. k : Heads(c, k)[i] = AllHeads(c)[i]
      /\ Heads(c, h) = c.head
  <2>1. /\ Len(AllHeads(c)) = Len(c.head) + Len(c.after) /\ Sequence(AllHeads(c))
        /\ Heads(c, Len(c.head)) = c.head
    BY HeadsFacts
  <2>2. \A k \in 0 .. Len(AllHeads(c)) :
          /\ Sequence(Heads(c, k)) /\ Len(Heads(c, k)) = k
          /\ \A i \in 1 .. k : Heads(c, k)[i] = AllHeads(c)[i]
    BY HeadsFacts
  <2>3. Len(AllHeads(c)) = h + r
    BY <1>2, <1>3, <2>1
  <2> QED
    BY <1>2, <2>1, <2>2, <2>3
<1>6. \A k \in 0 .. h + r : Begins(Heads(c, k), AllHeads(c))
  BY <1>5 DEF Begins
<1>7. \A k \in 0 .. h : Begins(Heads(c, k), c.head)
  <2>1. h \in 0 .. h + r
    OBVIOUS
  <2>2. ASSUME NEW k \in 0 .. h PROVE Begins(Heads(c, k), c.head)
    <3>1. k \in 0 .. h + r
      OBVIOUS
    <3>2. \A i \in 1 .. k : i \in 1 .. h
      OBVIOUS
    <3>3. \A i \in 1 .. k : Heads(c, k)[i] = c.head[i]
      BY <1>5, <2>1, <3>1, <3>2
    <3> QED
      BY <1>1, <1>2, <1>5, <3>1, <3>3 DEF Begins
  <2> QED
    BY <2>2
<1>8. PICK f : f = Kept(c.ops)
  OBVIOUS
<1>9. /\ \A j \in 0 .. z : Sequence(f[j]) /\ Begins(f[j], f[z])
      /\ f[0] = <<>>
  BY <1>1, <1>4, <1>8, KeptFacts
<1>10. Begins(<<>>, f[z]) /\ Begins(<<>>, <<>>)
  <2>1. Begins(f[0], f[z])
    BY <1>9
  <2> QED
    BY <1>9, <2>1, ShortSequences DEF Begins
<1>11. /\ ~c.odd => Meant(c) = Parsed(c, AllHeads(c), c.data, f[z])
       /\ c.odd => Meant(c) = Parsed(c, c.head, <<>>, <<>>)
  BY <1>4, <1>8, MeantForms
<1>12. /\ ~c.odd => Meant(c).head = AllHeads(c) /\ Meant(c).data = c.data /\ Meant(c).ops = f[z]
       /\ c.odd => Meant(c).head = c.head /\ Meant(c).data = <<>> /\ Meant(c).ops = <<>>
  BY <1>11 DEF Parsed
<1>13. ASSUME NEW a, NEW d, NEW b, sofar = Parsed(c, a, d, b)
       PROVE  sofar.head = a /\ sofar.data = d /\ sofar.ops = b
  BY <1>13 DEF Parsed
<1>14. CASE HeadSpot(writer, c, x, sofar)
  <2>1. PICK k \in 0 .. h : sofar = Parsed(c, Heads(c, k), <<>>, <<>>)
    BY <1>2, <1>14 DEF HeadSpot
  <2>2. sofar.head = Heads(c, k) /\ sofar.data = <<>> /\ sofar.ops = <<>>
    BY <1>13, <2>1
  <2>3. k \in 0 .. h + r
    OBVIOUS
  <2>4. Begins(Heads(c, k), Meant(c).head) /\ Begins(<<>>, Meant(c).ops)
    BY <1>1, <1>6, <1>7, <1>10, <1>12, <2>3
  <2> QED
    BY <2>1, <2>2, <2>4 DEF PartOf
<1>15. CASE AfterSpot(writer, c, x, sofar)
  <2>1. PICK k \in 0 .. r : sofar = Parsed(c, Heads(c, Len(c.head) + k), c.data, <<>>)
    BY <1>3, <1>15 DEF AfterSpot
  <2>2. sofar.head = Heads(c, h + k) /\ sofar.data = c.data /\ sofar.ops = <<>>
    BY <1>2, <1>13, <2>1
  <2>3. h + k \in 0 .. h + r /\ ~c.odd
    BY <1>15 DEF AfterSpot
  <2>4. Begins(Heads(c, h + k), Meant(c).head) /\ Begins(<<>>, Meant(c).ops)
        /\ sofar.data = Meant(c).data
    BY <1>6, <1>10, <1>12, <2>2, <2>3
  <2> QED
    BY <1>2, <2>1, <2>2, <2>4 DEF PartOf
<1>16. CASE OpsSpot(writer, c, x, sofar)
  <2>1. PICK j \in 0 .. z : sofar = Parsed(c, AllHeads(c), c.data, f[j])
    BY <1>4, <1>8, <1>16 DEF OpsSpot
  <2>2. sofar.head = AllHeads(c) /\ sofar.data = c.data /\ sofar.ops = f[j]
    BY <1>13, <2>1
  <2>3. ~c.odd
    BY <1>16 DEF OpsSpot
  <2>4. Begins(AllHeads(c), AllHeads(c))
    BY <1>3, <1>5 DEF Begins
  <2> QED
    BY <1>9, <1>12, <2>1, <2>2, <2>3, <2>4 DEF PartOf
<1>17. CASE EndSpot(writer, c, x, sofar)
  <2>1. sofar = Parsed(c, AllHeads(c), c.data, f[z]) /\ ~c.odd
    BY <1>11, <1>17 DEF EndSpot
  <2>2. sofar.head = AllHeads(c) /\ sofar.data = c.data /\ sofar.ops = f[z]
    BY <1>13, <2>1
  <2>3. Begins(AllHeads(c), AllHeads(c)) /\ Begins(f[z], f[z])
    BY <1>3, <1>4, <1>5, <1>9 DEF Begins
  <2> QED
    BY <1>12, <2>1, <2>2, <2>3 DEF PartOf
<1> QED
  BY <1>14, <1>15, <1>16, <1>17, SpotKinds

\* A line that is none of these says so.
LEMMA OtherLines ==
  /\ \A n : Line("data", n) # Blank /\ Line("data", n) # Text
  /\ Text # Blank /\ \A v : Line("M", v) # Blank /\ Line("D", v) # Blank
  /\ \A type : \A line : HeaderOf(type, line) /\ type \in Types => line # Blank
BY DEF Line, Text, Blank, HeaderOf, Headers, Types

\* Where the parts of a command begin.
LEMMA Places ==
  ASSUME NEW writer, NEW c, GoodCommand(c)
  PROVE  /\ AfterFrom(writer, c) \in Nat /\ OpsFrom(writer, c) \in Nat
         /\ OpsFrom(writer, c) = AfterFrom(writer, c) + Len(c.after)
         /\ Pad(writer, c) \in {0, 1}
         /\ AfterFrom(writer, c) = Len(c.head) + 2 + Len(c.data) + Pad(writer, c)
<1>1. Len(c.head) \in Nat /\ Len(c.data) \in Nat /\ Len(c.after) \in Nat
  BY DEF GoodCommand, Sequence
<1>2. PICK w \in {0, 1} : w = Pad(writer, c)
  BY DEF Pad
<1>3. AfterFrom(writer, c) = Len(c.head) + 2 + Len(c.data) + w
  BY <1>2 DEF AfterFrom
<1>4. AfterFrom(writer, c) \in Nat
  <2>1. \A h, n \in Nat : \A v \in {0, 1} : h + 2 + n + v \in Nat
    OBVIOUS
  <2> QED
    BY <1>1, <1>3, <2>1
<1>5. OpsFrom(writer, c) = AfterFrom(writer, c) + Len(c.after)
  BY DEF OpsFrom
<1>6. OpsFrom(writer, c) \in Nat
  BY <1>1, <1>4, <1>5
<1> QED
  BY <1>2, <1>3, <1>4, <1>5, <1>6

\* Where the file changes begin, the headers have ended.
LEMMA HeadersEnd ==
  ASSUME NEW writer, NEW c, GoodCommand(c), ~c.odd, NEW sofar,
         sofar = Parsed(c, Heads(c, Len(c.head) + Len(c.after)), c.data, <<>>)
  PROVE  /\ sofar = Parsed(c, AllHeads(c), c.data, Kept(c.ops)[0])
         /\ c.type = "commit" => OpsSpot(writer, c, OpsFrom(writer, c), sofar)
<1>1. Sequence(c.head) /\ Sequence(c.data) /\ Sequence(c.after) /\ Sequence(c.ops)
  BY DEF GoodCommand
<1>2. PICK h \in Nat : h = Len(c.head)
  BY <1>1 DEF Sequence
<1>3. PICK n \in Nat : n = Len(c.data)
  BY <1>1 DEF Sequence
<1>4. PICK r \in Nat : r = Len(c.after)
  BY <1>1 DEF Sequence
<1>5. PICK z \in Nat : z = Len(c.ops)
  BY <1>1 DEF Sequence
<1>6. OpsFrom(writer, c) \in Nat
  BY Places
<1>9. Heads(c, h + r) = AllHeads(c)
  <2>1. Len(AllHeads(c)) = h + r
    BY <1>2, <1>4, HeadsFacts
  <2> QED
    BY <2>1, HeadsFacts
<1>10. Kept(c.ops)[0] = <<>>
  BY <1>1, KeptFacts
<1>11. sofar = Parsed(c, AllHeads(c), c.data, Kept(c.ops)[0])
  BY <1>2, <1>4, <1>9, <1>10
<1>12. OpsPast(writer, c.ops)[0] = 0
  BY OpsPastFacts
<1>13. OpsFrom(writer, c) = OpsFrom(writer, c) + OpsPast(writer, c.ops)[0] /\ 0 \in 0 .. Len(c.ops)
  BY <1>5, <1>6, <1>12
<1>14. c.type = "commit" => OpsSpot(writer, c, OpsFrom(writer, c), sofar)
  BY <1>11, <1>13 DEF OpsSpot
<1> QED
  BY <1>11, <1>14

\* The first line of a file change is one.
LEMMA OpAt ==
  ASSUME NEW writer, NEW c, GoodCommand(c), ~c.odd, c.type = "commit",
         NEW j \in 1 .. Len(c.ops), NEW x,
         x = OpsFrom(writer, c) + OpsPast(writer, c.ops)[j - 1]
  PROVE  /\ x \in Nat /\ x + Len(OpLines(writer, c.ops[j])) < Len(Lines(writer, c))
         /\ x + Len(OpLines(writer, c.ops[j])) = OpsFrom(writer, c) + OpsPast(writer, c.ops)[j]
         /\ \A q \in 1 .. Len(OpLines(writer, c.ops[j])) :
              Lines(writer, c)[x + q] = OpLines(writer, c.ops[j])[q]
         /\ GoodOp(c.ops[j]) /\ OpLaid(writer, c.ops[j], OpLines(writer, c.ops[j]))
         /\ Lines(writer, c)[x + 1] # Blank
<1>1. Sequence(c.ops) /\ GoodOp(c.ops[j])
  BY SequenceSet DEF GoodCommand
<1>2. PICK z \in Nat : z = Len(c.ops)
  BY <1>1 DEF Sequence
<1>3. PICK p \in [0 .. z -> Nat] : p = OpsPast(writer, c.ops)
  BY <1>2, OpsPastFacts
<1>4. \A i \in 1 .. z : p[i] = p[i - 1] + Len(OpLines(writer, c.ops[i]))
  BY <1>2, <1>3, OpsPastFacts, ZenonT(60)
<1>5. OpLaid(writer, c.ops[j], OpLines(writer, c.ops[j]))
  BY <1>1, OpText
<1>6. PICK l \in Nat : l = Len(OpLines(writer, c.ops[j])) /\ l >= 1
  BY <1>5 DEF OpLaid, Sequence
<1>7. PICK b \in Nat : b = OpsFrom(writer, c)
  BY Places
<1>8. j \in 1 .. z /\ j - 1 \in 0 .. z /\ j \in 0 .. z
  BY <1>2
<1>9. x \in Nat /\ x + l = b + p[j]
  <2>1. p[j] = p[j - 1] + l
    BY <1>4, <1>6, <1>8
  <2>2. PICK u \in Nat : u = p[j - 1] /\ x = b + u
    BY <1>3, <1>7, <1>8
  <2>3. PICK v : v = p[j]
    OBVIOUS
  <2>4. v = u + l
    BY <2>1, <2>2, <2>3
  <2>5. x \in Nat /\ x + l = b + v
    <3>1. \A a1, a2, a3 \in Nat : a1 + a2 \in Nat /\ (a1 + a2) + a3 = a1 + (a2 + a3)
      OBVIOUS
    <3>2. b \in Nat /\ u \in Nat /\ l \in Nat
      OBVIOUS
    <3>3. b + u \in Nat /\ (b + u) + l = b + (u + l)
      BY <3>1, <3>2, ZenonT(60)
    <3> QED
      BY <2>2, <2>4, <3>3
  <2> QED
    BY <2>3, <2>5
<1>10. p[j] <= p[z]
  <2>1. \A i \in 1 .. z : p[i - 1] <= p[i]
    <3>1. ASSUME NEW i \in 1 .. z PROVE p[i - 1] <= p[i]
      <4>1. GoodOp(c.ops[i])
        BY <1>2, SequenceSet DEF GoodCommand
      <4>2. OpLaid(writer, c.ops[i], OpLines(writer, c.ops[i]))
        BY <4>1, OpText
      <4>3. Len(OpLines(writer, c.ops[i])) \in Nat
        BY <4>2 DEF OpLaid, Sequence
      <4>4. i - 1 \in 0 .. z
        OBVIOUS
      <4>5. p[i - 1] \in Nat
        BY <4>4
      <4> QED
        BY <1>4, <4>3, <4>5
    <3> QED
      BY <3>1
  <2>2. z \in j .. z
    BY <1>8
  <2> QED
    BY <1>8, <2>1, <2>2, SumsGrow
<1>11. PICK L : L = Lines(writer, c)
  OBVIOUS
<1>12. /\ Len(L) = OpsFrom(writer, c) + p[z] + 1
       /\ \A q \in 1 .. l : L[OpsFrom(writer, c) + p[j - 1] + q] = OpLines(writer, c.ops[j])[q]
  <2>1. Laid(writer, c, L)
    BY <1>11, CommandText
  <2> QED
    BY <1>2, <1>3, <1>6, <2>1 DEF Laid
<1>13. x + l < Len(L)
  BY <1>3, <1>7, <1>8, <1>9, <1>10, <1>12, SMTT(60)
<1>14. \A q \in 1 .. l : L[x + q] = OpLines(writer, c.ops[j])[q]
  BY <1>3, <1>12
<1>16. x + l = OpsFrom(writer, c) + OpsPast(writer, c.ops)[j]
  BY <1>3, <1>7, <1>9
<1>17. l = Len(OpLines(writer, c.ops[j]))
  BY <1>6
<1>15. L[x + 1] # Blank
  <2>1. L[x + 1] = OpLines(writer, c.ops[j])[1]
    BY <1>6, <1>14
  <2> QED
    BY <1>5, <2>1, OtherLines, SMTT(60) DEF OpLaid
<1> QED
  BY <1>1, <1>5, <1>9, <1>11, <1>13, <1>14, <1>15, <1>16, <1>17, Zenon

\* The end is after the file changes.
LEMMA OpsEnd ==
  ASSUME NEW writer, NEW c, GoodCommand(c), ~c.odd, c.type = "commit", NEW x, NEW sofar,
         x = OpsFrom(writer, c) + OpsPast(writer, c.ops)[Len(c.ops)],
         sofar = Parsed(c, AllHeads(c), c.data, Kept(c.ops)[Len(c.ops)])
  PROVE  /\ x \in Nat /\ x + 1 = Len(Lines(writer, c)) /\ Lines(writer, c)[x + 1] = Blank
         /\ sofar = Meant(c) /\ EndSpot(writer, c, x + 1, sofar)
<1>1. OpsFrom(writer, c) \in Nat
  BY Places
<1>2. OpsPast(writer, c.ops)[Len(c.ops)] \in Nat
  <2>1. Len(c.ops) \in 0 .. Len(c.ops)
    BY DEF GoodCommand, Sequence
  <2> QED
    BY <2>1, OpsPastFacts
<1>3. x \in Nat
  BY <1>1, <1>2
<1>4. Laid(writer, c, Lines(writer, c))
  BY CommandText
<1>5. Len(Lines(writer, c)) = x + 1 /\ Lines(writer, c)[x + 1] = Blank
  BY <1>4 DEF Laid, Bare
<1>6. sofar = Meant(c)
  BY MeantForms
<1> QED
  BY <1>3, <1>5, <1>6 DEF EndSpot

\* An empty line after a spot changes nothing.
LEMMA BlankAfter ==
  ASSUME NEW writer, NEW c, GoodCommand(c), c.type \in Many, NEW x, NEW sofar,
         Spot(writer, c, x, sofar), x < Len(Lines(writer, c)), Lines(writer, c)[x + 1] = Blank
  PROVE  Spot(writer, c, x + 1, sofar)
<1>1. PICK L : L = Lines(writer, c)
  OBVIOUS
<1>2. Laid(writer, c, L)
  BY <1>1, CommandText
<1>3. /\ Sequence(c.head) /\ Sequence(c.after) /\ Sequence(c.ops) /\ Sequence(c.data)
      /\ \A k \in 1 .. Len(c.head) : HeaderOf(c.type, c.head[k])
      /\ \A k \in 1 .. Len(c.after) : HeaderOf("commit", c.after[k])
      /\ c.type \in Types /\ c.type \in {"commit", "tag"}
  BY SequenceSet DEF GoodCommand, Many
<1>4. PICK h \in Nat : h = Len(c.head)
  BY <1>3 DEF Sequence
<1>5. PICK r \in Nat : r = Len(c.after)
  BY <1>3 DEF Sequence
<1>6. PICK z \in Nat : z = Len(c.ops)
  BY <1>3 DEF Sequence
<1>7. CASE HeadSpot(writer, c, x, sofar)
  <2>1. PICK k \in 0 .. h : x = 1 + k
    BY <1>4, <1>7 DEF HeadSpot
  <2>2. CASE k < h
    <3>1. k + 1 \in 1 .. h /\ x + 1 = 1 + (k + 1)
      BY <2>1, <2>2
    <3>2. L[x + 1] = c.head[k + 1] /\ HeaderOf(c.type, c.head[k + 1])
      BY <1>2, <1>3, <1>4, <3>1, SMTT(60) DEF Laid
    <3> QED
      BY <1>1, <1>3, <3>2, OtherLines
  <2>3. CASE k = h
    <3>1. x + 1 = h + 2
      BY <2>1, <2>3
    <3>2. L[x + 1] = Text \/ L[x + 1] = Line("data", Len(c.data))
      BY <1>2, <1>3, <1>4, <3>1 DEF Laid
    <3> QED
      BY <1>1, <3>2, OtherLines
  <2> QED
    BY <2>1, <2>2, <2>3
<1>8. ASSUME ~c.odd, c.type = "commit", NEW j \in 0 .. z,
             x = OpsFrom(writer, c) + OpsPast(writer, c.ops)[j],
             sofar = Parsed(c, AllHeads(c), c.data, Kept(c.ops)[j])
      PROVE  Spot(writer, c, x + 1, sofar)
  <2>1. CASE j < z
    <3>1. PICK i \in 1 .. Len(c.ops) : j = i - 1
      <4>1. j + 1 \in 1 .. Len(c.ops) /\ j = (j + 1) - 1
        BY <1>6, <2>1
      <4> QED
        BY <4>1
    <3>2. L[x + 1] # Blank
      BY <1>1, <1>8, <3>1, OpAt
    <3> QED
      BY <1>1, <3>2
  <2>2. CASE j = z
    <3>1. EndSpot(writer, c, x + 1, sofar)
      BY <1>6, <1>8, <2>2, OpsEnd
    <3> QED
      BY <3>1, SpotKinds
  <2> QED
    BY <2>1, <2>2
<1>9. CASE AfterSpot(writer, c, x, sofar)
  <2>1. PICK k \in 0 .. r : /\ x = AfterFrom(writer, c) + k
                            /\ sofar = Parsed(c, Heads(c, Len(c.head) + k), c.data, <<>>)
    BY <1>5, <1>9 DEF AfterSpot
  <2>2. ~c.odd
    BY <1>9 DEF AfterSpot
  <2>3. CASE c.type = "tag"
    <3>1. Len(L) = AfterFrom(writer, c)
      BY <1>2, <2>3, SMTT(60) DEF Laid
    <3>2. Len(L) \in Nat
      BY <1>2, Zenon DEF Laid, Sequence
    <3>3. ~(x < Len(L))
      BY <2>1, <3>1, <3>2
    <3> QED
      BY <1>1, <3>3
  <2>4. CASE c.type = "commit" /\ k < r
    <3>1. AfterFrom(writer, c) \in Nat /\ k + 1 \in 1 .. r
      <4>1. AfterFrom(writer, c) \in Nat
        BY Places
      <4> QED
        BY <2>4, <4>1
    <3>2. x + 1 = AfterFrom(writer, c) + (k + 1)
      BY <2>1, <3>1
    <3>3. L[x + 1] = c.after[k + 1] /\ HeaderOf("commit", c.after[k + 1])
      BY <1>2, <1>3, <1>5, <2>2, <2>4, <3>1, <3>2, SMTT(60) DEF Laid
    <3> QED
      BY <1>1, <1>3, <2>4, <3>3, OtherLines
  <2>5. CASE c.type = "commit" /\ k = r
    <3>1. sofar = Parsed(c, Heads(c, Len(c.head) + Len(c.after)), c.data, <<>>)
      BY <1>5, <2>1, <2>5
    <3>2. OpsSpot(writer, c, OpsFrom(writer, c), sofar)
      BY <2>2, <2>5, <3>1, HeadersEnd
    <3>3. x = OpsFrom(writer, c)
      BY <1>5, <2>1, <2>5 DEF OpsFrom
    <3>4. OpsSpot(writer, c, x, sofar)
      BY <3>2, <3>3
    <3> QED
      BY <1>6, <1>8, <3>4 DEF OpsSpot
  <2> QED
    BY <1>3, <2>1, <2>3, <2>4, <2>5
<1>10. CASE OpsSpot(writer, c, x, sofar)
  BY <1>6, <1>8, <1>10 DEF OpsSpot
<1>11. CASE EndSpot(writer, c, x, sofar)
  <2>1. Len(L) \in Nat /\ x = Len(L)
    BY <1>1, <1>2, <1>11 DEF Laid, Sequence, EndSpot
  <2> QED
    BY <1>1, <2>1
<1> QED
  BY <1>7, <1>9, <1>10, <1>11, SpotKinds

\* One part of a command is changed.
LEMMA ParsedChanges ==
  ASSUME NEW c, NEW a, NEW d, NEW b, NEW e
  PROVE  /\ [Parsed(c, a, d, b) EXCEPT !.head = Append(@, e)] = Parsed(c, Append(a, e), d, b)
         /\ [Parsed(c, a, d, b) EXCEPT !.data = e] = Parsed(c, a, e, b)
         /\ [Parsed(c, a, d, b) EXCEPT !.ops = Append(@, e)] = Parsed(c, a, d, Append(b, e))
<1>1. PICK t : t = c.type
  OBVIOUS
<1>2. PICK o : o = c.of
  OBVIOUS
<1>3. PICK p : p = [type |-> t, of |-> o, head |-> a, data |-> d, ops |-> b]
  OBVIOUS
<1>4. p = Parsed(c, a, d, b)
  BY <1>1, <1>2, <1>3 DEF Parsed
<1>5. [p EXCEPT !.head = Append(@, e)]
        = [type |-> t, of |-> o, head |-> Append(a, e), data |-> d, ops |-> b]
  BY <1>3, SMTT(60)
<1>6. [p EXCEPT !.data = e] = [type |-> t, of |-> o, head |-> a, data |-> e, ops |-> b]
  BY <1>3
<1>7. [p EXCEPT !.ops = Append(@, e)]
        = [type |-> t, of |-> o, head |-> a, data |-> d, ops |-> Append(b, e)]
  BY <1>3, SMTT(60)
<1> QED
  BY <1>1, <1>2, <1>4, <1>5, <1>6, <1>7 DEF Parsed

\* At a spot among the headers, the command is at one of its ends.
LEMMA HeadsEnd ==
  ASSUME NEW writer, NEW c, GoodCommand(c), NEW x, NEW sofar, HeadSpot(writer, c, x, sofar)
  PROVE  BodyStep(writer, c, x, sofar)
<1>1. PICK L : L = Lines(writer, c)
  OBVIOUS
<1>2. Laid(writer, c, L)
  BY <1>1, CommandText
<1>3. /\ Sequence(c.head) /\ Sequence(c.data) /\ Sequence(c.after)
      /\ c.odd \in BOOLEAN /\ c.type \in Types /\ (c.type # "commit" => ~c.odd)
      /\ \A k \in 1 .. Len(c.head) : HeaderOf(c.type, c.head[k])
      /\ c.type \notin Many => Len(c.head) <= 1
      /\ c.type = "reset" => c.data = <<>>
  BY SequenceSet DEF GoodCommand
<1>4. PICK h \in Nat : h = Len(c.head)
  BY <1>3 DEF Sequence
<1>5. PICK n \in Nat : n = Len(c.data)
  BY <1>3 DEF Sequence
<1>6. PICK r \in Nat : r = Len(c.after)
  BY <1>3, SMTT(60) DEF Sequence
<1>7. PICK N \in Nat : N = Len(L)
  BY <1>2, Zenon DEF Laid, Sequence
<1>8. PICK k \in 0 .. h : x = 1 + k /\ sofar = Parsed(c, Heads(c, k), <<>>, <<>>)
  BY <1>4 DEF HeadSpot
<1>9. /\ ~Bare(writer, c) => N >= h + 2
      /\ Bare(writer, c) => N = 1 /\ h = 0
  BY <1>2, <1>4, <1>7, ShortSequences DEF Laid, Bare
<1>10. x \in 1 .. N /\ (~Bare(writer, c) => x < N)
  BY <1>8, <1>9
<1>11. PartOf(sofar, c)
  <2>1. Spot(writer, c, x, sofar)
    BY SpotKinds
  <2> QED
    BY <2>1, SpotPart
<1>12. /\ \A i \in 1 .. h : AllHeads(c)[i] = c.head[i]
       /\ \A i \in 0 .. h + r - 1 : Append(Heads(c, i), AllHeads(c)[i + 1]) = Heads(c, i + 1)
       /\ Heads(c, 0) = <<>> /\ Heads(c, h) = c.head
  <2>1. Len(AllHeads(c)) = h + r
    BY <1>4, <1>6, HeadsFacts
  <2>2. \A i \in 1 .. h : AllHeads(c)[i] = c.head[i]
    BY <1>4, HeadsFacts
  <2>3. \A i \in 0 .. h + r - 1 : Append(Heads(c, i), AllHeads(c)[i + 1]) = Heads(c, i + 1)
    <3>1. \A i \in 0 .. Len(AllHeads(c)) - 1 :
            Append(Heads(c, i), AllHeads(c)[i + 1]) = Heads(c, i + 1)
      BY HeadsFacts
    <3> QED
      BY <2>1, <3>1
  <2>4. Heads(c, 0) = <<>> /\ Heads(c, h) = c.head
    BY <1>4, HeadsFacts
  <2> QED
    BY <2>2, <2>3, <2>4
<1>13. CASE k < h
  <2>1. k + 1 \in 1 .. h /\ x + 1 = 1 + (k + 1) /\ k \in 0 .. h + r - 1
    BY <1>8, <1>13
  <2>2. L[x + 1] = c.head[k + 1]
    BY <1>2, <1>4, <2>1 DEF Laid
  <2>3. HeaderOf(c.type, L[x + 1])
    BY <1>3, <1>4, <2>1, <2>2
  <2>4. c.type \in Many \/ sofar.head = <<>>
    <3>1. SUFFICES ASSUME c.type \notin Many PROVE sofar.head = <<>>
      OBVIOUS
    <3>2. k = 0
      BY <1>3, <1>4, <1>13, <3>1
    <3> QED
      BY <1>8, <1>12, <3>2 DEF Parsed
  <2>5. [sofar EXCEPT !.head = Append(@, L[x + 1])] = Parsed(c, Heads(c, k + 1), <<>>, <<>>)
    <3>1. Append(Heads(c, k), L[x + 1]) = Heads(c, k + 1)
      BY <1>12, <2>1, <2>2
    <3>2. PICK line : line = L[x + 1]
      OBVIOUS
    <3>3. [Parsed(c, Heads(c, k), <<>>, <<>>) EXCEPT !.head = Append(@, line)]
            = Parsed(c, Append(Heads(c, k), line), <<>>, <<>>)
      BY ParsedChanges
    <3>4. Append(Heads(c, k), line) = Heads(c, k + 1)
      BY <3>1, <3>2
    <3>5. [sofar EXCEPT !.head = Append(@, line)] = Parsed(c, Heads(c, k + 1), <<>>, <<>>)
      BY <1>8, <3>3, <3>4
    <3> QED
      BY <3>2, <3>5
  <2>6. k + 1 \in 0 .. h
    BY <2>1
  <2>7. HeadSpot(writer, c, x + 1, [sofar EXCEPT !.head = Append(@, L[x + 1])])
    BY <1>4, <2>1, <2>5, <2>6 DEF HeadSpot
  <2>8. InBody(writer, c, x + 1, [sofar EXCEPT !.head = Append(@, L[x + 1])])
    BY <2>7, SpotKinds DEF InBody
  <2>9. NextHeader(writer, c, x, sofar)
    BY <1>1, <2>3, <2>4, <2>8 DEF NextHeader
  <2>10. x < N
    BY <1>8, <1>9, <1>10, <1>13
  <2> QED
    BY <1>1, <1>7, <1>10, <1>11, <2>9, <2>10 DEF BodyStep
<1>14. CASE k = h
  <2>1. x = h + 1 /\ x + 1 = h + 2 /\ sofar = Parsed(c, c.head, <<>>, <<>>)
    BY <1>8, <1>12, <1>14
  <2>2. CASE c.type = "reset"
    <3>1. sofar = Meant(c)
      <4>1. c.data = <<>> /\ ~c.odd /\ c.type # "commit"
        BY <1>3, <2>2
      <4> QED
        BY <2>1, <4>1, MeantForms
    <3>2. CASE Bare(writer, c)
      <4>1. x = N
        BY <1>9, <2>1, <3>2
      <4> QED
        BY <1>1, <1>7, <1>10, <1>11, <3>1, <3>2, <4>1 DEF BodyStep, EndsOpen
    <3>3. CASE ~Bare(writer, c)
      <4>1. N = h + 2 /\ L[N] = Blank
        BY <1>2, <1>4, <1>7, <2>2, <3>3 DEF Laid
      <4>2. c.type # "blob" /\ c.type \notin Many
        BY <2>2 DEF Many
      <4>3. NextBlank(writer, c, x, sofar)
        BY <1>1, <1>7, <2>1, <3>1, <4>1, <4>2 DEF NextBlank
      <4> QED
        BY <1>1, <1>7, <1>10, <1>11, <3>3, <4>3 DEF BodyStep
    <3> QED
      BY <3>2, <3>3
  <2>3. CASE c.odd
    <3>1. L[x + 1] = Text
      BY <1>2, <1>4, <2>1, <2>3 DEF Laid
    <3>2. sofar = Meant(c)
      BY <2>1, <2>3, MeantForms
    <3>3. NextOdd(writer, c, x, sofar)
      BY <1>1, <1>3, <1>4, <2>1, <2>3, <3>1, <3>2 DEF NextOdd
    <3>4. ~Bare(writer, c)
      BY <1>3, <2>3 DEF Bare
    <3> QED
      BY <1>1, <1>7, <1>10, <1>11, <3>3, <3>4 DEF BodyStep
  <2>4. CASE c.type # "reset" /\ ~c.odd
    <3>1. PICK w \in {0, 1} : w = Pad(writer, c)
      BY DEF Pad
    <3>2. AfterFrom(writer, c) = h + 2 + n + w
      BY <1>4, <1>5, <3>1 DEF AfterFrom
    <3>3. /\ L[h + 2] = Line("data", n)
          /\ \A q \in 1 .. n : L[h + 2 + q] = c.data[q]
          /\ w = 1 => L[h + n + 3] = Blank
          /\ N >= AfterFrom(writer, c) + r + 1 - w
      BY <1>2, <1>4, <1>5, <1>6, <1>7, <2>4, <3>1 DEF Laid
    <3>4. x + n + 2 <= N /\ x + n + 1 \in 1 .. N /\ x + n + 1 <= N - 1
      <4>1. PICK a \in Nat : a = AfterFrom(writer, c)
        BY Places
      <4>2. a = h + 2 + n + w /\ N >= a + r + 1 - w
        BY <3>2, <3>3, <4>1
      <4>3. N >= h + n + 3
        BY <4>2
      <4> QED
        BY <2>1, <4>3
    <3>5. PICK filled : filled = [sofar EXCEPT !.data = c.data]
      OBVIOUS
    <3>6. filled = Parsed(c, c.head, c.data, <<>>)
      BY <2>1, <3>5 DEF Parsed
    <3>7. ASSUME c.type \in Many
          PROVE  AfterSpot(writer, c, AfterFrom(writer, c), filled)
      <4>1. 0 \in 0 .. Len(c.after) /\ AfterFrom(writer, c) = AfterFrom(writer, c) + 0
        BY <1>6, <3>2
      <4>2. Heads(c, Len(c.head) + 0) = c.head
        BY <1>4, <1>12
      <4> QED
        BY <2>4, <3>6, <3>7, <4>1, <4>2 DEF AfterSpot
    <3>8. ASSUME c.type \in Many PROVE InBody(writer, c, x + n + 1, filled)
      <4>1. Spot(writer, c, AfterFrom(writer, c), filled)
        BY <3>7, <3>8, SpotKinds
      <4>2. CASE w = 0
        <5>1. x + n + 1 = AfterFrom(writer, c)
          BY <2>1, <3>2, <4>2
        <5> QED
          BY <4>1, <5>1 DEF InBody
      <4>3. CASE w = 1
        <5>1. x + n + 1 + 1 = AfterFrom(writer, c) /\ h + n + 3 = x + n + 1 + 1
          BY <2>1, <3>2, <4>3
        <5>2. L[x + n + 1 + 1] = Blank
          BY <3>3, <4>3, <5>1
        <5>3. x + n + 1 \in 1 .. N - 1
          BY <3>4
        <5> QED
          BY <1>1, <1>7, <4>1, <5>1, <5>2, <5>3 DEF InBody
      <4> QED
        BY <4>2, <4>3
    <3>9. ASSUME c.type \in Many, L[x + n + 2] = Blank
          PROVE  InBody(writer, c, x + n + 2, filled)
      <4>1. CASE w = 1
        <5>1. x + n + 2 = AfterFrom(writer, c)
          BY <2>1, <3>2, <4>1
        <5>2. Spot(writer, c, AfterFrom(writer, c), filled)
          BY <3>7, <3>9, SpotKinds
        <5> QED
          BY <5>1, <5>2 DEF InBody
      <4>2. CASE w = 0
        <5>1. AfterFrom(writer, c) = x + n + 1
          BY <2>1, <3>2, <4>2
        <5>2. AfterSpot(writer, c, x + n + 1, filled)
          BY <3>7, <3>9, <5>1
        <5>3. x + n + 1 + 1 = x + n + 2
          BY <2>1
        <5> QED
          <6>1. Spot(writer, c, x + n + 1, filled)
            BY <5>2, SpotKinds
          <6>2. x + n + 1 < Len(Lines(writer, c)) /\ Lines(writer, c)[x + n + 1 + 1] = Blank
            BY <1>1, <1>7, <3>4, <3>9, <5>3
          <6>3. Spot(writer, c, x + n + 1 + 1, filled)
            BY <3>9, <6>1, <6>2, BlankAfter
          <6> QED
            BY <5>3, <6>3 DEF InBody
      <4> QED
        BY <4>1, <4>2
    <3>10. c.type = "blob" => filled = Meant(c) /\ x + n + 2 = N
      <4>1. SUFFICES ASSUME c.type = "blob" PROVE filled = Meant(c) /\ x + n + 2 = N
        OBVIOUS
      <4>2. N = AfterFrom(writer, c) /\ w = 1
        BY <1>2, <1>7, <3>1, <4>1 DEF Laid
      <4>3. filled = Meant(c)
        <5>1. c.type # "commit"
          BY <4>1
        <5> QED
          BY <2>4, <3>6, <5>1, MeantForms
      <4> QED
        BY <2>1, <3>2, <4>2, <4>3
    <3>11. /\ L[x + 1] = Line("data", n)
           /\ \A q \in 1 .. n : L[x + 1 + q] = c.data[q]
      BY <2>1, <3>3
    <3>12. NextData(writer, c, x, sofar)
      BY <1>1, <1>5, <1>7, <2>4, <3>4, <3>5, <3>8, <3>9, <3>10, <3>11 DEF NextData
    <3>13. ~Bare(writer, c)
      BY <2>4 DEF Bare
    <3> QED
      BY <1>1, <1>7, <1>10, <1>11, <3>12, <3>13 DEF BodyStep
  <2> QED
    BY <1>3, <2>2, <2>3, <2>4
<1> QED
  BY <1>13, <1>14

\* At a spot among the file changes: another one, or the empty line.
LEMMA OpsStep ==
  ASSUME NEW writer, NEW c, GoodCommand(c), NEW x, NEW sofar, OpsSpot(writer, c, x, sofar)
  PROVE  BodyStep(writer, c, x, sofar)
<1>1. PICK L : L = Lines(writer, c)
  OBVIOUS
<1>2. Laid(writer, c, L)
  BY <1>1, CommandText
<1>3. PICK N \in Nat : N = Len(L)
  BY <1>2, Zenon DEF Laid, Sequence
<1>4. c.type = "commit" /\ ~c.odd /\ Sequence(c.ops)
  BY DEF OpsSpot, GoodCommand
<1>5. PICK z \in Nat : z = Len(c.ops)
  BY <1>4 DEF Sequence
<1>6. PICK j \in 0 .. z : /\ x = OpsFrom(writer, c) + OpsPast(writer, c.ops)[j]
                          /\ sofar = Parsed(c, AllHeads(c), c.data, Kept(c.ops)[j])
  BY <1>5 DEF OpsSpot
<1>7. PartOf(sofar, c)
  <2>1. Spot(writer, c, x, sofar)
    BY SpotKinds
  <2> QED
    BY <2>1, SpotPart
<1>8. c.type \in Many /\ c.type # "blob" /\ c.type # "reset"
  BY <1>4 DEF Many
<1>9. PICK b \in Nat : b = OpsFrom(writer, c) /\ b >= 2
  <2>1. Len(c.head) \in Nat /\ Len(c.data) \in Nat /\ Len(c.after) \in Nat
    BY DEF GoodCommand, Sequence
  <2>2. PICK w \in {0, 1} : w = Pad(writer, c)
    BY DEF Pad
  <2>3. OpsFrom(writer, c) = Len(c.head) + 2 + Len(c.data) + w + Len(c.after)
    BY <2>2 DEF OpsFrom, AfterFrom
  <2>4. \A h, n, r \in Nat : \A v \in {0, 1} : h + 2 + n + v + r \in Nat /\ h + 2 + n + v + r >= 2
    OBVIOUS
  <2> QED
    BY <2>1, <2>3, <2>4
<1>10. PICK u \in Nat : u = OpsPast(writer, c.ops)[j]
  BY <1>5, OpsPastFacts, ZenonT(60)
<1>11. x = b + u
  BY <1>6, <1>9, <1>10
<1>12. CASE j = z
  <2>1. x \in Nat /\ x + 1 = N /\ L[x + 1] = Blank /\ sofar = Meant(c) /\ EndSpot(writer, c, x + 1, sofar)
    BY <1>1, <1>3, <1>4, <1>5, <1>6, <1>12, OpsEnd
  <2>2. InBody(writer, c, x + 1, sofar)
    BY <2>1, SpotKinds DEF InBody
  <2>3. NextBlank(writer, c, x, sofar)
    BY <1>1, <1>8, <2>1, <2>2 DEF NextBlank
  <2>4. x \in 1 .. N /\ x # N
    BY <1>9, <1>11, <2>1
  <2> QED
    BY <1>1, <1>3, <1>7, <2>3, <2>4 DEF BodyStep
<1>13. CASE j < z
  <2>1. PICK i \in 1 .. z : j = i - 1 /\ i = j + 1
    <3>1. j + 1 \in 1 .. z /\ j = (j + 1) - 1
      BY <1>13
    <3> QED
      BY <3>1
  <2>2. PICK op : op = c.ops[i]
    OBVIOUS
  <2>3. PICK F : F = OpLines(writer, op)
    OBVIOUS
  <2>4. /\ x \in Nat /\ x + Len(F) < N
        /\ x + Len(F) = OpsFrom(writer, c) + OpsPast(writer, c.ops)[i]
        /\ \A q \in 1 .. Len(F) : L[x + q] = F[q]
        /\ GoodOp(op) /\ OpLaid(writer, op, F)
    <3>1. i \in 1 .. Len(c.ops) /\ x = OpsFrom(writer, c) + OpsPast(writer, c.ops)[i - 1]
      BY <1>5, <1>6, <2>1
    <3>2. /\ x \in Nat /\ x + Len(OpLines(writer, c.ops[i])) < Len(Lines(writer, c))
          /\ x + Len(OpLines(writer, c.ops[i])) = OpsFrom(writer, c) + OpsPast(writer, c.ops)[i]
          /\ \A q \in 1 .. Len(OpLines(writer, c.ops[i])) :
               Lines(writer, c)[x + q] = OpLines(writer, c.ops[i])[q]
          /\ GoodOp(c.ops[i]) /\ OpLaid(writer, c.ops[i], OpLines(writer, c.ops[i]))
      <4>1. x \in Nat /\ x + Len(OpLines(writer, c.ops[i])) < Len(Lines(writer, c))
        BY <1>4, <3>1, OpAt
      <4>2. x + Len(OpLines(writer, c.ops[i])) = OpsFrom(writer, c) + OpsPast(writer, c.ops)[i]
        BY <1>4, <3>1, OpAt
      <4>3. \A q \in 1 .. Len(OpLines(writer, c.ops[i])) :
               Lines(writer, c)[x + q] = OpLines(writer, c.ops[i])[q]
        BY <1>4, <3>1, OpAt, SMTT(60)
      <4>4. GoodOp(c.ops[i]) /\ OpLaid(writer, c.ops[i], OpLines(writer, c.ops[i]))
        BY <1>4, <3>1, OpAt
      <4> QED
        BY <4>1, <4>2, <4>3, <4>4
    <3> QED
      BY <1>1, <1>3, <2>2, <2>3, <3>2
  <2>5. PICK l \in Nat : l = Len(F) /\ l >= 1
    BY <2>4, Zenon DEF OpLaid, Sequence
  <2>6. x \in 1 .. N /\ x < N
    BY <1>9, <1>11, <2>4, <2>5, SMTT(60)
  <2>7. L[x + 1] = F[1]
    BY <2>4, <2>5
  <2>8. Kept(c.ops)[i] = IF op.k = "M" => op.mode # "gitlink"
                         THEN Append(Kept(c.ops)[j], op) ELSE Kept(c.ops)[j]
    BY <1>4, <1>5, <2>1, <2>2, KeptFacts
  <2>9. PICK more : more = [sofar EXCEPT !.ops = Append(@, op)]
    OBVIOUS
  <2>10. more = Parsed(c, AllHeads(c), c.data, Append(Kept(c.ops)[j], op))
    <3>1. [Parsed(c, AllHeads(c), c.data, Kept(c.ops)[j]) EXCEPT !.ops = Append(@, op)]
            = Parsed(c, AllHeads(c), c.data, Append(Kept(c.ops)[j], op))
      BY ParsedChanges, SMTT(60)
    <3> QED
      BY <1>6, <2>9, <3>1
  <2>11. PICK then : then = Parsed(c, AllHeads(c), c.data, Kept(c.ops)[i])
    OBVIOUS
  <2>12. /\ (op.k = "M" => op.mode # "gitlink") => then = more
         /\ ~(op.k = "M" => op.mode # "gitlink") => then = sofar
    BY <1>6, <2>8, <2>10, <2>11
  <2>13. Spot(writer, c, x + l, then)
    <3>1. i \in 0 .. Len(c.ops)
      BY <1>5
    <3>2. OpsSpot(writer, c, x + l, then)
      BY <1>4, <2>4, <2>5, <2>11, <3>1 DEF OpsSpot
    <3> QED
      BY <3>2, SpotKinds
  <2>14. InBody(writer, c, x + l, then)
    BY <2>13 DEF InBody
  <2>15. NextOp(writer, c, x, sofar)
    <3>1. CASE op.k = "D"
      <4>1. l = 1 /\ F[1] = Line("D", QuotePath(writer, op.path))
        BY <2>4, <2>5, <3>1 DEF OpLaid
      <4>2. then = more
        BY <2>12, <3>1
      <4>3. InBody(writer, c, x + 1, more)
        BY <2>14, <4>1, <4>2
      <4> QED
        BY <1>1, <1>4, <2>4, <2>7, <2>9, <3>1, <4>1, <4>3 DEF NextOp
    <3>2. CASE op.k = "M" /\ op.mode = "gitlink"
      <4>1. l = 1 /\ F[1] = Line("M", [ref |-> op.ref, mode |-> op.mode,
                                       path |-> QuotePath(writer, op.path)])
        BY <2>4, <2>5, <3>2, SMTT(60) DEF OpLaid, GoodOp, Delete
      <4>2. then = sofar
        BY <2>12, <3>2
      <4>3. InBody(writer, c, x + 1, sofar)
        BY <2>14, <4>1, <4>2
      <4> QED
        BY <1>1, <1>4, <2>4, <2>7, <3>2, <4>1, <4>3 DEF NextOp
    <3>3. CASE op.k = "M" /\ op.mode # "gitlink" /\ op.ref # "inline"
      <4>1. l = 1 /\ F[1] = Line("M", [ref |-> op.ref, mode |-> op.mode,
                                       path |-> QuotePath(writer, op.path)])
        BY <2>4, <2>5, <3>3 DEF OpLaid
      <4>2. then = more
        BY <2>12, <3>3
      <4>3. InBody(writer, c, x + 1, more)
        BY <2>14, <4>1, <4>2
      <4> QED
        BY <1>1, <1>4, <2>4, <2>7, <2>9, <3>3, <4>1, <4>3 DEF NextOp
    <3>4. CASE op.k = "M" /\ op.mode # "gitlink" /\ op.ref = "inline"
      <4>1. F[1] = Line("M", [ref |-> op.ref, mode |-> op.mode,
                              path |-> QuotePath(writer, op.path)])
        BY <2>4, <3>4 DEF OpLaid
      <4>2. PICK n \in Nat : n = Len(op.data)
        <5>1. op # Delete(op.path)
          BY <3>4 DEF Delete
        <5>2. Sequence(op.data)
          BY <2>4, <5>1 DEF GoodOp
        <5> QED
          BY <5>2 DEF Sequence
      <4>3. /\ l = n + 3 /\ F[2] = Line("data", n) /\ F[n + 3] = Blank
            /\ \A q \in 1 .. n : F[2 + q] = op.data[q]
        BY <2>4, <2>5, <3>4, <4>2 DEF OpLaid
      <4>4. then = more
        BY <2>12, <3>4
      <4>5. PartOf(more, c)
        BY <2>13, <4>4, SpotPart
      <4>6. x + n + 3 = x + l /\ x + n + 3 <= N /\ x + n + 2 \in 1 .. N - 1 /\ x + n + 2 + 1 = x + n + 3
        BY <2>4, <2>5, <2>6, <4>3
      <4>7. L[x + 2] = F[2] /\ L[x + n + 3] = F[n + 3]
            /\ \A q \in 1 .. n : L[x + 2 + q] = F[2 + q]
        <5>1. 2 \in 1 .. l /\ n + 3 \in 1 .. l /\ x + (n + 3) = x + n + 3
          BY <2>4, <4>3
        <5>2. \A q \in 1 .. n : 2 + q \in 1 .. l /\ x + (2 + q) = x + 2 + q
          BY <2>4, <4>3
        <5> QED
          BY <2>4, <2>5, <5>1, <5>2
      <4>8. InBody(writer, c, x + n + 3, more)
        BY <2>14, <4>4, <4>6
      <4>9. InBody(writer, c, x + n + 2, more)
        <5>1. Spot(writer, c, x + n + 2 + 1, more)
          BY <2>13, <4>4, <4>6
        <5>2. L[x + n + 2 + 1] = Blank
          BY <4>3, <4>6, <4>7
        <5> QED
          BY <1>1, <1>3, <4>6, <5>1, <5>2 DEF InBody
      <4>10. /\ L[x + 1] = Line("M", [ref |-> op.ref, mode |-> op.mode,
                                      path |-> QuotePath(writer, op.path)])
             /\ L[x + 2] = Line("data", n)
             /\ \A q \in 1 .. n : L[x + 2 + q] = op.data[q]
        BY <2>7, <4>1, <4>3, <4>7
      <4> QED
        BY <1>1, <1>3, <1>4, <2>4, <2>9, <3>4, <4>2, <4>5, <4>6, <4>8, <4>9, <4>10 DEF NextOp
    <3> QED
      BY <2>4, <3>1, <3>2, <3>3, <3>4 DEF OpLaid
  <2> QED
    BY <1>1, <1>3, <1>7, <2>6, <2>15 DEF BodyStep
<1> QED
  BY <1>6, <1>12, <1>13, SMTT(60)

\* At a spot after the data: another header, or the file changes.
LEMMA AfterStep ==
  ASSUME NEW writer, NEW c, GoodCommand(c), NEW x, NEW sofar, AfterSpot(writer, c, x, sofar)
  PROVE  BodyStep(writer, c, x, sofar)
<1>1. PICK L : L = Lines(writer, c)
  OBVIOUS
<1>2. Laid(writer, c, L)
  BY <1>1, CommandText
<1>3. PICK N \in Nat : N = Len(L)
  BY <1>2 DEF Laid, Sequence
<1>4. /\ c.type \in {"commit", "tag"} /\ c.type \in Many /\ ~c.odd /\ Sequence(c.after) /\ Sequence(c.head)
      /\ \A k \in 1 .. Len(c.after) : HeaderOf("commit", c.after[k])
      /\ c.type # "commit" => c.after = <<>>
  BY SequenceSet DEF AfterSpot, GoodCommand, Many
<1>5. PICK r \in Nat : r = Len(c.after)
  BY <1>4 DEF Sequence
<1>6. PICK h \in Nat : h = Len(c.head)
  BY <1>4 DEF Sequence
<1>7. PICK k \in 0 .. r : /\ x = AfterFrom(writer, c) + k
                          /\ sofar = Parsed(c, Heads(c, h + k), c.data, <<>>)
  BY <1>5, <1>6 DEF AfterSpot
<1>8. PartOf(sofar, c)
  <2>1. Spot(writer, c, x, sofar)
    BY SpotKinds
  <2> QED
    BY <2>1, SpotPart
<1>9. PICK a \in Nat : a = AfterFrom(writer, c)
  BY Places
<1>10. CASE k = r
  <2>1. sofar = Parsed(c, Heads(c, Len(c.head) + Len(c.after)), c.data, <<>>)
    BY <1>5, <1>6, <1>7, <1>10
  <2>2. x = OpsFrom(writer, c)
    BY <1>5, <1>7, <1>10 DEF OpsFrom
  <2>3. CASE c.type = "commit"
    <3>1. OpsSpot(writer, c, x, sofar)
      BY <1>4, <2>1, <2>2, <2>3, HeadersEnd
    <3> QED
      BY <3>1, OpsStep
  <2>4. CASE c.type = "tag"
    <3>1. N = a
      BY <1>2, <1>3, <1>9, <2>4 DEF Laid
    <3>2. r = 0
      BY <1>4, <1>5, <2>4, ShortSequences
    <3>3. x = N
      BY <1>7, <1>9, <1>10, <3>1, <3>2
    <3>4. sofar = Meant(c)
      <4>1. sofar = Parsed(c, AllHeads(c), c.data, Kept(c.ops)[0])
        BY <1>4, <2>1, HeadersEnd
      <4>2. Kept(c.ops)[Len(c.ops)] = <<>>
        BY <2>4, MeantForms
      <4>3. Kept(c.ops)[0] = <<>>
        BY KeptFacts DEF GoodCommand
      <4> QED
        BY <1>4, <4>1, <4>2, <4>3, MeantForms
    <3>5. N >= 1
      BY <1>2, <1>3, <1>6 DEF Laid
    <3>6. x \in 1 .. N /\ ~(x < N)
      BY <3>3, <3>5
    <3> QED
      BY <1>1, <1>3, <1>4, <1>8, <3>3, <3>4, <3>6 DEF BodyStep, EndsOpen
  <2> QED
    BY <1>4, <2>3, <2>4
<1>11. CASE k < r
  <2>1. c.type = "commit"
    <3>1. r # 0
      BY <1>11
    <3> QED
      BY <1>4, <1>5, <3>1, ShortSequences
  <2>2. k + 1 \in 1 .. r /\ x + 1 = a + (k + 1) /\ h + k + 1 = h + (k + 1)
    BY <1>7, <1>9, <1>11
  <2>3. L[x + 1] = c.after[k + 1]
    <3>1. \A i \in 1 .. r : L[a + i] = c.after[i]
      BY <1>2, <1>4, <1>5, <1>9, <2>1 DEF Laid
    <3>2. L[a + (k + 1)] = c.after[k + 1]
      BY <2>2, <3>1
    <3> QED
      BY <2>2, <3>2
  <2>4. HeaderOf(c.type, L[x + 1])
    BY <1>4, <1>5, <2>1, <2>2, <2>3
  <2>5. Append(Heads(c, h + k), L[x + 1]) = Heads(c, h + (k + 1))
    <3>1. Len(AllHeads(c)) = h + r
      BY <1>5, <1>6, HeadsFacts
    <3>2. h + k \in 0 .. h + r - 1
      BY <1>11
    <3>3. h + k \in 0 .. Len(AllHeads(c)) - 1
      BY <3>1, <3>2
    <3>4. Append(Heads(c, h + k), AllHeads(c)[h + k + 1]) = Heads(c, h + k + 1)
      BY <3>3, HeadsFacts
    <3>5. AllHeads(c)[h + (k + 1)] = c.after[k + 1]
      BY <1>5, <1>6, <2>2, HeadsFacts
    <3> QED
      BY <2>2, <2>3, <3>4, <3>5
  <2>6. PICK line : line = L[x + 1]
    OBVIOUS
  <2>7. [sofar EXCEPT !.head = Append(@, line)] = Parsed(c, Heads(c, h + (k + 1)), c.data, <<>>)
    <3>1. [Parsed(c, Heads(c, h + k), c.data, <<>>) EXCEPT !.head = Append(@, line)]
            = Parsed(c, Append(Heads(c, h + k), line), c.data, <<>>)
      BY ParsedChanges
    <3> QED
      BY <1>7, <2>5, <2>6, <3>1
  <2>8. AfterSpot(writer, c, x + 1, [sofar EXCEPT !.head = Append(@, line)])
    <3>1. k + 1 \in 0 .. Len(c.after)
      BY <1>5, <2>2
    <3> QED
      BY <1>4, <1>6, <1>9, <2>2, <2>7, <3>1 DEF AfterSpot
  <2>9. InBody(writer, c, x + 1, [sofar EXCEPT !.head = Append(@, line)])
    BY <2>8, SpotKinds DEF InBody
  <2>10. NextHeader(writer, c, x, sofar)
    BY <1>1, <1>4, <2>4, <2>6, <2>9 DEF NextHeader
  <2>11. x \in 1 .. N /\ x < N
    <3>1. N >= a + r + 1 - Pad(writer, c) /\ Pad(writer, c) \in {0, 1}
      BY <1>2, <1>3, <1>4, <1>5, <1>9, Places DEF Laid
    <3>2. a >= 2
      <4>1. Len(c.data) \in Nat
        BY DEF GoodCommand, Sequence
      <4>2. PICK w \in {0, 1} : w = Pad(writer, c)
        BY DEF Pad
      <4>3. a = h + 2 + Len(c.data) + w
        BY <1>6, <1>9, <4>2 DEF AfterFrom
      <4>4. \A h1, n1 \in Nat : \A v \in {0, 1} : h1 + 2 + n1 + v >= 2
        OBVIOUS
      <4> QED
        BY <1>6, <4>1, <4>3, <4>4
    <3> QED
      BY <1>7, <1>9, <1>11, <3>1, <3>2, SMTT(60)
  <2> QED
    BY <1>1, <1>3, <1>8, <2>10, <2>11 DEF BodyStep
<1> QED
  BY <1>7, <1>10, <1>11

\* Wherever a command has got to, one of its lines comes next, or its end.
LEMMA BodyUnits ==
  ASSUME NEW writer, NEW c, GoodCommand(c), NEW x, NEW sofar, InBody(writer, c, x, sofar)
  PROVE  BodyStep(writer, c, x, sofar)
<1>1. PICK L : L = Lines(writer, c)
  OBVIOUS
<1>2. Laid(writer, c, L)
  BY <1>1, CommandText
<1>3. PICK N \in Nat : N = Len(L)
  BY <1>2 DEF Laid, Sequence
<1>4. CASE Spot(writer, c, x, sofar)
  <2>1. CASE EndSpot(writer, c, x, sofar)
    <3>1. x = N /\ sofar = Meant(c) /\ c.type \in Many /\ ~Bare(writer, c)
      BY <1>1, <1>3, <2>1 DEF EndSpot, Many, Bare
    <3>2. N >= 1
      <4>1. Len(c.head) \in Nat
        BY DEF GoodCommand, Sequence
      <4> QED
        BY <1>2, <1>3, <3>1, <4>1 DEF Laid
    <3>3. x \in 1 .. N /\ ~(x < N)
      BY <3>1, <3>2
    <3>4. PartOf(sofar, c)
      BY <1>4, SpotPart
    <3> QED
      BY <1>1, <1>3, <3>1, <3>3, <3>4 DEF BodyStep, EndsOpen
  <2> QED
    BY <1>4, <2>1, SpotKinds, HeadsEnd, AfterStep, OpsStep
<1>5. CASE x \in 1 .. N - 1 /\ L[x + 1] = Blank /\ Spot(writer, c, x + 1, sofar)
  <2>1. PartOf(sofar, c)
    BY <1>5, SpotPart
  <2>2. x \in 1 .. N /\ x < N /\ x + 1 # 1
    BY <1>5
  <2>3. InBody(writer, c, x + 1, sofar)
    BY <1>5 DEF InBody
  <2>4. c.type # "blob" /\ (c.type = "reset" => FALSE)
    <3>1. SUFFICES ASSUME c.type \in {"blob", "reset"} PROVE FALSE
      OBVIOUS
    <3>2. ~AfterSpot(writer, c, x + 1, sofar) /\ ~OpsSpot(writer, c, x + 1, sofar)
          /\ ~EndSpot(writer, c, x + 1, sofar)
      BY <3>1 DEF AfterSpot, OpsSpot, EndSpot, Many
    <3>3. PICK k \in 0 .. Len(c.head) : x + 1 = 1 + k
      BY <1>5, <3>2, SpotKinds DEF HeadSpot
    <3>4. PICK h \in Nat : h = Len(c.head)
      BY DEF GoodCommand, Sequence
    <3>5. x + 1 = 1 + x /\ x = k /\ x \in 1 .. h
      BY <1>5, <3>3, <3>4
    <3>6. L[x + 1] = c.head[x]
      BY <1>2, <3>4, <3>5 DEF Laid
    <3>7. HeaderOf(c.type, c.head[x]) /\ c.type \in Types
      BY <3>4, <3>5, SequenceSet DEF GoodCommand
    <3> QED
      BY <1>5, <3>6, <3>7, OtherLines
  <2>5. NextBlank(writer, c, x, sofar)
    BY <1>1, <1>5, <2>3, <2>4 DEF NextBlank
  <2> QED
    BY <1>1, <1>3, <2>1, <2>2, <2>5 DEF BodyStep
<1> QED
  BY <1>1, <1>3, <1>4, <1>5 DEF InBody

\* The first line of a command begins it; the last one is empty, but of a reset.
LEMMA BodyStart ==
  ASSUME NEW writer, NEW c, GoodCommand(c)
  PROVE  /\ InBody(writer, c, 1, Parsed(c, <<>>, <<>>, <<>>))
         /\ Sequence(Lines(writer, c)) /\ Len(Lines(writer, c)) >= 1
         /\ Lines(writer, c)[1] = Line(c.type, c.of)
         /\ c.type # "reset" => Lines(writer, c)[Len(Lines(writer, c))] = Blank
<1>1. Laid(writer, c, Lines(writer, c))
  BY CommandText
<1>2. PICK h \in Nat : h = Len(c.head)
  BY SMTT(60) DEF GoodCommand, Sequence
<1>3. PICK N \in Nat : N = Len(Lines(writer, c))
  BY <1>1, Zenon DEF Laid, Sequence
<1>4. HeadSpot(writer, c, 1, Parsed(c, <<>>, <<>>, <<>>))
  <2>1. Heads(c, 0) = <<>>
    BY HeadsFacts
  <2>2. 0 \in 0 .. h /\ 1 = 1 + 0
    OBVIOUS
  <2> QED
    BY <1>2, <2>1, <2>2 DEF HeadSpot
<1>5. InBody(writer, c, 1, Parsed(c, <<>>, <<>>, <<>>))
  BY <1>4, SpotKinds DEF InBody
<1>6. N >= 1
  BY <1>1, <1>2, <1>3 DEF Laid
<1>7. c.type # "reset" => ~Bare(writer, c)
  BY DEF Bare
<1> QED
  BY <1>1, <1>3, <1>5, <1>6, <1>7 DEF Laid

-----------------------------------------------------------------------------
(* The text of a session.                                                  *)

\* Where the units of the commands are in the text, and what is around them.
TextLaid(p) ==
  /\ Past(p) \in [0 .. Len(p.commands) -> Nat] /\ Past(p)[0] = 2
  /\ \A i \in 1 .. Len(p.commands) :
       Past(p)[i] = Past(p)[i - 1] + Len(LinesAt(p, i)) /\ Past(p)[i] < Size(p)
  /\ Size(p) \in Nat /\ Size(p) >= 3
  /\ Sequence(ExportText(p)) /\ Len(ExportText(p)) = Size(p)
  /\ Unit(p, 1) = Line("export", None) /\ Unit(p, 2) = Text
  /\ \A i \in 1 .. Len(p.commands) : \A q \in 1 .. Len(LinesAt(p, i)) :
       Unit(p, Past(p)[i - 1] + q) = LinesAt(p, i)[q]
  /\ Unit(p, Size(p)) = Line("done", None)
  /\ Unit(p, Size(p) + 1) = Line("list", None)
  /\ Unit(p, Size(p) + 2) = Blank

\* A command has at least one line.
LEMMA LinesOf ==
  ASSUME NEW p, GoodPlan(p), NEW i \in 1 .. Len(p.commands)
  PROVE  /\ Sequence(LinesAt(p, i)) /\ Len(LinesAt(p, i)) \in Nat /\ Len(LinesAt(p, i)) >= 1
         /\ p.commands[i].type = "noise" \/ GoodCommand(p.commands[i])
         /\ p.commands[i].type = "noise" => LinesAt(p, i) = <<Text>>
         /\ GoodCommand(p.commands[i]) => p.commands[i].type # "noise"
<1>1. p.commands[i].type = "noise" \/ GoodCommand(p.commands[i])
  BY SequenceSet DEF GoodPlan
<1>2. CASE p.commands[i].type = "noise"
  <2>1. LinesAt(p, i) = <<Text>>
    BY <1>2 DEF LinesAt, Lines
  <2>2. ~GoodCommand(p.commands[i])
    BY <1>2 DEF GoodCommand, Types
  <2> QED
    BY <1>2, <2>1, <2>2, ShortSequences
<1>3. CASE GoodCommand(p.commands[i])
  <2>1. /\ Sequence(Lines(p.writer, p.commands[i]))
        /\ Len(Lines(p.writer, p.commands[i])) >= 1
    BY <1>3, BodyStart
  <2>2. PICK n \in Nat : n = Len(Lines(p.writer, p.commands[i])) /\ n >= 1
    BY <2>1 DEF Sequence
  <2>3. p.commands[i].type # "noise"
    BY <1>3 DEF GoodCommand, Types
  <2> QED
    BY <1>3, <2>1, <2>2, <2>3 DEF LinesAt
<1> QED
  BY <1>1, <1>2, <1>3

\* The text is laid out like that.
LEMMA TextFacts ==
  ASSUME NEW p, GoodPlan(p)
  PROVE  TextLaid(p)
<1>1. PICK N \in Nat : N = Len(p.commands) /\ DOMAIN p.commands = 1 .. N
  BY SequenceSet DEF GoodPlan, Sequence
<1>2. PICK s : s = [i \in 1 .. N |-> LinesAt(p, i)]
  OBVIOUS
<1>3. PICK F : F = FlattenSeq(s)
  OBVIOUS
<1>4. F = FlattenSeq([i \in DOMAIN p.commands |-> Lines(p.writer, p.commands[i])])
  BY <1>1, <1>2, <1>3 DEF LinesAt
<1>5. PICK S : S = UNION {{LinesAt(p, i)[q] : q \in 1 .. Len(LinesAt(p, i))} : i \in 1 .. N}
  OBVIOUS
<1>6. ASSUME NEW i \in 1 .. N
      PROVE  s[i] \in Seq(S) /\ s[i] = LinesAt(p, i) /\ Len(s[i]) \in Nat
  <2>1. PICK t : t = LinesAt(p, i)
    OBVIOUS
  <2>2. Sequence(t) /\ Len(t) \in Nat
    BY <1>1, <2>1, LinesOf
  <2>3. t \in Seq({t[q] : q \in 1 .. Len(t)})
    BY <2>2, SequenceSet
  <2>4. {t[q] : q \in 1 .. Len(t)} \subseteq S
    BY <1>5, <2>1
  <2>5. t \in Seq(S)
    BY <2>3, <2>4
  <2> QED
    BY <1>2, <2>1, <2>2, <2>5
<1>7. s \in Seq(Seq(S)) /\ Len(s) = N
  <2> HIDE <1>5
  <2> QED
    BY <1>2, <1>6
<1>8. PICK lens : lens = [i \in 1 .. N |-> Len(s[i])]
  OBVIOUS
<1>9. lens \in Seq(Nat) /\ Len(lens) = N /\ \A i \in 1 .. N : lens[i] = Len(s[i])
  <2>1. \A i \in 1 .. N : Len(s[i]) \in Nat
    BY <1>6
  <2> QED
    BY <1>8, <2>1
<1>10. [i \in 1 .. Len(p.commands) |-> Len(LinesAt(p, i))] = lens
  BY <1>1, <1>6, <1>8
<1>11. PICK off : off = Past(p)
  OBVIOUS
<1>12. off = RunningSum(2, lens)
  BY <1>10, <1>11 DEF Past
<1>13. /\ off \in [0 .. N -> Nat] /\ off[0] = 2
       /\ \A i \in 1 .. N : off[i] = off[i - 1] + lens[i]
  <2>1. AddsUp(off, 2, lens)
    BY <1>9, <1>12, RunningSumFacts
  <2> QED
    BY <1>9, <2>1 DEF AddsUp
<1>14. F \in Seq(S) /\ Joins(F, s, 2, off)
  <2>1. /\ off \in [0 .. Len(s) -> Nat] /\ 2 \in Nat
        /\ \A i \in 1 .. Len(s) : off[i] = off[i - 1] + Len(s[i])
    BY <1>7, <1>9, <1>13
  <2> HIDE <1>2, <1>5, <1>8, <1>11
  <2> QED
    BY <1>3, <1>7, <1>13, <2>1, FlattenFacts
<1>15. Sequence(F)
  BY <1>14, SequenceOf
<1>16. /\ off[N] = 2 + Len(F)
       /\ \A i \in 1 .. N : \A q \in 1 .. Len(s[i]) :
            /\ off[i - 1] - 2 + q \in 1 .. Len(F)
            /\ F[off[i - 1] - 2 + q] = s[i][q]
  BY <1>7, <1>14 DEF Joins
<1>17. PICK f \in Nat : f = Len(F)
  BY <1>15 DEF Sequence
<1>18. PICK T : T = <<Text>>
  OBVIOUS
<1>19. PICK D : D = <<Line("done", None)>>
  OBVIOUS
<1>20. PICK E : E = <<Line("export", None)>>
  OBVIOUS
<1>21. /\ Sequence(T) /\ Len(T) = 1 /\ T[1] = Text
       /\ Sequence(D) /\ Len(D) = 1 /\ D[1] = Line("done", None)
       /\ Sequence(E) /\ Len(E) = 1 /\ E[1] = Line("export", None)
  BY <1>18, <1>19, <1>20, ShortSequences
<1>22. PICK A : A = T \o F
  OBVIOUS
<1>23. PICK B : B = A \o D
  OBVIOUS
<1>24. PICK X : X = E \o B
  OBVIOUS
<1>25. X = ExportText(p)
  BY <1>4, <1>18, <1>19, <1>20, <1>22, <1>23, <1>24 DEF ExportText, StreamOf
<1>26. IsConcat(A, T, F) /\ Sequence(A)
  BY <1>15, <1>21, <1>22, ConcatFacts
<1>27. IsConcat(B, A, D) /\ Sequence(B)
  BY <1>21, <1>23, <1>26, ConcatFacts
<1>28. IsConcat(X, E, B) /\ Sequence(X)
  BY <1>21, <1>24, <1>27, ConcatFacts
<1>29. Len(A) = 1 + f /\ Len(B) = 1 + f + 1 /\ Len(X) = f + 3
  BY <1>17, <1>21, <1>26, <1>27, <1>28 DEF IsConcat
<1>30. Size(p) = f + 3 /\ Size(p) \in Nat /\ Size(p) >= 3
  <2>1. Size(p) = off[N] + 1
    BY <1>1, <1>11 DEF Size
  <2> QED
    BY <1>16, <1>17, <2>1
<1>31. \A j \in 1 .. f + 2 : X[1 + j] = B[j]
  BY <1>21, <1>28, <1>29 DEF IsConcat
<1>32. X[1] = Line("export", None)
  BY <1>21, <1>28 DEF IsConcat
<1>33. X[2] = Text
  <2>1. A[1] = Text
    BY <1>21, <1>26 DEF IsConcat
  <2>2. B[1] = A[1]
    BY <1>27, <1>29 DEF IsConcat
  <2>3. X[1 + 1] = B[1]
    <3>1. 1 \in 1 .. f + 2
      OBVIOUS
    <3> QED
      BY <1>31, <3>1
  <2> QED
    BY <2>1, <2>2, <2>3
<1>34. X[f + 3] = Line("done", None)
  <2>1. B[f + 2] = D[1]
    <3>1. 1 \in 1 .. Len(D) /\ Len(A) + 1 = f + 2
      BY <1>21, <1>29
    <3> QED
      BY <1>27, <3>1 DEF IsConcat
  <2>2. X[1 + (f + 2)] = B[f + 2]
    <3>1. f + 2 \in 1 .. f + 2
      OBVIOUS
    <3> QED
      BY <1>31, <3>1
  <2>3. 1 + (f + 2) = f + 3
    OBVIOUS
  <2> QED
    BY <1>21, <2>1, <2>2, <2>3
<1>35. \A j \in 1 .. f : X[2 + j] = F[j]
  <2>1. ASSUME NEW j \in 1 .. f PROVE X[2 + j] = F[j]
    <3>1. 1 + j \in 1 .. Len(A) /\ 1 + j \in 1 .. f + 2 /\ 1 + (1 + j) = 2 + j
      BY <1>29
    <3>2. X[1 + (1 + j)] = B[1 + j]
      BY <1>31, <3>1
    <3>3. B[1 + j] = A[1 + j]
      BY <1>27, <3>1 DEF IsConcat
    <3>4. A[1 + j] = F[j]
      BY <1>17, <1>21, <1>26 DEF IsConcat
    <3> QED
      BY <3>1, <3>2, <3>3, <3>4
  <2> QED
    BY <2>1
<1>36. \A j \in 1 .. f + 3 : Unit(p, j) = X[j]
  BY <1>25, <1>30 DEF Unit
<1>37. ASSUME NEW i \in 1 .. N, NEW q \in 1 .. Len(LinesAt(p, i))
       PROVE  Unit(p, off[i - 1] + q) = LinesAt(p, i)[q]
  <2>1. s[i] = LinesAt(p, i) /\ Len(s[i]) \in Nat
    BY <1>6
  <2>2. PICK o \in Nat : o = off[i - 1]
    <3>1. i - 1 \in 0 .. N
      OBVIOUS
    <3> QED
      BY <1>13, <3>1
  <2>3. o - 2 + q \in 1 .. f /\ F[o - 2 + q] = s[i][q]
    BY <1>16, <1>17, <2>1, <2>2
  <2>4. X[2 + (o - 2 + q)] = F[o - 2 + q]
    BY <1>35, <2>3
  <2>5. q \in Nat
    BY <2>1
  <2>6. 2 + (o - 2 + q) = o + q /\ o + q \in 1 .. f + 3
    BY <2>3, <2>5
  <2>7. Unit(p, o + q) = X[o + q]
    BY <1>36, <2>6
  <2> QED
    BY <2>1, <2>2, <2>3, <2>4, <2>6, <2>7
<1>38. Unit(p, 1) = X[1] /\ Unit(p, 2) = X[2] /\ Unit(p, f + 3) = X[f + 3]
  <2>1. 1 \in 1 .. f + 3 /\ 2 \in 1 .. f + 3 /\ f + 3 \in 1 .. f + 3
    OBVIOUS
  <2> QED
    BY <1>36, <2>1
<1>39. Unit(p, Size(p) + 1) = Line("list", None) /\ Unit(p, Size(p) + 2) = Blank
  <2>1. ~(Size(p) + 1 <= Size(p)) /\ ~(Size(p) + 2 <= Size(p)) /\ Size(p) + 2 # Size(p) + 1
    BY <1>30
  <2> QED
    BY <2>1 DEF Unit
<1>40. \A i \in 1 .. N : off[i] < Size(p)
  <2>1. \A i \in 1 .. N : off[i - 1] <= off[i]
    <3>1. ASSUME NEW i \in 1 .. N PROVE off[i - 1] <= off[i]
      <4>1. PICK o \in Nat : o = off[i - 1]
        <5>1. i - 1 \in 0 .. N
          OBVIOUS
        <5> QED
          BY <1>13, <5>1
      <4>2. PICK l \in Nat : l = lens[i]
        BY <1>6, <1>9
      <4>3. off[i] = o + l
        BY <1>13, <4>1, <4>2
      <4> QED
        BY <4>1, <4>3
    <3> QED
      BY <3>1
  <2>2. ASSUME NEW i \in 1 .. N PROVE off[i] < Size(p)
    <3>1. i \in 0 .. N /\ N \in i .. N
      OBVIOUS
    <3>2. off[i] <= off[N]
      BY <1>13, <2>1, <3>1, SumsGrow
    <3>3. off[i] \in Nat
      BY <1>13, <3>1
    <3> QED
      BY <1>16, <1>17, <1>30, <3>2, <3>3
  <2> QED
    BY <2>2
<1>41. \A i \in 1 .. N : off[i] = off[i - 1] + Len(LinesAt(p, i))
  BY <1>6, <1>9, <1>13
<1> QED
  BY <1>1, <1>11, <1>13, <1>25, <1>28, <1>29, <1>30, <1>32, <1>33, <1>34, <1>37, <1>38, <1>39,
     <1>40, <1>41 DEF TextLaid

-----------------------------------------------------------------------------
(* The units that are left, sent and read.                                 *)

\* What can be left of a unit has its keyword or none that is known.
LEMMA CutFacts ==
  ASSUME NEW unit, NEW u, u \in CutForms(unit)
  PROVE  \/ u = Text
         \/ unit.v # None /\ unit.k # "M" /\ u = Line(unit.k, Cut)
         \/ unit.k = "M" /\ u = Line("M", [unit.v EXCEPT !.path = Cut])
         \/ unit.k = "M" /\ u = Line("M", [unit.v EXCEPT !.mode = Cut])
BY DEF CutForms

\* Three turns are left in the export, fewer after it.
LEMMA LeftFacts ==
  ASSUME NEW p, GoodPlan(p), NEW m \in 0 .. Size(p) + 2
  PROVE  /\ m < Size(p) => Len(Left(p, m)) = 3
         /\ m = Size(p) => Len(Left(p, m)) = 2
         /\ m = Size(p) + 1 => Len(Left(p, m)) = 1
         /\ m = Size(p) + 2 => Left(p, m) = <<>>
         /\ m < Size(p) + 2 <=> Left(p, m) # <<>>
<1>1. Size(p) \in Nat /\ Size(p) >= 3
  BY TextFacts DEF TextLaid
<1>2. CASE m < Size(p)
  <2>1. PICK a : a = SubSeq(ExportText(p), m + 1, Size(p))
    OBVIOUS
  <2>2. Left(p, m) = <<a, <<Line("list", None)>>, <<Blank>>>>
    BY <1>2, <2>1 DEF Left
  <2>3. Len(Left(p, m)) = 3 /\ Left(p, m) # <<>>
    BY <2>2
  <2> QED
    BY <1>1, <1>2, <2>3
<1>3. CASE m = Size(p)
  <2>1. Left(p, m) = << <<Line("list", None)>>, <<Blank>> >>
    BY <1>1, <1>3 DEF Left
  <2>2. Len(Left(p, m)) = 2 /\ Left(p, m) # <<>>
    BY <2>1
  <2> QED
    BY <1>1, <1>3, <2>2
<1>4. CASE m = Size(p) + 1
  <2>1. Left(p, m) = << <<Blank>> >>
    BY <1>1, <1>4 DEF Left
  <2>2. Len(Left(p, m)) = 1 /\ Left(p, m) # <<>>
    BY <2>1
  <2> QED
    BY <1>1, <1>4, <2>2
<1>5. CASE m = Size(p) + 2
  <2>1. Left(p, m) = <<>>
    BY <1>1, <1>5 DEF Left
  <2> QED
    BY <1>1, <1>5, <2>1
<1> QED
  BY <1>1, <1>2, <1>3, <1>4, <1>5

\* All of it is left at first.
LEMMA LeftAtFirst ==
  ASSUME NEW p, GoodPlan(p)
  PROVE  Turns(p) = Left(p, 0)
<1>1. PICK X : X = ExportText(p)
  OBVIOUS
<1>2. Size(p) \in Nat /\ Size(p) >= 3 /\ Sequence(X) /\ Len(X) = Size(p)
  BY <1>1, TextFacts DEF TextLaid
<1>3. SubSeq(X, 0 + 1, Size(p)) = X
  <2>1. /\ Sequence(SubSeq(X, 1, Size(p))) /\ Len(SubSeq(X, 1, Size(p))) = Size(p)
        /\ \A i \in 1 .. Size(p) : SubSeq(X, 1, Size(p))[i] = X[i]
    BY <1>2 DEF Sequence
  <2>2. PICK t : t = SubSeq(X, 1, Size(p))
    OBVIOUS
  <2>3. Sequence(t) /\ Len(t) = Len(X) /\ \A i \in 1 .. Len(t) : t[i] = X[i]
    BY <1>2, <2>1, <2>2
  <2>4. t = X
    BY <1>2, <2>3, SameSequence
  <2>5. 0 + 1 = 1
    OBVIOUS
  <2> QED
    BY <2>2, <2>4, <2>5
<1>4. Turns(p) = << X, <<Line("list", None)>>, <<Blank>> >>
  BY <1>1 DEF Turns, ExportText
<1> QED
  BY <1>1, <1>2, <1>3, <1>4 DEF Left

\* What is left when one more unit is written.
LEMMA LeftNext ==
  ASSUME NEW p, GoodPlan(p), NEW m \in 0 .. Size(p) + 1
  PROVE  /\ Head(Head(Left(p, m))) = Unit(p, m + 1)
         /\ Left(p, m + 1) = IF Len(Head(Left(p, m))) = 1 THEN Tail(Left(p, m))
                             ELSE <<Tail(Head(Left(p, m)))>> \o Tail(Left(p, m))
<1>1. PICK X : X = ExportText(p)
  OBVIOUS
<1>2. PICK N \in Nat : N = Size(p) /\ N >= 3 /\ Sequence(X) /\ Len(X) = N
  BY <1>1, TextFacts DEF TextLaid
<1>3. PICK b : b = <<Line("list", None)>>
  OBVIOUS
<1>4. PICK e : e = <<Blank>>
  OBVIOUS
<1>5. Len(b) = 1 /\ Head(b) = Line("list", None) /\ Len(e) = 1 /\ Head(e) = Blank
  BY <1>3, <1>4
<1>6. CASE m < N
  <2>1. PICK a : a = SubSeq(X, m + 1, N)
    OBVIOUS
  <2>2. Left(p, m) = <<a, b, e>>
    BY <1>1, <1>2, <1>3, <1>4, <1>6, <2>1 DEF Left
  <2>3. Sequence(a) /\ Len(a) = N - m /\ \A i \in 1 .. N - m : a[i] = X[m + i]
    <3>1. m + 1 \in Nat /\ 1 <= m + 1 /\ N <= Len(X) /\ ~(N < m + 1)
      BY <1>2, <1>6
    <3>2. /\ Sequence(SubSeq(X, m + 1, N))
          /\ Len(SubSeq(X, m + 1, N)) = IF N < m + 1 THEN 0 ELSE N - (m + 1) + 1
          /\ \A i \in 1 .. Len(SubSeq(X, m + 1, N)) : SubSeq(X, m + 1, N)[i] = X[(m + 1) + i - 1]
      BY <1>2, <3>1, PartFacts
    <3>3. Len(a) = N - m /\ \A i \in 1 .. N - m : (m + 1) + i - 1 = m + i
      BY <1>2, <2>1, <3>1, <3>2
    <3> QED
      BY <2>1, <3>2, <3>3
  <2>4. Head(Left(p, m)) = a /\ Tail(Left(p, m)) = <<b, e>>
    BY <2>2
  <2>5. a # <<>> /\ Head(a) = X[m + 1]
    <3>1. 1 \in 1 .. N - m /\ Len(a) >= 1
      BY <1>2, <1>6, <2>3
    <3>2. a[1] = X[m + 1]
      BY <2>3, <3>1
    <3> QED
      BY <2>3, <3>1, <3>2, SequenceSet
  <2>6. Unit(p, m + 1) = X[m + 1]
    BY <1>1, <1>2, <1>6 DEF Unit
  <2>7. CASE m + 1 = N
    <3>1. Len(a) = 1
      BY <1>2, <2>3, <2>7
    <3>2. Left(p, m + 1) = <<b, e>>
      BY <1>2, <1>3, <1>4, <2>7 DEF Left
    <3> QED
      BY <2>4, <2>5, <2>6, <3>1, <3>2
  <2>8. CASE m + 1 < N
    <3>1. Len(a) # 1 /\ Len(a) > 0
      BY <1>2, <2>3, <2>8
    <3>2. PICK t : t = Tail(a)
      OBVIOUS
    <3>3. Sequence(t) /\ Len(t) = N - m - 1 /\ \A i \in 1 .. N - m - 1 : t[i] = a[i + 1]
      BY <2>3, <3>1, <3>2, TailFacts
    <3>4. PICK u : u = SubSeq(X, m + 1 + 1, N)
      OBVIOUS
    <3>5. Sequence(u) /\ Len(u) = N - m - 1 /\ \A i \in 1 .. N - m - 1 : u[i] = X[m + 1 + i]
      <4>1. m + 1 + 1 \in Nat /\ 1 <= m + 1 + 1 /\ N <= Len(X) /\ ~(N < m + 1 + 1)
        BY <1>2, <2>8
      <4>2. /\ Sequence(SubSeq(X, m + 1 + 1, N))
            /\ Len(SubSeq(X, m + 1 + 1, N)) = IF N < m + 1 + 1 THEN 0 ELSE N - (m + 1 + 1) + 1
            /\ \A i \in 1 .. Len(SubSeq(X, m + 1 + 1, N)) :
                 SubSeq(X, m + 1 + 1, N)[i] = X[(m + 1 + 1) + i - 1]
        BY <1>2, <4>1, PartFacts
      <4>3. Len(u) = N - m - 1 /\ \A i \in 1 .. N - m - 1 : (m + 1 + 1) + i - 1 = m + 1 + i
        BY <1>2, <3>4, <4>1, <4>2
      <4> QED
        BY <3>4, <4>2, <4>3
    <3>6. \A i \in 1 .. N - m - 1 : i + 1 \in 1 .. N - m /\ m + (i + 1) = m + 1 + i
      BY <1>2
    <3>7. \A i \in 1 .. N - m - 1 : t[i] = u[i]
      BY <2>3, <3>3, <3>5, <3>6
    <3>8. t = u
      BY <3>3, <3>5, <3>7, SameSequence
    <3>9. Left(p, m + 1) = <<u, b, e>>
      BY <1>1, <1>2, <1>3, <1>4, <2>8, <3>4 DEF Left
    <3>10. <<t>> \o <<b, e>> = <<t, b, e>>
      <4>1. PICK S : S = {t, b, e}
        OBVIOUS
      <4>10. <<t>> \in Seq(S) /\ <<b, e>> \in Seq(S) /\ <<t, b, e>> \in Seq(S)
        BY <4>1
      <4>2. PICK u1 \in Seq(S) : u1 = <<t>> /\ Len(u1) = 1 /\ u1[1] = t
        BY <4>10
      <4>3. PICK u2 \in Seq(S) : u2 = <<b, e>> /\ Len(u2) = 2 /\ u2[1] = b /\ u2[2] = e
        BY <4>10
      <4>4. PICK u3 \in Seq(S) : u3 = <<t, b, e>> /\ Len(u3) = 3 /\ u3[1] = t /\ u3[2] = b /\ u3[3] = e
        BY <4>10
      <4>5. PICK v : v = u1 \o u2
        OBVIOUS
      <4>6. v \in Seq(S) /\ Len(v) = 3 /\ v[1] = t /\ v[2] = b /\ v[3] = e
        <5>1. IsConcat(v, u1, u2) /\ Sequence(v) /\ v \in Seq(S)
          BY <4>5, ConcatFacts, SequenceOf
        <5>2. Len(v) = 3
          BY <4>2, <4>3, <5>1 DEF IsConcat
        <5>3. v[1] = t
          BY <4>2, <5>1 DEF IsConcat
        <5>4. v[1 + 1] = b /\ v[1 + 2] = e
          BY <4>2, <4>3, <5>1 DEF IsConcat
        <5> QED
          BY <5>1, <5>2, <5>3, <5>4
      <4>7. \A i \in 1 .. 3 : i = 1 \/ i = 2 \/ i = 3
        OBVIOUS
      <4>8. \A i \in 1 .. 3 : v[i] = u3[i]
        BY <4>4, <4>6, <4>7
      <4>9. v = u3
        BY <4>4, <4>6, <4>8, SameSequence, SequenceOf
      <4> QED
        BY <4>2, <4>3, <4>4, <4>5, <4>9
    <3> QED
      BY <2>4, <2>5, <2>6, <3>1, <3>2, <3>8, <3>9, <3>10
  <2> QED
    BY <1>2, <1>6, <2>7, <2>8
<1>7. CASE m = N
  <2>1. Left(p, m) = <<b, e>> /\ Left(p, m + 1) = <<e>>
    BY <1>2, <1>3, <1>4, <1>7, SMTT(60) DEF Left
  <2>2. Unit(p, m + 1) = Line("list", None)
    BY <1>2, <1>7 DEF Unit
  <2>3. Head(Left(p, m)) = b /\ Tail(Left(p, m)) = <<e>>
    BY <2>1
  <2> QED
    BY <1>5, <2>1, <2>2, <2>3
<1>8. CASE m = N + 1
  <2>1. Left(p, m) = <<e>> /\ Left(p, m + 1) = <<>>
    BY <1>2, <1>4, <1>8, SMTT(60) DEF Left
  <2>2. Unit(p, m + 1) = Blank
    BY <1>2, <1>8 DEF Unit
  <2>3. Head(Left(p, m)) = e /\ Tail(Left(p, m)) = <<>>
    BY <2>1
  <2> QED
    BY <1>5, <2>1, <2>2, <2>3
<1> QED
  BY <1>2, <1>6, <1>7, <1>8

ReadAs(p, closed, read, sent, m, at, a) ==
  \/ at + a <= m /\ read[a] = Unit(p, at + a)
  \/ /\ at + a = m + 1 /\ closed = "torn" /\ sent = <<>> /\ a = Len(read)
     /\ read[a] \in CutForms(Unit(p, m + 1))
     /\ Unit(p, m + 1).k \notin {"blank", "piece"} /\ m <= Size(p) + 1

\* A unit that is read ahead is the one that was written, or torn and the last.
LEMMA ReadUnit ==
  ASSUME NEW p, NEW left, NEW closed, NEW read, NEW sent, NEW m \in Nat, NEW at \in Nat,
         TapeOf(p, left, closed, read, sent, m, at), NEW a \in 1 .. Len(read)
  PROVE  ReadAs(p, closed, read, sent, m, at, a)
<1>1. PICK r \in Nat : r = Len(read)
  BY DEF TapeOf, Sequence
<1>2. PICK s \in Nat : s = Len(sent)
  BY DEF TapeOf, Sequence
<1>3. at + r + s = m + Torn(closed) /\ Sent(p, closed, m, at + a, read[a]) /\ Sequence(sent)
  BY <1>1, <1>2 DEF TapeOf
<1>4. Torn(closed) \in {0, 1} /\ (closed = "torn" => Torn(closed) = 1)
  BY DEF Torn
<1>5. CASE at + a <= m /\ read[a] = Unit(p, at + a)
  BY <1>5 DEF ReadAs
<1>6. CASE at + a = m + 1 /\ closed = "torn" /\ read[a] \in CutForms(Unit(p, at + a))
  <2>1. a = r /\ s = 0
    BY <1>1, <1>3, <1>4, <1>6
  <2>2. sent = <<>>
    BY <1>2, <1>3, <2>1, ShortSequences
  <2>3. Unit(p, m + 1).k \notin {"blank", "piece"} /\ m <= Size(p) + 1
    BY <1>6 DEF TapeOf
  <2> QED
    BY <1>1, <1>6, <2>1, <2>2, <2>3 DEF ReadAs
<1> QED
  BY <1>3, <1>5, <1>6 DEF Sent

\* The parser goes on by d units.
LEMMA Used ==
  ASSUME NEW p, NEW left, NEW closed, NEW read, NEW sent, NEW m \in Nat, NEW at \in Nat,
         TapeOf(p, left, closed, read, sent, m, at), NEW d \in 0 .. Len(read), at + d <= m
  PROVE  TapeOf(p, left, closed, SubSeq(read, d + 1, Len(read)), sent, m, at + d)
<1>1. PICK r \in Nat : r = Len(read)
  BY DEF TapeOf, Sequence
<1>2. PICK s \in Nat : s = Len(sent)
  BY DEF TapeOf, Sequence
<1>3. PICK t \in {0, 1} : t = Torn(closed)
  BY DEF Torn
<1>4. PICK u : u = SubSeq(read, d + 1, Len(read))
  OBVIOUS
<1>5. Sequence(u) /\ Len(u) = r - d /\ \A i \in 1 .. r - d : u[i] = read[d + i]
  <2>1. d \in 0 .. r
    BY <1>1
  <2>2. d + 1 \in Nat /\ 1 <= d + 1 /\ r <= Len(read) /\ Sequence(read)
    BY <1>1, <2>1 DEF TapeOf
  <2>3. /\ Sequence(SubSeq(read, d + 1, r))
        /\ Len(SubSeq(read, d + 1, r)) = IF r < d + 1 THEN 0 ELSE r - (d + 1) + 1
        /\ \A i \in 1 .. Len(SubSeq(read, d + 1, r)) :
             SubSeq(read, d + 1, r)[i] = read[(d + 1) + i - 1]
    BY <2>2, PartFacts
  <2>4. Len(SubSeq(read, d + 1, r)) = r - d /\ \A i \in 1 .. r - d : (d + 1) + i - 1 = d + i
    BY <2>1, <2>3
  <2> QED
    BY <1>1, <1>4, <2>3, <2>4
<1>6. at + r + s = m + t
  BY <1>1, <1>2, <1>3 DEF TapeOf
<1>7. (at + d) + Len(u) + Len(sent) = m + Torn(closed)
  BY <1>1, <1>2, <1>3, <1>5, <1>6
<1>8. ASSUME NEW i \in 1 .. Len(u) PROVE Sent(p, closed, m, (at + d) + i, u[i])
  <2>1. i \in 1 .. r - d
    BY <1>5
  <2>2. d + i \in 1 .. Len(read) /\ at + (d + i) = (at + d) + i
    BY <1>1, <2>1
  <2>3. Sent(p, closed, m, at + (d + i), read[d + i])
    BY <2>2 DEF TapeOf
  <2> QED
    BY <1>5, <2>1, <2>2, <2>3
<1>9. ASSUME NEW b \in 1 .. Len(sent)
      PROVE  Sent(p, closed, m, (at + d) + Len(u) + b, sent[b])
  <2>1. (at + d) + Len(u) = at + Len(read)
    BY <1>1, <1>5
  <2>2. Sent(p, closed, m, at + Len(read) + b, sent[b])
    BY DEF TapeOf
  <2> QED
    BY <2>1, <2>2
<1>10. TapeOf(p, left, closed, u, sent, m, at + d)
  BY <1>5, <1>7, <1>8, <1>9 DEF TapeOf
<1> QED
  BY <1>4, <1>10

AllUsed(closed, read, sent, m, at, d) ==
  /\ closed = "torn" /\ sent = <<>> /\ SubSeq(read, d + 1, Len(read)) = <<>>
  /\ d = Len(read) /\ at + d = m + 1

\* It goes on to the end of the stream, which was torn.
LEMMA UsedUp ==
  ASSUME NEW p, NEW left, NEW closed, NEW read, NEW sent, NEW m \in Nat, NEW at \in Nat,
         TapeOf(p, left, closed, read, sent, m, at), NEW d \in 0 .. Len(read), ~(at + d <= m)
  PROVE  AllUsed(closed, read, sent, m, at, d)
<1>1. PICK r \in Nat : r = Len(read)
  BY DEF TapeOf, Sequence
<1>2. PICK s \in Nat : s = Len(sent)
  BY DEF TapeOf, Sequence
<1>3. PICK t \in {0, 1} : t = Torn(closed)
  BY DEF Torn
<1>4. at + r + s = m + t
  BY <1>1, <1>2, <1>3 DEF TapeOf
<1>5. d = r /\ s = 0 /\ t = 1
  BY <1>1, <1>4
<1>6. closed = "torn"
  BY <1>3, <1>5 DEF Torn
<1>7. sent = <<>>
  BY <1>2, <1>5, ShortSequences DEF TapeOf
<1>8. SubSeq(read, d + 1, Len(read)) = <<>>
  <2>1. PICK u : u = SubSeq(read, r + 1, r)
    OBVIOUS
  <2>2. Sequence(u) /\ Len(u) = 0
    <3>1. r + 1 \in Nat /\ 1 <= r + 1 /\ r <= Len(read) /\ Sequence(read) /\ r < r + 1
      BY <1>1 DEF TapeOf
    <3>2. /\ Sequence(SubSeq(read, r + 1, r))
          /\ Len(SubSeq(read, r + 1, r)) = IF r < r + 1 THEN 0 ELSE r - (r + 1) + 1
      BY <3>1, PartFacts
    <3> QED
      BY <2>1, <3>1, <3>2
  <2> QED
    BY <1>1, <1>5, <2>1, <2>2, ShortSequences
<1> QED
  BY <1>1, <1>4, <1>5, <1>6, <1>7, <1>8 DEF AllUsed

\* What the first unit in the pipe is, when all that was read is used.
SentAs(p, left, closed, sent, m, at) ==
  \/ /\ at + 1 <= m /\ Head(sent) = Unit(p, at + 1)
     /\ TapeOf(p, left, closed, <<>>, Tail(sent), m, at + 1)
  \/ /\ at = m /\ closed = "torn" /\ Tail(sent) = <<>>
     /\ Head(sent) \in CutForms(Unit(p, m + 1))
     /\ Unit(p, m + 1).k \notin {"blank", "piece"} /\ m <= Size(p) + 1

\* The first unit of the pipe, when nothing is read ahead.
LEMMA SentUnit ==
  ASSUME NEW p, NEW left, NEW closed, NEW sent, NEW m \in Nat, NEW at \in Nat,
         TapeOf(p, left, closed, <<>>, sent, m, at), sent # <<>>
  PROVE  SentAs(p, left, closed, sent, m, at)
<1>1. PICK s \in Nat : s = Len(sent)
  BY DEF TapeOf, Sequence
<1>2. PICK t \in {0, 1} : t = Torn(closed)
  BY DEF Torn
<1>3. Sequence(sent) /\ Len(<<>>) = 0 /\ Sequence(<<>>)
  BY ShortSequences DEF TapeOf
<1>4. s > 0
  BY <1>1, <1>3, ShortSequences
<1>5. at + 0 + s = m + t
  BY <1>1, <1>2, <1>3 DEF TapeOf
<1>6. Head(sent) = sent[1]
  BY <1>1, <1>3, <1>4, SequenceSet
<1>7. PICK u : u = Tail(sent)
  OBVIOUS
<1>8. Sequence(u) /\ Len(u) = s - 1 /\ \A i \in 1 .. s - 1 : u[i] = sent[i + 1]
  BY <1>1, <1>3, <1>4, <1>7, TailFacts
<1>9. Sent(p, closed, m, at + 0 + 1, sent[1])
  <2>1. 1 \in 1 .. Len(sent)
    BY <1>1, <1>4
  <2> QED
    BY <1>3, <2>1 DEF TapeOf
<1>10. at + 0 + 1 = at + 1
  OBVIOUS
<1>11. CASE at + 1 <= m /\ sent[1] = Unit(p, at + 1)
  <2>1. (at + 1) + 0 + Len(u) = m + Torn(closed)
    BY <1>2, <1>5, <1>8
  <2>2. ASSUME NEW b \in 1 .. Len(u) PROVE Sent(p, closed, m, (at + 1) + 0 + b, u[b])
    <3>1. b \in 1 .. s - 1
      BY <1>8
    <3>2. b + 1 \in 1 .. Len(sent) /\ at + 0 + (b + 1) = (at + 1) + 0 + b
      BY <1>1, <3>1
    <3>3. Sent(p, closed, m, at + 0 + (b + 1), sent[b + 1])
      BY <1>3, <3>2 DEF TapeOf
    <3> QED
      BY <1>8, <3>1, <3>2, <3>3
  <2>3. \A a \in 1 .. Len(<<>>) : Sent(p, closed, m, (at + 1) + a, <<>>[a])
    BY <1>3
  <2>4. TapeOf(p, left, closed, <<>>, u, m, at + 1)
    BY <1>3, <1>8, <2>1, <2>2, <2>3 DEF TapeOf
  <2> QED
    BY <1>6, <1>7, <1>11, <2>4 DEF SentAs
<1>12. CASE at + 1 = m + 1 /\ closed = "torn" /\ sent[1] \in CutForms(Unit(p, at + 1))
  <2>1. s = 1 /\ at = m
    BY <1>2, <1>5, <1>12 DEF Torn
  <2>2. u = <<>>
    BY <1>8, <2>1, ShortSequences
  <2> QED
    BY <1>6, <1>7, <1>12, <2>1, <2>2 DEF TapeOf, SentAs
<1> QED
  BY <1>9, <1>10, <1>11, <1>12 DEF Sent

\* The buffer is filled.
LEMMA Filled ==
  ASSUME NEW p, NEW left, NEW closed, NEW read, NEW sent, NEW m \in Nat, NEW at \in Nat,
         TapeOf(p, left, closed, read, sent, m, at), NEW n \in 1 .. Len(sent)
  PROVE  TapeOf(p, left, closed, read \o SubSeq(sent, 1, n), SubSeq(sent, n + 1, Len(sent)), m, at)
<1>1. PICK r \in Nat : r = Len(read)
  BY DEF TapeOf, Sequence
<1>2. PICK s \in Nat : s = Len(sent)
  BY DEF TapeOf, Sequence
<1>3. PICK t \in {0, 1} : t = Torn(closed)
  BY DEF Torn
<1>4. at + r + s = m + t /\ Sequence(read) /\ Sequence(sent)
  BY <1>1, <1>2, <1>3 DEF TapeOf
<1>5. n \in 1 .. s /\ n \in Nat
  BY <1>2
<1>6. PICK u : u = SubSeq(sent, 1, n)
  OBVIOUS
<1>7. Sequence(u) /\ Len(u) = n /\ \A i \in 1 .. n : u[i] = sent[i]
  <2>1. 1 \in Nat /\ 1 <= 1 /\ n <= Len(sent) /\ ~(n < 1)
    BY <1>2, <1>5
  <2>2. /\ Sequence(u) /\ Len(u) = (IF n < 1 THEN 0 ELSE n - 1 + 1)
        /\ \A i \in 1 .. Len(u) : u[i] = sent[1 + i - 1]
    BY <1>4, <1>5, <1>6, <2>1, PartFacts
  <2>3. Len(u) = n /\ \A i \in 1 .. n : 1 + i - 1 = i
    BY <1>5, <2>1, <2>2
  <2> QED
    BY <2>2, <2>3
<1>8. PICK w : w = SubSeq(sent, n + 1, Len(sent))
  OBVIOUS
<1>9. Sequence(w) /\ Len(w) = s - n /\ \A i \in 1 .. s - n : w[i] = sent[n + i]
  <2>1. n + 1 \in Nat /\ 1 <= n + 1 /\ s <= Len(sent)
    BY <1>2, <1>5
  <2>2. /\ Sequence(w) /\ Len(w) = (IF s < n + 1 THEN 0 ELSE s - (n + 1) + 1)
        /\ \A i \in 1 .. Len(w) : w[i] = sent[(n + 1) + i - 1]
    BY <1>2, <1>4, <1>8, <2>1, PartFacts, SMTT(60)
  <2>3. Len(w) = s - n /\ \A i \in 1 .. s - n : (n + 1) + i - 1 = n + i
    BY <1>5, <2>2
  <2> QED
    BY <2>2, <2>3
<1>10. PICK v : v = read \o u
  OBVIOUS
<1>11. IsConcat(v, read, u) /\ Sequence(v)
  BY <1>4, <1>7, <1>10, ConcatFacts
<1>12. /\ Len(v) = r + n /\ \A i \in 1 .. r : v[i] = read[i]
       /\ \A i \in 1 .. n : v[r + i] = u[i]
  BY <1>1, <1>7, <1>11 DEF IsConcat
<1>13. at + Len(v) + Len(w) = m + Torn(closed)
  BY <1>3, <1>4, <1>5, <1>9, <1>12
<1>14. ASSUME NEW a \in 1 .. Len(v) PROVE Sent(p, closed, m, at + a, v[a])
  <2>1. a \in 1 .. r \/ a - r \in 1 .. n
    BY <1>5, <1>12
  <2>2. CASE a \in 1 .. r
    BY <1>1, <1>12, <2>2 DEF TapeOf
  <2>3. CASE a - r \in 1 .. n
    <3>1. a \in Nat /\ a - r \in 1 .. s /\ at + r + (a - r) = at + a /\ r + (a - r) = a
      BY <1>5, <1>12, <2>3
    <3>2. Sent(p, closed, m, at + r + (a - r), sent[a - r])
      BY <1>1, <1>2, <3>1 DEF TapeOf
    <3>3. v[r + (a - r)] = u[a - r] /\ u[a - r] = sent[a - r]
      BY <1>7, <1>12, <2>3
    <3> QED
      BY <3>1, <3>2, <3>3
  <2> QED
    BY <2>1, <2>2, <2>3
<1>15. ASSUME NEW b \in 1 .. Len(w) PROVE Sent(p, closed, m, at + Len(v) + b, w[b])
  <2>1. b \in 1 .. s - n
    BY <1>9
  <2>2. n + b \in 1 .. s /\ at + r + (n + b) = at + Len(v) + b
    BY <1>5, <1>12, <2>1
  <2>3. Sent(p, closed, m, at + r + (n + b), sent[n + b])
    BY <1>1, <1>2, <2>2 DEF TapeOf
  <2> QED
    BY <1>9, <2>1, <2>2, <2>3
<1>16. TapeOf(p, left, closed, v, w, m, at)
  BY <1>9, <1>11, <1>13, <1>14, <1>15 DEF TapeOf
<1> QED
  BY <1>6, <1>8, <1>10, <1>16

\* One more unit is written, or what is left of it.
LEMMA Written ==
  ASSUME NEW p, NEW left, NEW read, NEW sent, NEW m \in Nat, NEW at \in Nat,
         TapeOf(p, left, "open", read, sent, m, at), NEW unit, NEW m2 \in Nat, NEW closed,
         NEW then, then = Left(p, m2),
         \/ m2 = m + 1 /\ closed = "open" /\ unit = Unit(p, m + 1)
         \/ /\ m2 = m /\ closed = "torn" /\ unit \in CutForms(Unit(p, m + 1))
            /\ m <= Size(p) + 1 /\ Unit(p, m + 1).k \notin {"blank", "piece"}
  PROVE  TapeOf(p, then, closed, read, Append(sent, unit), m2, at)
<1>1. PICK r \in Nat : r = Len(read)
  BY DEF TapeOf, Sequence
<1>2. PICK s \in Nat : s = Len(sent)
  BY DEF TapeOf, Sequence
<1>3. at + r + s = m /\ Sequence(read) /\ Sequence(sent)
  <2>1. Torn("open") = 0
    BY DEF Torn
  <2>2. at + r + s = m + 0
    BY <1>1, <1>2, <2>1 DEF TapeOf
  <2> QED
    BY <2>2 DEF TapeOf
<1>4. PICK u : u = Append(sent, unit)
  OBVIOUS
<1>5. Sequence(u) /\ Len(u) = s + 1 /\ (\A i \in 1 .. s : u[i] = sent[i]) /\ u[s + 1] = unit
  BY <1>2, <1>3, <1>4, AppendElement
<1>6. m + 1 = m2 + Torn(closed) /\ (m2 = m \/ m2 = m + 1)
  BY DEF Torn
<1>7. at + Len(read) + Len(u) = m2 + Torn(closed)
  BY <1>1, <1>3, <1>5, <1>6
<1>8. ASSUME NEW j \in Nat, NEW v, Sent(p, "open", m, j, v) PROVE Sent(p, closed, m2, j, v)
  BY <1>6, <1>8 DEF Sent
<1>9. \A a \in 1 .. Len(read) : Sent(p, closed, m2, at + a, read[a])
  <2>1. \A a \in 1 .. Len(read) : at + a \in Nat
    BY <1>1
  <2> QED
    BY <1>8, <2>1 DEF TapeOf
<1>10. Sent(p, closed, m2, m + 1, unit)
  BY DEF Sent
<1>11. ASSUME NEW b \in 1 .. Len(u) PROVE Sent(p, closed, m2, at + Len(read) + b, u[b])
  <2>1. CASE b \in 1 .. s
    <3>1. Sent(p, "open", m, at + Len(read) + b, sent[b]) /\ at + Len(read) + b \in Nat
      BY <1>1, <1>2, <2>1 DEF TapeOf
    <3> QED
      BY <1>5, <1>8, <2>1, <3>1
  <2>2. CASE b = s + 1
    <3>1. at + Len(read) + b = m + 1
      BY <1>1, <1>3, <2>2
    <3> QED
      BY <1>5, <1>10, <2>2, <3>1
  <2> QED
    BY <1>5, <2>1, <2>2
<1>12. closed = "torn" => m2 <= Size(p) + 1 /\ Unit(p, m2 + 1).k \notin {"blank", "piece"}
  OBVIOUS
<1>13. TapeOf(p, then, closed, read, u, m2, at)
  BY <1>3, <1>5, <1>7, <1>9, <1>11, <1>12 DEF TapeOf
<1> QED
  BY <1>4, <1>13

\* The pipe is closed after a unit.
LEMMA ClosedAfter ==
  ASSUME NEW p, NEW left, NEW read, NEW sent, NEW m \in Nat, NEW at \in Nat,
         TapeOf(p, left, "open", read, sent, m, at)
  PROVE  TapeOf(p, left, "closed", read, sent, m, at)
<1>1. ASSUME NEW j, NEW v, Sent(p, "open", m, j, v) PROVE Sent(p, "closed", m, j, v)
  BY <1>1 DEF Sent
<1>2. Torn("open") = Torn("closed")
  BY DEF Torn
<1> QED
  BY <1>1, <1>2 DEF TapeOf

-----------------------------------------------------------------------------
(* What is between commands.                                               *)

\* The lines of a command in the text, and what comes after it.
InText(p, i, L) ==
  /\ L = LinesAt(p, i) /\ Sequence(L) /\ Len(L) >= 1
  /\ i - 1 \in 0 .. Len(p.commands) /\ Past(p)[i - 1] \in Nat
  /\ Past(p)[i] = Past(p)[i - 1] + Len(L) /\ Past(p)[i] < Size(p)
  /\ \A q \in 1 .. Len(L) : Unit(p, Past(p)[i - 1] + q) = L[q]

\* It has its place there.
LEMMA CommandInText ==
  ASSUME NEW p, GoodPlan(p), NEW i \in 1 .. Len(p.commands)
  PROVE  InText(p, i, LinesAt(p, i))
<1>1. Len(p.commands) \in Nat
  BY DEF GoodPlan, Sequence
<1>2. i - 1 \in 0 .. Len(p.commands)
  BY <1>1
<1>3. Past(p)[i - 1] \in Nat
  BY <1>2, TextFacts DEF TextLaid
<1>4. Past(p)[i] = Past(p)[i - 1] + Len(LinesAt(p, i)) /\ Past(p)[i] < Size(p)
  BY TextFacts DEF TextLaid
<1>5. \A q \in 1 .. Len(LinesAt(p, i)) : Unit(p, Past(p)[i - 1] + q) = LinesAt(p, i)[q]
  BY TextFacts DEF TextLaid
<1>6. Sequence(LinesAt(p, i)) /\ Len(LinesAt(p, i)) >= 1
  BY LinesOf
<1> QED
  BY <1>2, <1>3, <1>4, <1>5, <1>6 DEF InText

\* After a command, and before the first: another one, or the end.
Following(p, i) ==
  \/ /\ i < Len(p.commands) /\ p.commands[i + 1].type = "noise"
     /\ Unit(p, Past(p)[i] + 1) = Text /\ Past(p)[i + 1] = Past(p)[i] + 1
  \/ /\ i < Len(p.commands) /\ GoodCommand(p.commands[i + 1])
     /\ Unit(p, Past(p)[i] + 1) = Line(p.commands[i + 1].type, p.commands[i + 1].of)
  \/ /\ i = Len(p.commands) /\ Unit(p, Past(p)[i] + 1) = Line("done", None)
     /\ Past(p)[i] + 1 = Size(p)

\* These come between commands.
LEMMA Follows ==
  ASSUME NEW p, GoodPlan(p), NEW i \in 0 .. Len(p.commands)
  PROVE  Following(p, i) /\ Past(p)[i] \in Nat /\ Past(p)[i] < Size(p)
<1>1. PICK N \in Nat : N = Len(p.commands)
  BY DEF GoodPlan, Sequence
<1>2. i \in 0 .. N
  BY <1>1
<1>3. TextLaid(p)
  BY TextFacts
<1>4. Past(p)[i] \in Nat
  BY <1>3 DEF TextLaid
<1>5. CASE i = N
  <2>1. Past(p)[i] + 1 = Size(p)
    BY <1>1, <1>5 DEF Size
  <2>2. Unit(p, Past(p)[i] + 1) = Line("done", None)
    BY <1>3, <2>1 DEF TextLaid
  <2>3. Past(p)[i] < Size(p)
    BY <1>4, <2>1
  <2> QED
    BY <1>1, <1>4, <1>5, <2>1, <2>2, <2>3 DEF Following
<1>6. CASE i < N
  <2>1. PICK j \in 1 .. N : j = i + 1 /\ j - 1 = i
    BY <1>2, <1>6
  <2>2. PICK L : L = LinesAt(p, j)
    OBVIOUS
  <2>3. InText(p, j, L)
    BY <1>1, <2>1, <2>2, CommandInText
  <2>4. PICK l \in Nat : l = Len(L) /\ l >= 1
    BY <2>3 DEF InText, Sequence
  <2>5. Past(p)[j] = Past(p)[i] + l /\ Unit(p, Past(p)[i] + 1) = L[1] /\ Past(p)[j] < Size(p)
    BY <2>1, <2>3, <2>4 DEF InText
  <2>6. Size(p) \in Nat
    BY <1>3 DEF TextLaid
  <2>7. Past(p)[i] < Size(p)
    BY <1>4, <2>4, <2>5, <2>6
  <2>8. /\ p.commands[j].type = "noise" \/ GoodCommand(p.commands[j])
        /\ p.commands[j].type = "noise" => L = <<Text>>
    BY <1>1, <2>1, <2>2, LinesOf
  <2>9. CASE p.commands[j].type = "noise"
    <3>1. l = 1 /\ L[1] = Text
      BY <2>4, <2>8, <2>9, ShortSequences
    <3> QED
      BY <1>1, <1>4, <1>6, <2>1, <2>5, <2>7, <2>9, <3>1 DEF Following
  <2>10. CASE GoodCommand(p.commands[j])
    <3>1. L[1] = Line(p.commands[j].type, p.commands[j].of)
      BY <2>2, <2>10, BodyStart DEF LinesAt
    <3> QED
      BY <1>1, <1>4, <1>6, <2>1, <2>5, <2>7, <2>10, <3>1 DEF Following
  <2> QED
    BY <2>8, <2>9, <2>10
<1> QED
  BY <1>2, <1>5, <1>6

\* No keyword of a header, of data or of a file change follows a command.
LEMMA FollowingKeys ==
  ASSUME NEW p, GoodPlan(p), NEW i \in 0 .. Len(p.commands)
  PROVE  Unit(p, Past(p)[i] + 1).k \in Types \cup {"text", "done"}
<1>1. Following(p, i)
  BY Follows
<1>2. Text.k = "text" /\ \A k, v : Line(k, v).k = k
  BY DEF Text, Line
<1>3. \A c : GoodCommand(c) => c.type \in Types
  BY DEF GoodCommand
<1> QED
  BY <1>1, <1>2, <1>3 DEF Following

\* What is meant by the commands, one by one.
MeantInOrder(commands) ==
  /\ MeantBy(commands)[0] = <<>>
  /\ \A i \in 0 .. Len(commands) :
       Sequence(MeantBy(commands)[i]) /\ Begins(MeantBy(commands)[i], MeantBy(commands)[Len(commands)])
  /\ \A i \in 1 .. Len(commands) :
       /\ commands[i].type # "noise"
            => MeantBy(commands)[i] = Append(MeantBy(commands)[i - 1], Meant(commands[i]))
       /\ commands[i].type = "noise" => MeantBy(commands)[i] = MeantBy(commands)[i - 1]

\* Each adds what it means.
LEMMA MeantFacts ==
  ASSUME NEW p, GoodPlan(p)
  PROVE  MeantInOrder(p.commands)
<1>1. PICK N \in Nat : N = Len(p.commands) /\ DOMAIN p.commands = 1 .. N
  BY SequenceSet DEF GoodPlan, Sequence
<1>2. PICK s : s = [n \in 1 .. N |-> Meant(p.commands[n])]
  OBVIOUS
<1>3. PICK keep : keep = [n \in 1 .. N |-> p.commands[n].type # "noise"]
  OBVIOUS
<1>4. PICK f : f = Selected(s, keep)
  OBVIOUS
<1>5. f = MeantBy(p.commands)
  BY <1>1, <1>2, <1>3, <1>4 DEF MeantBy
<1>6. PICK S : S = {s[n] : n \in 1 .. N}
  OBVIOUS
<1>7. s \in Seq(S) /\ Len(s) = N /\ (\A n \in 1 .. N : s[n] \in S)
      /\ \A n \in 1 .. N : s[n] = Meant(p.commands[n])
  BY <1>2, <1>6
<1>8. Sequence(s)
  BY <1>7, SequenceOf
<1>9. \A n \in 1 .. N : keep[n] <=> p.commands[n].type # "noise"
  BY <1>3
<1> HIDE <1>2, <1>3, <1>6
<1>10. /\ f \in [0 .. N -> Seq(S)] /\ f[0] = <<>>
       /\ \A n \in 1 .. N : /\ keep[n] => f[n] = Append(f[n - 1], s[n])
                            /\ ~keep[n] => f[n] = f[n - 1]
  <2>1. \A n \in 1 .. Len(s) : s[n] \in S
    BY <1>7
  <2>2. /\ f \in [0 .. Len(s) -> Seq(S)] /\ f[0] = <<>>
        /\ \A n \in 1 .. Len(s) : /\ keep[n] => f[n] = Append(f[n - 1], s[n])
                                  /\ ~keep[n] => f[n] = f[n - 1]
    BY <1>4, <1>8, <2>1, SelectedFacts, ZenonT(60)
  <2> QED
    BY <1>7, <2>2, Zenon
<1>11. ASSUME NEW j \in 0 .. N PROVE Sequence(f[j]) /\ Begins(f[j], f[N])
  <2>1. j \in 0 .. Len(s) /\ N \in j .. Len(s)
    BY <1>7
  <2>2. Begins(f[j], f[N])
    BY <1>4, <1>8, <2>1, SelectedGrows
  <2>3. Sequence(f[j])
    BY <1>10, SequenceOf
  <2> QED
    BY <2>2, <2>3
<1>12. \A i \in 1 .. N :
         /\ p.commands[i].type # "noise" => f[i] = Append(f[i - 1], Meant(p.commands[i]))
         /\ p.commands[i].type = "noise" => f[i] = f[i - 1]
  BY <1>7, <1>9, <1>10
<1> QED
  BY <1>1, <1>5, <1>10, <1>11, <1>12 DEF MeantInOrder

-----------------------------------------------------------------------------
(* What ends too early.                                                    *)

\* A beginning is short of the whole.
LEMMA BeginsIsShort ==
  ASSUME NEW s, NEW t, Begins(s, t)
  PROVE  Short(s, t, CutLine) /\ Short(s, t, CutOp) /\ Short(s, t, ShortCommand)
<1>1. DOMAIN s = 1 .. Len(s)
  BY SequenceSet DEF Begins
<1> QED
  BY <1>1 DEF Begins, Short

\* s is as t but for its last element, which is e.
ButLast(s, t, e) ==
  /\ Len(s) <= Len(t) /\ DOMAIN s = 1 .. Len(s) /\ Len(s) \in Nat /\ s[Len(s)] = e
  /\ \A i \in 1 .. Len(s) : i = Len(s) \/ s[i] = t[i]

\* Appending an element of another kind.
LEMMA AppendsLast ==
  ASSUME NEW s, NEW t, NEW e, NEW u, Begins(s, t), Begins(Append(s, u), t)
  PROVE  ButLast(Append(s, e), t, e) /\ t[Len(Append(s, e))] = u
<1>1. Sequence(s) /\ Sequence(t)
  BY DEF Begins
<1>2. PICK n \in Nat : n = Len(s)
  BY <1>1 DEF Sequence
<1>3. PICK v : v = Append(s, e)
  OBVIOUS
<1>4. Sequence(v) /\ Len(v) = n + 1 /\ (\A i \in 1 .. n : v[i] = s[i]) /\ v[n + 1] = e
  BY <1>1, <1>2, <1>3, AppendElement
<1>5. PICK w : w = Append(s, u)
  OBVIOUS
<1>6. Sequence(w) /\ Len(w) = n + 1 /\ w[n + 1] = u
  BY <1>1, <1>2, <1>5, AppendElement
<1>7. n + 1 <= Len(t) /\ w[n + 1] = t[n + 1]
  <2>1. n + 1 \in 1 .. Len(w)
    BY <1>6
  <2> QED
    BY <1>5, <1>6, <2>1 DEF Begins
<1>8. \A i \in 1 .. n + 1 : i = n + 1 \/ i \in 1 .. n
  OBVIOUS
<1>9. \A i \in 1 .. n + 1 : i = n + 1 \/ v[i] = t[i]
  BY <1>2, <1>4, <1>8 DEF Begins
<1>10. DOMAIN v = 1 .. Len(v)
  BY <1>4, SequenceSet
<1> QED
  BY <1>3, <1>4, <1>6, <1>7, <1>9, <1>10 DEF ButLast

\* A command is short of what is meant if its parts are.
LEMMA ShortParts ==
  ASSUME NEW c, NEW h, NEW d, NEW b, Short(h, Meant(c).head, CutLine),
         Short(b, Meant(c).ops, CutOp), d \in {<<>>, Meant(c).data}
  PROVE  ShortCommand(Parsed(c, h, d, b), Meant(c))
<1>1. Meant(c).type = c.type /\ Meant(c).of = c.of
  BY DEF Meant
<1>2. PICK m : m = Meant(c)
  OBVIOUS
<1>3. PICK q : q = Parsed(c, h, d, b)
  OBVIOUS
<1>4. q.type = c.type /\ q.of = c.of /\ q.head = h /\ q.data = d /\ q.ops = b
  BY <1>3 DEF Parsed
<1>5. Short(q.head, m.head, CutLine) /\ Short(q.ops, m.ops, CutOp)
  BY <1>2, <1>4
<1> QED
  BY <1>1, <1>2, <1>3, <1>4, <1>5 DEF ShortCommand

\* A part of a command is short of it.
LEMMA PartIsShort ==
  ASSUME NEW c, NEW sofar, PartOf(sofar, c)
  PROVE  ShortCommand(sofar, Meant(c))
<1>1. Short(sofar.head, Meant(c).head, CutLine) /\ Short(sofar.ops, Meant(c).ops, CutOp)
  BY BeginsIsShort DEF PartOf
<1>2. ShortCommand(Parsed(c, sofar.head, sofar.data, sofar.ops), Meant(c))
  BY <1>1, ShortParts DEF PartOf
<1> QED
  BY <1>2 DEF PartOf

\* So is one whose next header is torn.
LEMMA TornHeader ==
  ASSUME NEW c, NEW sofar, PartOf(sofar, c), NEW line, line = Line(line.k, line.v),
         PartOf([sofar EXCEPT !.head = Append(@, line)], c)
  PROVE  ShortCommand([sofar EXCEPT !.head = Append(@, Line(line.k, Cut))], Meant(c))
<1>1. PICK h : h = sofar.head
  OBVIOUS
<1>2. PICK d : d = sofar.data
  OBVIOUS
<1>3. PICK b : b = sofar.ops
  OBVIOUS
<1>4. sofar = Parsed(c, h, d, b)
  BY <1>1, <1>2, <1>3 DEF PartOf
<1>5. PICK cut : cut = Line(line.k, Cut)
  OBVIOUS
<1>6. [sofar EXCEPT !.head = Append(@, cut)] = Parsed(c, Append(h, cut), d, b)
  BY <1>4, ParsedChanges
<1>7. [sofar EXCEPT !.head = Append(@, line)] = Parsed(c, Append(h, line), d, b)
  BY <1>4, ParsedChanges
<1>8. Parsed(c, Append(h, line), d, b).head = Append(h, line)
  BY DEF Parsed
<1>9. PICK t : t = Meant(c).head
  OBVIOUS
<1>10. Begins(h, t) /\ Begins(Append(h, line), t)
  BY <1>1, <1>7, <1>8, <1>9 DEF PartOf
<1>11. PICK v : v = Append(h, cut)
  OBVIOUS
<1>12. ButLast(v, t, cut) /\ t[Len(v)] = line
  BY <1>10, <1>11, AppendsLast
<1>13. CutLine(cut, line)
  <2>1. PICK k : k = line.k
    OBVIOUS
  <2>2. PICK v0 : v0 = line.v
    OBVIOUS
  <2>3. line = [k |-> k, v |-> v0] /\ cut = [k |-> k, v |-> Cut]
    BY <1>5, <2>1, <2>2 DEF Line
  <2>4. cut = [line EXCEPT !.v = Cut]
    BY <2>3
  <2> QED
    BY <2>4 DEF CutLine
<1>14. Short(v, t, CutLine)
  BY <1>12, <1>13 DEF Short, ButLast
<1>15. Short(b, Meant(c).ops, CutOp) /\ d \in {<<>>, Meant(c).data}
  BY <1>2, <1>3, BeginsIsShort DEF PartOf
<1>16. ShortCommand(Parsed(c, v, d, b), Meant(c))
  BY <1>9, <1>14, <1>15, ShortParts
<1> QED
  BY <1>5, <1>6, <1>11, <1>16

\* So is one whose next file change is torn.
LEMMA TornOp ==
  ASSUME NEW c, NEW sofar, PartOf(sofar, c), NEW op, NEW cut, CutOp(cut, op),
         PartOf([sofar EXCEPT !.ops = Append(@, op)], c)
  PROVE  ShortCommand([sofar EXCEPT !.ops = Append(@, cut)], Meant(c))
<1>1. PICK h : h = sofar.head
  OBVIOUS
<1>2. PICK d : d = sofar.data
  OBVIOUS
<1>3. PICK b : b = sofar.ops
  OBVIOUS
<1>4. sofar = Parsed(c, h, d, b)
  BY <1>1, <1>2, <1>3 DEF PartOf
<1>5. [sofar EXCEPT !.ops = Append(@, cut)] = Parsed(c, h, d, Append(b, cut))
  BY <1>4, ParsedChanges
<1>6. [sofar EXCEPT !.ops = Append(@, op)] = Parsed(c, h, d, Append(b, op))
  BY <1>4, ParsedChanges
<1>7. Parsed(c, h, d, Append(b, op)).ops = Append(b, op)
  BY DEF Parsed
<1>8. PICK t : t = Meant(c).ops
  OBVIOUS
<1>9. Begins(b, t) /\ Begins(Append(b, op), t)
  BY <1>3, <1>6, <1>7, <1>8 DEF PartOf
<1>10. PICK v : v = Append(b, cut)
  OBVIOUS
<1>11. ButLast(v, t, cut) /\ t[Len(v)] = op
  BY <1>9, <1>10, AppendsLast
<1>12. Short(v, t, CutOp)
  BY <1>11 DEF Short, ButLast
<1>13. Short(h, Meant(c).head, CutLine) /\ d \in {<<>>, Meant(c).data}
  BY <1>1, <1>2, BeginsIsShort DEF PartOf
<1>14. ShortCommand(Parsed(c, h, d, v), Meant(c))
  BY <1>8, <1>12, <1>13, ShortParts
<1> QED
  BY <1>5, <1>10, <1>14

\* So is one of which there is no more than its torn first line.
LEMMA TornFirst ==
  ASSUME NEW c, GoodCommand(c)
  PROVE  ShortCommand([type |-> c.type, of |-> Cut, head |-> <<>>, data |-> <<>>, ops |-> <<>>],
                      Meant(c))
<1>1. InBody("git", c, 1, Parsed(c, <<>>, <<>>, <<>>))
  BY BodyStart
<1>2. PartOf(Parsed(c, <<>>, <<>>, <<>>), c)
  BY <1>1, BodyUnits DEF BodyStep
<1>3. ShortCommand(Parsed(c, <<>>, <<>>, <<>>), Meant(c))
  BY <1>2, PartIsShort
<1>4. PICK q : q = Parsed(c, <<>>, <<>>, <<>>)
  OBVIOUS
<1>5. PICK r : r = [type |-> c.type, of |-> Cut, head |-> <<>>, data |-> <<>>, ops |-> <<>>]
  OBVIOUS
<1>6. q.type = c.type /\ q.head = <<>> /\ q.data = <<>> /\ q.ops = <<>>
  BY <1>4 DEF Parsed
<1>7. r.type = c.type /\ r.head = <<>> /\ r.data = <<>> /\ r.ops = <<>> /\ r.of = Cut
  BY <1>5
<1>8. r.type = q.type /\ r.head = q.head /\ r.data = q.data /\ r.ops = q.ops
  BY <1>6, <1>7
<1>9. PICK m : m = Meant(c)
  OBVIOUS
<1>10. /\ q.type = m.type /\ Short(q.head, m.head, CutLine) /\ Short(q.ops, m.ops, CutOp)
       /\ q.data \in {<<>>, m.data}
  BY <1>3, <1>4, <1>9 DEF ShortCommand
<1>11. Short(r.head, m.head, CutLine) /\ Short(r.ops, m.ops, CutOp)
  BY <1>8, <1>10
<1>12. ShortCommand(r, m)
  BY <1>7, <1>8, <1>10, <1>11 DEF ShortCommand
<1> QED
  BY <1>5, <1>9, <1>12

\* Commands of which the last is short.
LEMMA ShortLast ==
  ASSUME NEW s, NEW t, NEW e, NEW u, Begins(s, t), Begins(Append(s, u), t), ShortCommand(e, u)
  PROVE  Short(Append(s, e), t, ShortCommand)
<1>1. PICK v : v = Append(s, e)
  BY Zenon
<1>2. ButLast(v, t, e) /\ t[Len(v)] = u
  BY <1>1, AppendsLast
<1>3. Short(v, t, ShortCommand)
  BY <1>2, Zenon DEF Short, ButLast
<1> QED
  BY <1>1, <1>3

-----------------------------------------------------------------------------
(* Paths and file changes.                                                 *)

\* Unquoting undoes quoting, git's and the generator's.
LEMMA QuoteFacts ==
  ASSUME NEW writer, NEW path, GoodPath(path)
  PROVE  UnquotePath(QuotePath(writer, path)) = path /\ QuotePath(writer, path) # Cut
<1>1. PICK n : n = path.name
  OBVIOUS
<1>2. PICK q \in Nat : q = path.quotes
  BY DEF GoodPath
<1>3. path = [name |-> n, quotes |-> q]
  BY <1>1, <1>2 DEF GoodPath
<1>4. Quoted(path) = [name |-> n, quotes |-> q + 1]
  BY <1>3 DEF Quoted
<1>5. UnquotePath(Quoted(path)) = path
  <2>1. PICK r : r = Quoted(path)
    OBVIOUS
  <2>2. r.quotes = q + 1 /\ r.quotes > 0
    BY <1>4, <2>1
  <2>3. [r EXCEPT !.quotes = @ - 1] = [name |-> n, quotes |-> q + 1 - 1]
    BY <1>4, <2>1
  <2>4. q + 1 - 1 = q
    OBVIOUS
  <2> QED
    BY <1>3, <2>1, <2>2, <2>3, <2>4 DEF UnquotePath
<1>6. ~NeedsQuoting(path) => UnquotePath(path) = path
  BY <1>2 DEF NeedsQuoting, UnquotePath
<1>7. QuotePath(writer, path) = Quoted(path)
      \/ (QuotePath(writer, path) = path /\ ~NeedsQuoting(path))
  BY DEF QuotePath
<1> QED
  BY <1>5, <1>6, <1>7 DEF GoodPath

\* What is parsed of the line of a file change, whole or torn.
LEMMA ModifyFacts ==
  ASSUME NEW writer, NEW op, GoodOp(op), op.k = "M", NEW v,
         v = [ref |-> op.ref, mode |-> op.mode, path |-> QuotePath(writer, op.path)]
  PROVE  /\ v.ref = op.ref /\ v.mode = op.mode /\ v.mode # Cut /\ v.path # Cut
         /\ Modify(v.ref, v.mode, UnquotePath(v.path), op.data) = op
         /\ Sequence(op.data)
         /\ op.ref # "inline" => op.data = <<>> /\ CutOp(Modify(op.ref, op.mode, Cut, <<>>), op)
         /\ op.mode = "gitlink" => op.ref # "inline"
         /\ [v EXCEPT !.mode = Cut].mode = Cut
         /\ LET w == [v EXCEPT !.path = Cut]
            IN  w.ref = op.ref /\ w.mode = op.mode /\ w.path = Cut
<1>1. op # Delete(op.path)
  BY DEF Delete
<1>2. /\ op = Modify(op.ref, op.mode, op.path, op.data) /\ op.mode # Cut /\ Sequence(op.data)
      /\ op.ref # "inline" => op.data = <<>>
      /\ op.mode = "gitlink" => op.ref # "inline"
  BY <1>1 DEF GoodOp
<1>3. UnquotePath(QuotePath(writer, op.path)) = op.path /\ QuotePath(writer, op.path) # Cut
  BY QuoteFacts DEF GoodOp
<1>4. PICK r : r = op.ref
  OBVIOUS
<1>5. PICK m : m = op.mode
  OBVIOUS
<1>6. PICK q : q = QuotePath(writer, op.path)
  OBVIOUS
<1>7. v = [ref |-> r, mode |-> m, path |-> q]
  BY <1>4, <1>5, <1>6
<1>8. v.ref = r /\ v.mode = m /\ v.path = q
  BY <1>7
<1>9. [v EXCEPT !.mode = Cut] = [ref |-> r, mode |-> Cut, path |-> q]
      /\ [v EXCEPT !.path = Cut] = [ref |-> r, mode |-> m, path |-> Cut]
  BY <1>7
<1>10. /\ [v EXCEPT !.mode = Cut].mode = Cut
       /\ [v EXCEPT !.path = Cut].ref = r /\ [v EXCEPT !.path = Cut].mode = m
       /\ [v EXCEPT !.path = Cut].path = Cut
  BY <1>9
<1>11. op.ref # "inline" => CutOp(Modify(op.ref, op.mode, Cut, <<>>), op)
  <2>1. SUFFICES ASSUME op.ref # "inline"
                 PROVE  CutOp(Modify(op.ref, op.mode, Cut, <<>>), op)
    OBVIOUS
  <2>2. PICK y : y = op.path
    OBVIOUS
  <2>3. op = [k |-> "M", ref |-> r, mode |-> m, path |-> y, data |-> <<>>]
    BY <1>2, <1>4, <1>5, <2>1, <2>2 DEF Modify
  <2>4. [op EXCEPT !.path = Cut] = [k |-> "M", ref |-> r, mode |-> m, path |-> Cut, data |-> <<>>]
    BY <2>3
  <2> QED
    BY <1>4, <1>5, <2>4 DEF Modify, CutOp
<1> QED
  BY <1>2, <1>3, <1>4, <1>5, <1>6, <1>8, <1>10, <1>11

\* The same for deletions.
LEMMA DeleteFacts ==
  ASSUME NEW writer, NEW op, GoodOp(op), op.k = "D"
  PROVE  /\ Delete(UnquotePath(QuotePath(writer, op.path))) = op
         /\ QuotePath(writer, op.path) # Cut
         /\ CutOp(Delete(Cut), op)
<1>1. op = Delete(op.path)
  BY DEF GoodOp, Modify
<1>2. UnquotePath(QuotePath(writer, op.path)) = op.path /\ QuotePath(writer, op.path) # Cut
  BY QuoteFacts DEF GoodOp
<1>3. PICK y : y = op.path
  OBVIOUS
<1>4. op = [k |-> "D", path |-> y]
  BY <1>1, <1>3 DEF Delete
<1>5. [op EXCEPT !.path = Cut] = [k |-> "D", path |-> Cut]
  BY <1>4
<1> QED
  BY <1>1, <1>2, <1>5 DEF CutOp, Delete

-----------------------------------------------------------------------------
(* The parser in a command.                                                *)

\* After x of the lines L of the i-th command sofar is parsed of it; at units
\* are used in all.
Standing(p, i, at, sofar, x, L) ==
  /\ GoodCommand(p.commands[i]) /\ L = Lines(p.writer, p.commands[i])
  /\ BodyStep(p.writer, p.commands[i], x, sofar)
  /\ Sequence(L) /\ Len(L) \in Nat /\ x \in 1 .. Len(L) /\ at \in Nat
  /\ Past(p)[i - 1] \in Nat /\ at = Past(p)[i - 1] + x
  /\ Past(p)[i] = Past(p)[i - 1] + Len(L) /\ Past(p)[i] < Size(p)
  /\ \A y \in 1 .. Len(L) - x : Unit(p, at + y) = L[x + y]
  /\ x = Len(L) => at = Past(p)[i] /\ Unit(p, at + 1).k \in Types \cup {"text", "done"}

\* That is where it stands.
LEMMA Stands ==
  ASSUME NEW p, GoodPlan(p), NEW i \in 1 .. Len(p.commands), p.commands[i].type # "noise",
         NEW at \in Nat, NEW sofar,
         InBody(p.writer, p.commands[i], at - Past(p)[i - 1], sofar)
  PROVE  Standing(p, i, at, sofar, at - Past(p)[i - 1], LinesAt(p, i))
<1>1. PICK L : L = LinesAt(p, i)
  OBVIOUS
<1>2. PICK x : x = at - Past(p)[i - 1]
  OBVIOUS
<1>3. GoodCommand(p.commands[i]) /\ L = Lines(p.writer, p.commands[i])
  BY <1>1, LinesOf DEF LinesAt
<1>4. InText(p, i, L)
  BY <1>1, CommandInText
<1>5. PICK b \in Nat : b = Past(p)[i - 1]
  BY <1>4 DEF InText
<1>6. BodyStep(p.writer, p.commands[i], x, sofar)
  BY <1>2, <1>3, BodyUnits
<1>7. PICK l \in Nat : l = Len(L)
  BY <1>4 DEF InText, Sequence
<1>8. x \in 1 .. l
  BY <1>3, <1>6, <1>7 DEF BodyStep
<1>9. at = b + x
  BY <1>2, <1>5
<1>10. /\ Past(p)[i] = b + l /\ Past(p)[i] < Size(p) /\ Sequence(L)
       /\ \A q \in 1 .. l : Unit(p, b + q) = L[q]
  BY <1>4, <1>5, <1>7 DEF InText
<1>11. \A y \in 1 .. l - x : Unit(p, at + y) = L[x + y]
  <2>1. \A y \in 1 .. l - x : x + y \in 1 .. l /\ b + (x + y) = at + y
    BY <1>8, <1>9
  <2> QED
    BY <1>10, <2>1
<1>12. x = l => at = Past(p)[i] /\ Unit(p, at + 1).k \in Types \cup {"text", "done"}
  <2>1. i \in 0 .. Len(p.commands)
    BY DEF GoodPlan, Sequence
  <2>2. Unit(p, Past(p)[i] + 1).k \in Types \cup {"text", "done"}
    BY <2>1, FollowingKeys
  <2> QED
    BY <1>9, <1>10, <2>2
<1>13. Standing(p, i, at, sofar, x, L)
  BY <1>3, <1>5, <1>6, <1>7, <1>8, <1>9, <1>10, <1>11, <1>12 DEF Standing
<1> QED
  BY <1>1, <1>2, <1>13

\* The same of the state, where m units are written.
Here(m, at, i, x, L) ==
  /\ GoodPlan(plan) /\ m \in 0 .. Size(plan) + 2 /\ at \in 0 .. m /\ Size(plan) \in Nat
  /\ Tape(m, at) /\ (plan.waits => m <= Size(plan) + answered)
  /\ pc = "body" /\ answered = 0 /\ i \in 1 .. Count /\ out = MeantOf(i - 1)
  /\ plan.commands[i].type # "noise"
  /\ Standing(plan, i, at, cur, x, L)

\* The state has such a place.
LEMMA IsHere ==
  ASSUME GoodPlan(plan), NEW m \in 0 .. Size(plan) + 2, NEW at \in 0 .. m,
         Sound(m, at), AtBody(at)
  PROVE  \E i : \E x : \E L : Here(m, at, i, x, L)
<1>1. PICK i \in 1 .. Count :
        /\ plan.commands[i].type # "noise" /\ out = MeantOf(i - 1)
        /\ InBody(plan.writer, plan.commands[i], at - Past(plan)[i - 1], cur)
  BY DEF AtBody
<1>2. Size(plan) \in Nat
  BY TextFacts DEF TextLaid
<1>3. at \in Nat
  BY <1>2
<1>4. Standing(plan, i, at, cur, at - Past(plan)[i - 1], LinesAt(plan, i))
  BY <1>1, <1>3, Stands DEF Count
<1>5. Here(m, at, i, at - Past(plan)[i - 1], LinesAt(plan, i))
  BY <1>1, <1>2, <1>4 DEF Here, Sound, AtBody
<1> QED
  BY <1>5

\* The parser goes on by d units in the command.
LEMMA BodyGoesOn ==
  ASSUME NEW m, NEW at, NEW i, NEW x, NEW L, Here(m, at, i, x, L),
         UNCHANGED <<git, pipe, answered, out>>, pc' = "body",
         NEW d \in Nat, d <= Len(ahead), at + d <= m, ahead' = SubSeq(ahead, d + 1, Len(ahead)),
         NEW then, InBody(plan.writer, plan.commands[i], x + d, then), cur' = then
  PROVE  Fine'
<1>1. plan' = plan /\ turns' = turns /\ flow' = flow /\ pipe' = pipe /\ answered' = answered /\ out' = out
  BY DEF git
<1>2. m \in Nat /\ at \in Nat /\ Size(plan) \in Nat
  BY DEF Here
<1>3. d \in 0 .. Len(ahead)
  BY DEF Here, Tape, TapeOf, Sequence
<1>4. TapeOf(plan, turns, flow, SubSeq(ahead, d + 1, Len(ahead)), pipe, m, at + d)
  BY <1>2, <1>3, Used DEF Here, Tape
<1>5. Tape(m, at + d)'
  BY <1>1, <1>4 DEF Tape
<1>6. (at + d) - Past(plan)[i - 1] = x + d
  <2>1. PICK b \in Nat : b = Past(plan)[i - 1]
    BY DEF Here, Standing
  <2>2. at = b + x /\ x \in Nat
    BY <2>1 DEF Here, Standing
  <2> QED
    BY <2>1, <2>2
<1>7. AtBody(at + d)'
  <2>1. pc' = "body" /\ answered' = 0
    BY <1>1 DEF Here
  <2>2. i \in 1 .. Count' /\ out' = MeantOf(i - 1)' /\ plan'.commands[i].type # "noise"
    BY <1>1 DEF Here, Count, MeantOf
  <2>3. InBody(plan'.writer, plan'.commands[i], (at + d) - Past(plan')[i - 1], cur')
    BY <1>1, <1>6
  <2> QED
    BY <2>1, <2>2, <2>3 DEF AtBody
<1>8. Sound(m, at + d)'
  BY <1>1, <1>5, <1>7 DEF Sound, Here
<1>9. at + d \in 0 .. m /\ m \in 0 .. Size(plan) + 2
  BY <1>2 DEF Here
<1> QED
  BY <1>1, <1>8, <1>9 DEF Fine

\* The parser is through with the command, d units later.
LEMMA CommandEnds ==
  ASSUME NEW m, NEW at, NEW i, NEW x, NEW L, Here(m, at, i, x, L),
         UNCHANGED <<git, pipe, answered>>, pc' = "next",
         NEW d \in Nat, d <= Len(ahead), at + d <= m, ahead' = SubSeq(ahead, d + 1, Len(ahead)),
         out' = Append(out, Meant(plan.commands[i])), Between(plan, i, at + d)
  PROVE  Fine'
<1>1. plan' = plan /\ turns' = turns /\ flow' = flow /\ pipe' = pipe /\ answered' = answered
  BY DEF git
<1>2. m \in Nat /\ at \in Nat /\ Size(plan) \in Nat
  BY DEF Here
<1>3. d \in 0 .. Len(ahead)
  BY DEF Here, Tape, TapeOf, Sequence
<1>4. TapeOf(plan, turns, flow, SubSeq(ahead, d + 1, Len(ahead)), pipe, m, at + d)
  BY <1>2, <1>3, Used DEF Here, Tape
<1>5. Tape(m, at + d)'
  BY <1>1, <1>4 DEF Tape
<1>6. out' = MeantOf(i)
  <2>1. MeantInOrder(plan.commands)
    BY MeantFacts DEF Here
  <2> QED
    BY <2>1 DEF Here, MeantInOrder, MeantOf, Count
<1>7. AtNext(at + d)'
  <2>1. pc' = "next" /\ answered' = 0
    BY <1>1 DEF Here
  <2>2. i \in 0 .. Count' /\ out' = MeantOf(i)'
    BY <1>1, <1>6 DEF Here, Count, MeantOf, GoodPlan, Sequence
  <2>3. Between(plan', i, at + d)
    BY <1>1
  <2> QED
    BY <2>1, <2>2, <2>3 DEF AtNext
<1>8. Sound(m, at + d)'
  BY <1>1, <1>5, <1>7 DEF Sound, Here
<1>9. at + d \in 0 .. m /\ m \in 0 .. Size(plan) + 2
  BY <1>2, SMTT(60) DEF Here
<1> QED
  BY <1>1, <1>8, <1>9 DEF Fine

\* The stream breaks off in the command.
LEMMA BreaksOff ==
  ASSUME NEW m, NEW at, NEW i, NEW x, NEW L, Here(m, at, i, x, L), m < Size(plan),
         flow # "open", pipe = <<>>, UNCHANGED <<git, pipe, answered>>,
         \/ pc' = "body" /\ ahead' = <<>> /\ out' = out /\ ShortCommand(cur', Meant(plan.commands[i]))
         \/ /\ pc' = "next" /\ Sequence(ahead') /\ (\A a \in DOMAIN ahead' : Idle(ahead'[a]))
            /\ \E c : out' = Append(out, c) /\ ShortCommand(c, Meant(plan.commands[i]))
         \/ pc' = "failed" /\ out' = out
  PROVE  Fine'
<1>1. plan' = plan /\ turns' = turns /\ flow' = flow /\ pipe' = pipe /\ answered' = answered
  BY DEF git
<1>2. m \in 0 .. Size(plan) + 2 /\ Size(plan) \in Nat /\ GoodPlan(plan) /\ turns = Left(plan, m)
  BY DEF Here, Tape, TapeOf
<1>3. Len(turns) = 3 /\ turns # <<>>
  BY <1>2, LeftFacts
<1>4. Died' /\ pipe' = <<>> /\ Len(turns') = 3
  BY <1>1, <1>3 DEF Died
<1>5. PICK t : t = MeantOf(Count)
  OBVIOUS
<1>6. t = MeantOf(Count)'
  BY <1>1, <1>5 DEF MeantOf, Count
<1>7. Begins(out, t) /\ Begins(Append(out, Meant(plan.commands[i])), t)
  <2>1. MeantInOrder(plan.commands)
    BY <1>2, MeantFacts
  <2>2. /\ i \in 1 .. Len(plan.commands) /\ out = MeantBy(plan.commands)[i - 1]
        /\ plan.commands[i].type # "noise" /\ t = MeantBy(plan.commands)[Len(plan.commands)]
    BY <1>5 DEF Here, Count, MeantOf
  <2>3. i \in 0 .. Len(plan.commands) /\ i - 1 \in 0 .. Len(plan.commands)
    BY <1>2, <2>2, SMTT(60) DEF GoodPlan, Sequence
  <2>4. MeantBy(plan.commands)[i] = Append(out, Meant(plan.commands[i]))
    BY <2>1, <2>2 DEF MeantInOrder
  <2>5. Begins(MeantBy(plan.commands)[i], t) /\ Begins(MeantBy(plan.commands)[i - 1], t)
    BY <2>1, <2>2, <2>3 DEF MeantInOrder
  <2> QED
    BY <2>2, <2>4, <2>5
<1>8. answered' = 0
  BY <1>1 DEF Here
<1>9. CASE /\ pc' = "body" /\ ahead' = <<>> /\ out' = out
           /\ ShortCommand(cur', Meant(plan.commands[i]))
  <2>1. Short(out', t, ShortCommand)
    BY <1>7, <1>9, BeginsIsShort
  <2>2. i \in 1 .. Count' /\ plan'.commands[i].type # "noise" /\ out' = MeantOf(i - 1)'
        /\ ShortCommand(cur', Meant(plan'.commands[i]))
    BY <1>1, <1>9 DEF Here, Count, MeantOf
  <2>3. answered' <= 0
    BY <1>8
  <2>4. Broken'
    BY <1>4, <1>6, <1>9, <2>1, <2>2, <2>3 DEF Broken
  <2> QED
    BY <2>4 DEF Fine
<1>10. CASE /\ pc' = "next" /\ Sequence(ahead') /\ (\A a \in DOMAIN ahead' : Idle(ahead'[a]))
            /\ \E c : out' = Append(out, c) /\ ShortCommand(c, Meant(plan.commands[i]))
  <2>1. Short(out', t, ShortCommand)
    BY <1>7, <1>10, ShortLast
  <2>2. answered' <= 0
    BY <1>8
  <2>3. Broken'
    BY <1>4, <1>6, <1>10, <2>1, <2>2 DEF Broken
  <2> QED
    BY <2>3 DEF Fine
<1>11. CASE pc' = "failed" /\ out' = out
  <2>1. Short(out', t, ShortCommand)
    BY <1>7, <1>11, BeginsIsShort
  <2>2. answered' <= 2
    BY <1>8
  <2>3. Broken'
    BY <1>4, <1>6, <1>11, <2>1, <2>2 DEF Broken
  <2> QED
    BY <2>3 DEF Fine
<1> QED
  BY <1>9, <1>10, <1>11

\* The line that comes next is the one that was written, or what is left of it.
WholeLine(m, at) ==
  /\ at + 1 <= m /\ ahead # <<>> /\ Sequence(ahead) /\ Len(ahead) \in Nat /\ Len(ahead) >= 1
  /\ ThisLine = Unit(plan, at + 1) /\ ahead[1] = ThisLine
  /\ Rest(ahead) = SubSeq(ahead, 1 + 1, Len(ahead)) /\ Tail(ahead) = SubSeq(ahead, 1 + 1, Len(ahead))

TornLine(m, at) ==
  /\ at = m /\ flow = "torn" /\ pipe = <<>> /\ ahead # <<>> /\ Len(ahead) = 1
  /\ DOMAIN ahead = 1 .. 1 /\ ahead[1] = ThisLine
  /\ ThisLine \in CutForms(Unit(plan, at + 1)) /\ Unit(plan, at + 1).k # "blank"
  /\ Rest(ahead) = <<>> /\ Tail(ahead) = <<>>

\* The next line.
LEMMA NextLine ==
  ASSUME NEW m \in Nat, NEW at \in Nat, Tape(m, at), Unit(plan, at + 1).k # "piece", HasLine
  PROVE  WholeLine(m, at) \/ TornLine(m, at)
<1>1. TapeOf(plan, turns, flow, ahead, pipe, m, at) /\ Sequence(ahead)
  BY DEF Tape, TapeOf
<1>2. PICK r \in Nat : r = Len(ahead)
  BY <1>1 DEF Sequence
<1>3. ahead # <<>> /\ r >= 1
  <2>1. ahead # <<>>
    BY DEF HasLine
  <2>2. r # 0
    BY <1>1, <1>2, <2>1, ShortSequences
  <2> QED
    BY <1>2, <2>1, <2>2
<1>4. 1 \in 1 .. Len(ahead)
  BY <1>2, <1>3
<1>5. \/ at + 1 <= m /\ ahead[1] = Unit(plan, at + 1)
      \/ /\ at + 1 = m + 1 /\ flow = "torn" /\ pipe = <<>> /\ 1 = Len(ahead)
         /\ ahead[1] \in CutForms(Unit(plan, m + 1))
         /\ Unit(plan, m + 1).k \notin {"blank", "piece"}
  <2>1. PICK a \in 1 .. Len(ahead) : a = 1
    BY <1>4
  <2>2. ReadAs(plan, flow, ahead, pipe, m, at, a)
    BY <1>1, ReadUnit
  <2>3. 1 = Len(ahead) <=> a = Len(ahead)
    BY <2>1
  <2> QED
    BY <2>1, <2>2, <2>3 DEF ReadAs
<1>6. ahead[1].k # "piece"
  <2>1. \A k, v : Line(k, v).k = k
    BY DEF Line
  <2>2. ASSUME NEW u \in CutForms(Unit(plan, m + 1))
        PROVE  u.k = "text" \/ u.k = Unit(plan, m + 1).k
    <3>1. PICK w : w = Unit(plan, m + 1)
      OBVIOUS
    <3>2. u = Text \/ u = Line(w.k, Cut) \/ (w.k = "M" /\ \E v : u = Line("M", v))
      BY <3>1, CutFacts
    <3> QED
      BY <2>1, <3>1, <3>2 DEF Text
  <2> QED
    BY <1>5, <2>2
<1>7. ThisLine = ahead[1]
  BY <1>3, <1>6 DEF ThisLine
<1>8. Rest(ahead) = SubSeq(ahead, 1 + 1, Len(ahead))
  <2>1. ~(\A i \in 1 .. Len(ahead) : ahead[i].k = "piece")
    BY <1>4, <1>6
  <2>2. PICK n \in 1 .. Len(ahead) :
          /\ Rest(ahead) = SubSeq(ahead, n + 1, Len(ahead)) /\ ahead[n].k # "piece"
          /\ \A j \in 1 .. n - 1 : ahead[j].k = "piece"
    BY <1>1, <2>1, RestFacts
  <2>3. n = 1 \/ 1 \in 1 .. n - 1
    BY <1>2
  <2> QED
    BY <1>6, <2>2, <2>3
<1>9. Tail(ahead) = SubSeq(ahead, 1 + 1, Len(ahead))
  <2>1. Len(ahead) > 0 /\ 1 + 1 = 2
    BY <1>2, <1>3
  <2> QED
    BY <1>1, <2>1, TailFacts
<1>10. CASE at + 1 <= m /\ ahead[1] = Unit(plan, at + 1)
  BY <1>1, <1>2, <1>3, <1>7, <1>8, <1>9, <1>10 DEF WholeLine
<1>11. CASE /\ at + 1 = m + 1 /\ flow = "torn" /\ pipe = <<>> /\ 1 = Len(ahead)
            /\ ahead[1] \in CutForms(Unit(plan, m + 1))
            /\ Unit(plan, m + 1).k \notin {"blank", "piece"}
  <2>1. at = m
    BY <1>11
  <2>2. DOMAIN ahead = 1 .. 1
    BY <1>1, <1>11, SequenceSet
  <2>3. Tail(ahead) = <<>>
    <3>1. Len(ahead) > 0
      BY <1>2, <1>3
    <3>2. Sequence(Tail(ahead)) /\ Len(Tail(ahead)) = Len(ahead) - 1
      BY <1>1, <3>1, TailFacts
    <3>3. Len(Tail(ahead)) = 0
      BY <1>11, <3>2
    <3> QED
      BY <3>2, <3>3, ShortSequences
  <2> QED
    BY <1>3, <1>7, <1>8, <1>9, <1>11, <2>1, <2>2, <2>3 DEF TornLine
<1> QED
  BY <1>5, <1>10, <1>11


-----------------------------------------------------------------------------
(* What comes next in a command, and reading data.                         *)

\* Dropping once more.
LEMMA DropMore ==
  ASSUME NEW s, Sequence(s), NEW d \in 0 .. Len(s)
  PROVE  /\ SubSeq(s, d + 1, Len(s)) # <<>> <=> d < Len(s)
         /\ d < Len(s) => /\ SubSeq(s, d + 1, Len(s))[1] = s[d + 1]
                          /\ Tail(SubSeq(s, d + 1, Len(s))) = SubSeq(s, (d + 1) + 1, Len(s))
<1>1. PICK r \in Nat : r = Len(s)
  BY DEF Sequence
<1>2. PICK u : u = SubSeq(s, d + 1, r)
  OBVIOUS
<1>3. PICK m \in Nat : m = d + 1 /\ 1 <= m
  BY <1>1
<1>4. /\ Sequence(u) /\ Len(u) = IF r < m THEN 0 ELSE r - m + 1
      /\ \A i \in 1 .. Len(u) : u[i] = s[m + i - 1]
  BY <1>1, <1>2, <1>3, PartFacts
<1>5. Len(u) = r - d
  BY <1>1, <1>3, <1>4
<1>6. u # <<>> <=> d < r
  BY <1>1, <1>4, <1>5, ShortSequences
<1>7. ASSUME d < r
      PROVE  u[1] = s[d + 1] /\ Tail(u) = SubSeq(s, (d + 1) + 1, r)
  <2>1. u[1] = s[d + 1]
    <3>1. 1 \in 1 .. Len(u) /\ m + 1 - 1 = d + 1
      BY <1>1, <1>3, <1>5, <1>7
    <3>2. u[1] = s[m + 1 - 1]
      BY <1>4, <3>1
    <3> QED
      BY <3>1, <3>2
  <2>2. PICK v : v = SubSeq(s, m + 1, r)
    OBVIOUS
  <2>3. PICK k \in Nat : k = m + 1 /\ 1 <= k
    BY <1>3
  <2>4. /\ Sequence(v) /\ Len(v) = IF r < k THEN 0 ELSE r - k + 1
        /\ \A i \in 1 .. Len(v) : v[i] = s[k + i - 1]
    BY <1>1, <2>2, <2>3, PartFacts
  <2>5. PICK w : w = Tail(u)
    OBVIOUS
  <2>6. Sequence(w) /\ Len(w) = Len(u) - 1 /\ \A i \in 1 .. Len(u) - 1 : w[i] = u[i + 1]
    BY <1>1, <1>4, <1>5, <1>7, <2>5, TailFacts
  <2>7. Len(w) = Len(v)
    BY <1>1, <1>3, <1>5, <1>7, <2>3, <2>4, <2>6
  <2>8. ASSUME NEW i \in 1 .. Len(w) PROVE w[i] = v[i]
    <3>1. i \in 1 .. Len(v) /\ i \in 1 .. Len(u) - 1 /\ i + 1 \in 1 .. Len(u)
      BY <1>1, <1>5, <2>6, <2>7
    <3>2. m + (i + 1) - 1 = k + i - 1
      BY <1>3, <2>3
    <3>3. w[i] = u[i + 1] /\ v[i] = s[k + i - 1]
      BY <2>4, <2>6, <3>1
    <3>4. u[i + 1] = s[m + (i + 1) - 1]
      BY <1>4, <3>1
    <3> QED
      BY <3>2, <3>3, <3>4
  <2>9. w = v
    BY <2>4, <2>6, <2>7, <2>8, SameSequence
  <2> QED
    BY <1>3, <2>1, <2>2, <2>5, <2>9
<1> QED
  BY <1>1, <1>2, <1>6, <1>7

\* Dropping from what is left after the first element.
LEMMA DropFromTail ==
  ASSUME NEW s, Sequence(s), Len(s) > 0, NEW d \in 0 .. Len(s) - 1
  PROVE  SubSeq(Tail(s), d + 1, Len(Tail(s))) = SubSeq(s, (d + 1) + 1, Len(s))
<1>1. PICK r \in Nat : r = Len(s)
  BY DEF Sequence
<1>2. PICK t : t = Tail(s)
  OBVIOUS
<1>3. Sequence(t) /\ Len(t) = r - 1 /\ \A i \in 1 .. r - 1 : t[i] = s[i + 1]
  BY <1>1, <1>2, TailFacts
<1>4. PICK q \in Nat : q = r - 1
  BY <1>1
<1>5. PICK m \in Nat : m = d + 1 /\ 1 <= m
  BY <1>1
<1>6. PICK u : u = SubSeq(t, m, q)
  OBVIOUS
<1>7. /\ Sequence(u) /\ Len(u) = IF q < m THEN 0 ELSE q - m + 1
      /\ \A i \in 1 .. Len(u) : u[i] = t[m + i - 1]
  BY <1>3, <1>4, <1>5, <1>6, PartFacts
<1>8. PICK k \in Nat : k = m + 1 /\ 1 <= k
  BY <1>5
<1>9. PICK v : v = SubSeq(s, k, r)
  OBVIOUS
<1>10. /\ Sequence(v) /\ Len(v) = IF r < k THEN 0 ELSE r - k + 1
       /\ \A i \in 1 .. Len(v) : v[i] = s[k + i - 1]
  BY <1>1, <1>8, <1>9, PartFacts
<1>11. Len(u) = Len(v) /\ Len(u) = r - 1 - d
  BY <1>1, <1>4, <1>5, <1>7, <1>8, <1>10
<1>12. ASSUME NEW i \in 1 .. Len(u) PROVE u[i] = v[i]
  <2>1. m + i - 1 \in 1 .. r - 1 /\ (m + i - 1) + 1 = k + i - 1
    BY <1>1, <1>5, <1>8, <1>11
  <2>2. u[i] = t[m + i - 1] /\ v[i] = s[k + i - 1]
    BY <1>7, <1>10, <1>11
  <2> QED
    BY <1>3, <2>1, <2>2
<1>13. u = v
  BY <1>7, <1>10, <1>11, <1>12, SameSequence
<1> QED
  BY <1>1, <1>2, <1>3, <1>4, <1>5, <1>6, <1>8, <1>9, <1>13

\* The n units after the data line are read; a newline may follow them.
DataIs(s, m, at, n, data) ==
  /\ DataOf(s) = data
  /\ \/ at + (n + 1) <= m /\ n + 1 <= Len(s) /\ AfterData(s) = SubSeq(s, (n + 1) + 1, Len(s))
     \/ /\ at + (n + 2) <= m /\ n + 2 <= Len(s) /\ AfterData(s) = SubSeq(s, (n + 2) + 1, Len(s))
        /\ Unit(plan, at + (n + 2)).k = "blank"

\* What readData gives is what was written.
LEMMA DataRead ==
  ASSUME NEW s, NEW m \in Nat, NEW at \in Nat, TapeOf(plan, turns, flow, s, pipe, m, at),
         DataGood(s), NEW data, Sequence(data), NEW n \in Nat, n = Len(data),
         Unit(plan, at + 1) = Line("data", n),
         \A q \in 1 .. n : Unit(plan, at + 1 + q) = data[q]
  PROVE  DataIs(s, m, at, n, data)
<1>1. PICK r \in Nat : r = Len(s) /\ Sequence(s)
  BY DEF TapeOf, Sequence
<1>2. s # <<>> /\ r > 0
  <2>1. r # 0
    BY <1>1, ShortSequences DEF DataGood
  <2> QED
    BY <1>1, <2>1 DEF DataGood
<1>3. \A k, v : Line(k, v).k = k /\ Line(k, v).v = v
  BY DEF Line
<1>4. ASSUME NEW a \in 1 .. r PROVE ReadAs(plan, flow, s, pipe, m, at, a)
  BY <1>1, ReadUnit
<1>5. at + 1 <= m /\ s[1] = Line("data", n)
  <2>1. PICK a \in 1 .. r : a = 1
    BY <1>1, <1>2
  <2>2. CASE at + a <= m /\ s[a] = Unit(plan, at + a)
    BY <2>1, <2>2
  <2>3. CASE at + a = m + 1 /\ s[a] \in CutForms(Unit(plan, m + 1))
    <3>1. PICK w : w = Line("data", n)
      OBVIOUS
    <3>2. Unit(plan, m + 1) = w /\ w.k = "data"
      BY <1>3, <2>1, <2>3, <3>1
    <3>3. s[a] = Text \/ s[a] = Line("data", Cut)
      BY <2>3, <3>2, CutFacts
    <3>4. s[1].k = "data" /\ s[1].v # Cut
      BY DEF DataGood
    <3> QED
      BY <1>3, <2>1, <3>3, <3>4 DEF Text
  <2> QED
    BY <1>4, <2>1, <2>2, <2>3 DEF ReadAs
<1>6. s[1].v = n
  BY <1>3, <1>5
<1>7. r > n /\ (flow = "torn" /\ Eof /\ n > 0 => r > n + 1)
  BY <1>1, <1>6 DEF DataGood
<1>8. ASSUME NEW a \in 2 .. n + 1 PROVE at + a <= m /\ s[a] = Unit(plan, at + a)
  <2>1. a \in 1 .. r
    BY <1>1, <1>7
  <2>2. CASE at + a = m + 1 /\ flow = "torn" /\ pipe = <<>> /\ a = Len(s)
    <3>1. Eof /\ n > 0
      BY <2>2 DEF Eof
    <3> QED
      BY <1>1, <1>7, <2>2, <3>1
  <2> QED
    BY <1>4, <2>1, <2>2 DEF ReadAs
<1>9. at + (n + 1) <= m /\ n + 1 <= r
  <2>1. CASE n = 0
    BY <1>5, <1>7, <2>1
  <2>2. CASE n > 0
    <3>1. PICK a \in 2 .. n + 1 : a = n + 1
      BY <2>2
    <3> QED
      BY <1>1, <1>7, <1>8, <3>1
  <2> QED
    BY <2>1, <2>2
<1>10. DataOf(s) = data
  <2>1. PICK u : u = SubSeq(s, 2, n + 1)
    OBVIOUS
  <2>2. PICK z \in Nat : z = n + 1
    OBVIOUS
  <2>3. /\ Sequence(u) /\ Len(u) = IF z < 2 THEN 0 ELSE z - 2 + 1
        /\ \A i \in 1 .. Len(u) : u[i] = s[2 + i - 1]
    BY <1>1, <1>9, <2>1, <2>2, PartFacts
  <2>4. Len(u) = n
    BY <2>2, <2>3
  <2>5. ASSUME NEW q \in 1 .. n PROVE u[q] = data[q]
    <3>1. PICK a \in 2 .. n + 1 : a = 1 + q
      OBVIOUS
    <3>2. 2 + q - 1 = a /\ at + 1 + q = at + a
      BY <3>1
    <3>3. u[q] = s[2 + q - 1] /\ data[q] = Unit(plan, at + 1 + q)
      BY <2>3, <2>4
    <3>4. s[a] = Unit(plan, at + a)
      BY <1>8
    <3> QED
      BY <3>2, <3>3, <3>4
  <2>6. u = data
    BY <2>3, <2>4, <2>5, SameSequence
  <2> QED
    BY <1>6, <2>1, <2>6 DEF DataOf
<1>11. PICK d \in 0 .. r : d = n + 1
  BY <1>9
<1>12. PICK rest : rest = SubSeq(s, d + 1, r)
  OBVIOUS
<1>13. AfterData(s) = IF rest # <<>> /\ rest[1].k = "blank" THEN Tail(rest) ELSE rest
  <2>1. s[1].v + 2 = d + 1
    BY <1>6, <1>11
  <2> QED
    BY <1>1, <1>12, <2>1 DEF AfterData
<1>14. /\ rest # <<>> <=> d < r
       /\ d < r => rest[1] = s[d + 1] /\ Tail(rest) = SubSeq(s, (d + 1) + 1, r)
  BY <1>1, <1>11, <1>12, DropMore
<1>15. CASE rest # <<>> /\ rest[1].k = "blank"
  <2>1. PICK a \in 1 .. r : a = d + 1
    BY <1>14, <1>15
  <2>2. s[a].k = "blank"
    BY <1>14, <1>15, <2>1
  <2>3. CASE at + a <= m /\ s[a] = Unit(plan, at + a)
    <3>1. a = n + 2
      BY <1>11, <2>1
    <3>2. Unit(plan, at + (n + 2)).k = "blank" /\ at + (n + 2) <= m /\ n + 2 <= r
      BY <1>1, <2>2, <2>3, <3>1
    <3>3. AfterData(s) = SubSeq(s, (n + 2) + 1, r)
      BY <1>13, <1>14, <1>15, <2>1, <3>1
    <3> QED
      BY <1>1, <1>10, <3>2, <3>3 DEF DataIs
  <2>4. CASE s[a] \in CutForms(Unit(plan, m + 1)) /\ Unit(plan, m + 1).k \notin {"blank", "piece"}
    <3>1. PICK w : w = Unit(plan, m + 1)
      OBVIOUS
    <3>2. s[a] = Text \/ s[a] = Line(w.k, Cut) \/ (w.k = "M" /\ \E v : s[a] = Line("M", v))
      BY <2>4, <3>1, CutFacts, ZenonT(60)
    <3>3. s[a].k = "text" \/ s[a].k = w.k
      BY <1>3, <3>2 DEF Text
    <3> QED
      BY <2>2, <2>4, <3>1, <3>3
  <2> QED
    BY <1>4, <2>3, <2>4 DEF ReadAs
<1>16. CASE ~(rest # <<>> /\ rest[1].k = "blank")
  <2>1. AfterData(s) = SubSeq(s, (n + 1) + 1, r)
    BY <1>11, <1>12, <1>13, <1>16
  <2> QED
    BY <1>1, <1>9, <1>10, <2>1 DEF DataIs
<1> QED
  BY <1>15, <1>16

\* If the data are there and not good, the stream ends in them.
LEMMA DataMissing ==
  ASSUME NEW s, NEW m \in Nat, NEW at \in Nat, TapeOf(plan, turns, flow, s, pipe, m, at),
         DataThere(s), ~DataGood(s), NEW n \in Nat, Unit(plan, at + 1) = Line("data", n)
  PROVE  Eof /\ m <= at + n
<1>1. PICK r \in Nat : r = Len(s) /\ Sequence(s)
  BY DEF TapeOf, Sequence
<1>2. PICK b \in Nat : b = Len(pipe) /\ Sequence(pipe)
  BY DEF TapeOf, Sequence
<1>3. PICK t \in {0, 1} : t = Torn(flow)
  BY DEF Torn
<1>4. at + r + b = m + t
  BY <1>1, <1>2, <1>3 DEF TapeOf
<1>5. CASE s = <<>>
  <2>1. Eof
    BY <1>5 DEF DataThere
  <2>2. r = 0 /\ b = 0
    BY <1>1, <1>2, <1>5, <2>1, ShortSequences DEF Eof
  <2> QED
    BY <1>4, <2>1, <2>2
<1>6. CASE s # <<>>
  <2>1. r # 0
    BY <1>1, <1>6, ShortSequences
  <2>2. PICK a \in 1 .. r : a = 1
    BY <1>1, <2>1
  <2>3. ReadAs(plan, flow, s, pipe, m, at, a)
    BY <1>1, ReadUnit
  <2>4. CASE at + a <= m /\ s[a] = Unit(plan, at + a)
    <3>1. s[1] = Line("data", n)
      BY <2>2, <2>4
    <3>2. s[1].k = "data" /\ s[1].v = n
      BY <3>1 DEF Line
    <3>3. n # Cut
      BY StreamAssumption
    <3>4. ~(r > n) \/ (flow = "torn" /\ Eof /\ n > 0 /\ ~(r > n + 1))
      BY <1>1, <1>6, <3>2, <3>3 DEF DataGood
    <3>5. Eof \/ r >= n + 2
      BY <1>1, <3>2, <3>3 DEF DataThere
    <3>6. Eof
      BY <1>1, <3>4, <3>5
    <3>7. b = 0
      BY <1>2, <3>6, ShortSequences DEF Eof
    <3>8. flow = "torn" => t = 1
      BY <1>3 DEF Torn
    <3> QED
      BY <1>1, <1>4, <3>4, <3>6, <3>7, <3>8
  <2>5. CASE at + a = m + 1 /\ flow = "torn" /\ pipe = <<>>
    BY <2>2, <2>5 DEF Eof
  <2> QED
    BY <2>3, <2>4, <2>5 DEF ReadAs
<1> QED
  BY <1>5, <1>6

\* What comes next in the command, told by its keyword.
Comes(c, i, x, L, unit) ==
  \/ /\ x = Len(L) /\ EndsOpen(plan.writer, c) /\ cur = Meant(c)
     /\ unit.k \in Types \cup {"text", "done"}
  \/ /\ x < Len(L) /\ unit = L[x + 1]
     /\ \/ NextHeader(plan.writer, c, x, cur) /\ unit.k \in Headers[c.type]
        \/ NextData(plan.writer, c, x, cur) /\ unit.k = "data"
        \/ NextOp(plan.writer, c, x, cur) /\ unit.k \in {"M", "D"}
        \/ NextBlank(plan.writer, c, x, cur) /\ unit.k = "blank"
        \/ NextOdd(plan.writer, c, x, cur) /\ unit.k = "text"

\* That comes next.
LEMMA WhatComes ==
  ASSUME NEW m, NEW at, NEW i, NEW x, NEW L, Here(m, at, i, x, L)
  PROVE  /\ Comes(plan.commands[i], i, x, L, Unit(plan, at + 1))
         /\ Unit(plan, at + 1).k # "piece" /\ cur.type = plan.commands[i].type
         /\ plan.commands[i].type \in Types /\ m \in Nat /\ at \in Nat /\ Size(plan) \in Nat
         /\ at <= Past(plan)[i] /\ Past(plan)[i] < Size(plan) /\ Past(plan)[i] \in Nat
<1>1. PICK c : c = plan.commands[i]
  OBVIOUS
<1>2. PICK unit : unit = Unit(plan, at + 1)
  OBVIOUS
<1>3. PICK l \in Nat : l = Len(L)
  BY DEF Here, Standing
<1>4. x \in 1 .. l
  BY <1>3 DEF Here, Standing
<1>5. \A k, v : Line(k, v).k = k
  BY DEF Line
<1>6. /\ GoodCommand(c) /\ L = Lines(plan.writer, c) /\ BodyStep(plan.writer, c, x, cur)
      /\ \A y \in 1 .. l - x : Unit(plan, at + y) = L[x + y]
      /\ x = l => unit.k \in Types \cup {"text", "done"}
  BY <1>1, <1>2, <1>3 DEF Here, Standing
<1>7. Comes(c, i, x, L, unit)
  <2>1. CASE x = l
    BY <1>3, <1>6, <2>1 DEF BodyStep, Comes
  <2>2. CASE x < l
    <3>1. unit = L[x + 1]
      <4>1. 1 \in 1 .. l - x
        BY <1>4, <2>2
      <4> QED
        BY <1>2, <1>6, <4>1
    <3>2. NextHeader(plan.writer, c, x, cur) => unit.k \in Headers[c.type]
      BY <1>6, <3>1 DEF NextHeader, HeaderOf
    <3>3. NextData(plan.writer, c, x, cur) => unit.k = "data"
      BY <1>5, <1>6, <3>1 DEF NextData
    <3>4. NextOp(plan.writer, c, x, cur) => unit.k \in {"M", "D"}
      <4>1. NextOp(plan.writer, c, x, cur) => \E v : unit = Line("D", v) \/ unit = Line("M", v)
        BY <1>6, <3>1 DEF NextOp
      <4> QED
        BY <1>5, <4>1
    <3>5. NextBlank(plan.writer, c, x, cur) => unit.k = "blank"
      BY <1>5, <1>6, <3>1 DEF NextBlank, Blank
    <3>6. NextOdd(plan.writer, c, x, cur) => unit.k = "text"
      BY <1>5, <1>6, <3>1 DEF NextOdd, Text
    <3>7. \/ NextHeader(plan.writer, c, x, cur) \/ NextData(plan.writer, c, x, cur)
          \/ NextOp(plan.writer, c, x, cur) \/ NextBlank(plan.writer, c, x, cur)
          \/ NextOdd(plan.writer, c, x, cur)
      BY <1>3, <1>6, <2>2 DEF BodyStep
    <3> QED
      BY <1>3, <2>2, <3>1, <3>2, <3>3, <3>4, <3>5, <3>6, <3>7 DEF Comes
  <2> QED
    BY <1>4, <2>1, <2>2
<1>8. c.type \in Types
  BY <1>6 DEF GoodCommand
<1>9. unit.k # "piece"
  BY <1>7, <1>8 DEF Comes, Types, Headers
<1>10. cur.type = c.type
  <2>1. PartOf(cur, c)
    BY <1>6 DEF BodyStep
  <2>2. PICK h, d, b : cur = Parsed(c, h, d, b)
    BY <2>1 DEF PartOf
  <2> QED
    BY <2>2 DEF Parsed
<1>11. PICK b \in Nat : b = Past(plan)[i - 1]
  BY DEF Here, Standing
<1>12. at = b + x /\ Past(plan)[i] = b + l /\ Past(plan)[i] < Size(plan)
  BY <1>3, <1>11 DEF Here, Standing
<1>13. m \in Nat /\ at \in Nat /\ Size(plan) \in Nat
  BY DEF Here
<1> QED
  BY <1>1, <1>2, <1>4, <1>7, <1>8, <1>9, <1>10, <1>12, <1>13

\* The line that is there in a command.
LEMMA LineHere ==
  ASSUME NEW m, NEW at, NEW i, NEW x, NEW L, Here(m, at, i, x, L), HasLine
  PROVE  \/ WholeLine(m, at)
         \/ /\ TornLine(m, at) /\ m < Size(plan)
            /\ ThisLine.k = "text" \/ ThisLine.k = Unit(plan, at + 1).k
<1>1. /\ Unit(plan, at + 1).k # "piece" /\ m \in Nat /\ at \in Nat /\ Size(plan) \in Nat
      /\ at <= Past(plan)[i] /\ Past(plan)[i] < Size(plan) /\ Past(plan)[i] \in Nat
  BY WhatComes
<1>2. WholeLine(m, at) \/ TornLine(m, at)
  BY <1>1, NextLine DEF Here
<1>3. CASE TornLine(m, at)
  <2>1. m < Size(plan)
    BY <1>1, <1>3 DEF TornLine
  <2>2. PICK w : w = Unit(plan, at + 1)
    OBVIOUS
  <2>3. ThisLine \in CutForms(w)
    BY <1>3, <2>2 DEF TornLine
  <2>4. ThisLine = Text \/ ThisLine = Line(w.k, Cut) \/ (w.k = "M" /\ \E v : ThisLine = Line("M", v))
    BY <2>3, CutFacts
  <2>5. \A k, v : Line(k, v).k = k
    BY DEF Line
  <2>6. ThisLine.k = "text" \/ ThisLine.k = w.k
    BY <2>4, <2>5 DEF Text
  <2> QED
    BY <1>3, <2>1, <2>2, <2>6
<1> QED
  BY <1>2, <1>3

\* Where no line is, all is used that was written whole.
LEMMA NoLineHere ==
  ASSUME NEW m, NEW at, NEW i, NEW x, NEW L, Here(m, at, i, x, L), NoLine
  PROVE  m < Size(plan) /\ flow # "open" /\ pipe = <<>> /\ ahead = <<>>
<1>1. /\ m \in Nat /\ at \in Nat /\ Size(plan) \in Nat
      /\ at <= Past(plan)[i] /\ Past(plan)[i] < Size(plan) /\ Past(plan)[i] \in Nat
  BY WhatComes
<1>2. ahead = <<>> /\ pipe = <<>> /\ flow # "open"
  BY DEF NoLine, Eof
<1>3. Len(ahead) = 0 /\ Len(pipe) = 0
  BY <1>2, ShortSequences
<1>4. PICK t \in {0, 1} : t = Torn(flow)
  BY DEF Torn
<1>5. at + 0 + 0 = m + t
  BY <1>3, <1>4 DEF Here, Tape, TapeOf
<1> QED
  BY <1>1, <1>2, <1>4, <1>5


-----------------------------------------------------------------------------
(* The steps of the parser in a command.                                   *)

\* A header.
LEMMA HeaderSteps ==
  ASSUME NEW m, NEW at, NEW i, NEW x, NEW L, Here(m, at, i, x, L), Header
  PROVE  Fine'
<1>1. PICK c : c = plan.commands[i]
  OBVIOUS
<1>2. PICK unit : unit = Unit(plan, at + 1)
  OBVIOUS
<1>3. Comes(c, i, x, L, unit) /\ cur.type = c.type /\ c.type \in Types
  BY <1>1, <1>2, WhatComes
<1>4. HasLine /\ ThisLine.k \in Headers[c.type]
  BY <1>3 DEF Header
<1>5. /\ pc' = "body" /\ UNCHANGED <<git, pipe, answered, out>> /\ ahead' = Rest(ahead)
      /\ cur' = [cur EXCEPT !.head = Append(@, ThisLine)]
  BY DEF Header, At
<1>6. ThisLine.k \notin Types \cup {"text", "data", "M", "D", "blank", "done"}
  BY <1>3, <1>4 DEF Types, Headers
<1>7. ThisLine.k = unit.k
      => NextHeader(plan.writer, c, x, cur) /\ unit = L[x + 1] /\ L = Lines(plan.writer, c)
  BY <1>1, <1>3, <1>6 DEF Comes, Here, Standing
<1>8. CASE WholeLine(m, at)
  <2>1. ThisLine = unit
    BY <1>2, <1>8 DEF WholeLine
  <2>2. InBody(plan.writer, c, x + 1, cur')
    BY <1>5, <1>7, <2>1 DEF NextHeader
  <2>3. PICK d \in Nat : d = 1
    OBVIOUS
  <2>4. d <= Len(ahead) /\ at + d <= m /\ ahead' = SubSeq(ahead, d + 1, Len(ahead))
    BY <1>5, <1>8, <2>3 DEF WholeLine
  <2>5. InBody(plan.writer, plan.commands[i], x + d, cur')
    BY <1>1, <2>2, <2>3
  <2> QED
    BY <1>5, <2>4, <2>5, BodyGoesOn
<1>9. CASE /\ TornLine(m, at) /\ m < Size(plan)
           /\ ThisLine.k = "text" \/ ThisLine.k = Unit(plan, at + 1).k
  <2>1. ThisLine.k = unit.k
    BY <1>2, <1>6, <1>9
  <2>2. /\ NextHeader(plan.writer, c, x, cur) /\ unit = L[x + 1] /\ L = Lines(plan.writer, c)
    BY <1>7, <2>1
  <2>3. HeaderOf(c.type, unit)
    BY <2>2 DEF NextHeader
  <2>4. unit = Line(unit.k, unit.v)
    BY <2>3 DEF HeaderOf
  <2>5. ThisLine = Line(unit.k, Cut)
    <3>1. ThisLine \in CutForms(unit) /\ ThisLine.k # "text" /\ unit.k # "M"
      BY <1>2, <1>6, <1>9, <2>1 DEF TornLine
    <3>2. Text.k = "text"
      BY DEF Text, Line
    <3> QED
      BY <3>1, <3>2, CutFacts
  <2>6. InBody(plan.writer, c, x + 1, [cur EXCEPT !.head = Append(@, unit)])
    BY <2>2 DEF NextHeader
  <2>7. GoodCommand(c) /\ PartOf(cur, c)
    BY <1>1 DEF Here, Standing, BodyStep
  <2>8. PartOf([cur EXCEPT !.head = Append(@, unit)], c)
    BY <2>6, <2>7, BodyUnits DEF BodyStep
  <2>9. ShortCommand(cur', Meant(c))
    BY <1>5, <2>4, <2>5, <2>7, <2>8, TornHeader
  <2>10. ahead' = <<>> /\ flow # "open" /\ pipe = <<>>
    BY <1>5, <1>9 DEF TornLine
  <2> QED
    BY <1>1, <1>5, <1>9, <2>9, <2>10, BreaksOff
<1> QED
  BY <1>4, <1>8, <1>9, LineHere

\* An empty line.
LEMMA BlankLineSteps ==
  ASSUME NEW m, NEW at, NEW i, NEW x, NEW L, Here(m, at, i, x, L), BlankLine
  PROVE  Fine'
<1>1. PICK c : c = plan.commands[i]
  OBVIOUS
<1>2. PICK unit : unit = Unit(plan, at + 1)
  OBVIOUS
<1>3. Comes(c, i, x, L, unit) /\ cur.type = c.type /\ c.type \in Types
  BY <1>1, <1>2, WhatComes
<1>4. HasLine /\ ThisLine.k = "blank" /\ c.type \in Many
  BY <1>3 DEF BlankLine
<1>5. /\ pc' = "body" /\ UNCHANGED <<git, pipe, answered, out>> /\ ahead' = Rest(ahead) /\ cur' = cur
  BY DEF BlankLine, At
<1>6. WholeLine(m, at)
  <2>1. TornLine(m, at) => unit.k # "blank"
    BY <1>2 DEF TornLine
  <2> QED
    BY <1>2, <1>4, <2>1, LineHere
<1>7. ThisLine = unit
  BY <1>2, <1>6 DEF WholeLine
<1>8. NextBlank(plan.writer, c, x, cur)
  BY <1>3, <1>4, <1>7 DEF Comes, Types, Headers
<1>9. PICK d \in Nat : d = 1
  OBVIOUS
<1>10. InBody(plan.writer, plan.commands[i], x + d, cur')
  BY <1>1, <1>4, <1>5, <1>8, <1>9 DEF NextBlank
<1>11. d <= Len(ahead) /\ at + d <= m /\ ahead' = SubSeq(ahead, d + 1, Len(ahead))
  BY <1>5, <1>6, <1>9 DEF WholeLine
<1> QED
  BY <1>5, <1>10, <1>11, BodyGoesOn

\* A deletion.
LEMMA FileDeleteSteps ==
  ASSUME NEW m, NEW at, NEW i, NEW x, NEW L, Here(m, at, i, x, L), FileDelete
  PROVE  Fine'
<1>1. PICK c : c = plan.commands[i]
  OBVIOUS
<1>2. PICK unit : unit = Unit(plan, at + 1)
  OBVIOUS
<1>3. Comes(c, i, x, L, unit) /\ cur.type = c.type /\ c.type \in Types
  BY <1>1, <1>2, WhatComes
<1>4. HasLine /\ ThisLine.k = "D" /\ c.type = "commit"
  BY <1>3 DEF FileDelete
<1>5. /\ pc' = "body" /\ UNCHANGED <<git, pipe, answered, out>> /\ ahead' = Rest(ahead)
      /\ cur' = [cur EXCEPT !.ops = Append(@, Delete(
           IF ThisLine.v = Cut THEN Cut ELSE UnquotePath(ThisLine.v)))]
  BY DEF FileDelete, At
<1>6. unit.k = "D"
  BY <1>2, <1>4, LineHere DEF WholeLine
<1>7. NextOp(plan.writer, c, x, cur) /\ unit = L[x + 1] /\ L = Lines(plan.writer, c)
  <2>1. unit.k \notin Headers[c.type] /\ unit.k \notin Types \cup {"text", "done", "data", "blank"}
    BY <1>4, <1>6 DEF Types, Headers
  <2>2. NextOp(plan.writer, c, x, cur) /\ unit = L[x + 1]
    BY <1>3, <2>1 DEF Comes
  <2> QED
    BY <1>1, <2>2 DEF Here, Standing
<1>8. \A k, v : Line(k, v).k = k /\ Line(k, v).v = v
  BY DEF Line
<1>9. PICK op : /\ GoodOp(op) /\ op.k = "D" /\ unit = Line("D", QuotePath(plan.writer, op.path))
                /\ InBody(plan.writer, c, x + 1, [cur EXCEPT !.ops = Append(@, op)])
  <2>1. \A v : unit # Line("M", v)
    BY <1>6, <1>8
  <2>2. PICK op : /\ GoodOp(op)
                  /\ \/ /\ op.k = "D" /\ unit = Line("D", QuotePath(plan.writer, op.path))
                        /\ InBody(plan.writer, c, x + 1, [cur EXCEPT !.ops = Append(@, op)])
                     \/ \E v : unit = Line("M", v)
    BY <1>7 DEF NextOp
  <2> QED
    BY <2>1, <2>2
<1>10. /\ Delete(UnquotePath(QuotePath(plan.writer, op.path))) = op
       /\ QuotePath(plan.writer, op.path) # Cut /\ CutOp(Delete(Cut), op)
  BY <1>9, DeleteFacts
<1>11. CASE WholeLine(m, at)
  <2>1. ThisLine = unit
    BY <1>2, <1>11 DEF WholeLine
  <2>2. ThisLine.v = QuotePath(plan.writer, op.path)
    BY <1>8, <1>9, <2>1
  <2>3. cur' = [cur EXCEPT !.ops = Append(@, op)]
    BY <1>5, <1>10, <2>2
  <2>4. PICK d \in Nat : d = 1
    OBVIOUS
  <2>5. d <= Len(ahead) /\ at + d <= m /\ ahead' = SubSeq(ahead, d + 1, Len(ahead))
    BY <1>5, <1>11, <2>4 DEF WholeLine
  <2>6. InBody(plan.writer, plan.commands[i], x + d, cur')
    BY <1>1, <1>9, <2>3, <2>4
  <2> QED
    BY <1>5, <2>5, <2>6, BodyGoesOn
<1>12. CASE TornLine(m, at) /\ m < Size(plan)
  <2>1. ThisLine = Line("D", Cut)
    <3>1. ThisLine \in CutForms(unit) /\ ThisLine.k # "text" /\ unit.k # "M"
      BY <1>2, <1>4, <1>6, <1>12 DEF TornLine
    <3>2. Text.k = "text"
      BY DEF Text, Line
    <3> QED
      BY <1>6, <3>1, <3>2, CutFacts
  <2>2. cur' = [cur EXCEPT !.ops = Append(@, Delete(Cut))]
    BY <1>5, <1>8, <2>1
  <2>3. GoodCommand(c) /\ PartOf(cur, c)
    BY <1>1 DEF Here, Standing, BodyStep
  <2>4. PartOf([cur EXCEPT !.ops = Append(@, op)], c)
    BY <1>9, <2>3, BodyUnits DEF BodyStep
  <2>5. ShortCommand(cur', Meant(c))
    BY <1>10, <2>2, <2>3, <2>4, TornOp
  <2>6. ahead' = <<>> /\ flow # "open" /\ pipe = <<>>
    BY <1>5, <1>12 DEF TornLine
  <2> QED
    BY <1>1, <1>5, <1>12, <2>5, <2>6, BreaksOff
<1> QED
  BY <1>4, <1>11, <1>12, LineHere

\* Data.
LEMMA DataSteps ==
  ASSUME NEW m, NEW at, NEW i, NEW x, NEW L, Here(m, at, i, x, L), Data
  PROVE  Fine'
<1>1. PICK c : c = plan.commands[i]
  OBVIOUS
<1>2. PICK unit : unit = Unit(plan, at + 1)
  OBVIOUS
<1>3. /\ Comes(c, i, x, L, unit) /\ cur.type = c.type /\ c.type \in Types /\ m \in Nat /\ at \in Nat
      /\ at <= Past(plan)[i] /\ Past(plan)[i] < Size(plan) /\ Past(plan)[i] \in Nat
  BY <1>1, <1>2, WhatComes
<1>4. /\ DataGood(ahead) /\ ahead' = AfterData(ahead)
      /\ UNCHANGED <<git, pipe, answered>>
      /\ c.type = "blob" => /\ out' = Append(out, [cur EXCEPT !.data = DataOf(ahead)])
                            /\ pc' = "next"
      /\ c.type # "blob" => /\ cur' = [cur EXCEPT !.data = DataOf(ahead)]
                            /\ pc' = "body" /\ out' = out
      /\ c.type # "reset"
  BY <1>3 DEF Data, At
<1>5. TapeOf(plan, turns, flow, ahead, pipe, m, at) /\ Sequence(ahead)
  BY DEF Here, Tape, TapeOf
<1>6. HasLine /\ ThisLine = ahead[1] /\ ThisLine.k = "data" /\ ThisLine.v # Cut
  <2>1. ahead # <<>> /\ ahead[1].k = "data" /\ ahead[1].v # Cut
    BY <1>4 DEF DataGood
  <2>2. 1 \in DOMAIN ahead
    <3>1. Len(ahead) # 0 /\ Len(ahead) \in Nat /\ DOMAIN ahead = 1 .. Len(ahead)
      BY <1>5, <2>1, ShortSequences, SequenceSet DEF Sequence
    <3> QED
      BY <3>1
  <2> QED
    BY <2>1, <2>2 DEF HasLine, ThisLine
<1>7. unit.k = "data"
  BY <1>2, <1>6, LineHere DEF WholeLine
<1>8. /\ NextData(plan.writer, c, x, cur) /\ unit = L[x + 1] /\ L = Lines(plan.writer, c)
      /\ GoodCommand(c)
  <2>1. unit.k \notin Headers[c.type] /\ unit.k \notin Types \cup {"text", "done", "M", "D", "blank"}
    BY <1>3, <1>7 DEF Types, Headers
  <2>2. NextData(plan.writer, c, x, cur) /\ unit = L[x + 1]
    BY <1>3, <2>1 DEF Comes
  <2> QED
    BY <1>1, <2>2 DEF Here, Standing
<1>9. PICK n \in Nat : n = Len(c.data) /\ Sequence(c.data)
  BY <1>8 DEF GoodCommand, Sequence
<1>10. PICK l \in Nat : l = Len(L) /\ x \in 1 .. l
  BY DEF Here, Standing
<1>11. PICK b \in Nat : b = Past(plan)[i - 1]
  BY DEF Here, Standing
<1>12. at = b + x /\ Past(plan)[i] = b + l
  BY <1>10, <1>11 DEF Here, Standing
<1>13. \A y \in 1 .. l - x : Unit(plan, at + y) = L[x + y]
  BY <1>10 DEF Here, Standing
<1>14. /\ L[x + 1] = Line("data", n) /\ x + n + 2 <= l
       /\ \A q \in 1 .. n : L[x + 1 + q] = c.data[q]
  BY <1>8, <1>9, <1>10 DEF NextData
<1>15. \A q \in 1 .. n : Unit(plan, at + 1 + q) = c.data[q]
  <2>1. \A q \in 1 .. n : /\ 1 + q \in 1 .. l - x /\ at + (1 + q) = at + 1 + q
                          /\ x + (1 + q) = x + 1 + q
    BY <1>10, <1>14, <1>12
  <2> QED
    BY <1>13, <1>14, <2>1
<1>16. DataIs(ahead, m, at, n, c.data)
  BY <1>2, <1>3, <1>4, <1>5, <1>8, <1>9, <1>14, <1>15, DataRead, SMTT(60)
<1>17. PICK filled : filled = [cur EXCEPT !.data = c.data]
  OBVIOUS
<1>18. DataOf(ahead) = c.data
  BY <1>16 DEF DataIs
<1>19. /\ c.type \in Many => /\ InBody(plan.writer, c, x + n + 1, filled)
                             /\ L[x + n + 2] = Blank => InBody(plan.writer, c, x + n + 2, filled)
       /\ c.type = "blob" => filled = Meant(c) /\ x + n + 2 = l
  BY <1>8, <1>9, <1>10, <1>17 DEF NextData
<1>20. Unit(plan, at + (n + 2)) = L[x + n + 2]
  <2>1. n + 2 \in 1 .. l - x /\ x + (n + 2) = x + n + 2
    BY <1>10, <1>14
  <2> QED
    BY <1>13, <2>1
<1>21. L[l] = Blank
  BY <1>8, <1>10, BodyStart DEF NextData
<1>22. PICK d \in Nat : /\ d = n + 1 \/ (d = n + 2 /\ L[x + n + 2].k = "blank")
                        /\ at + d <= m /\ d <= Len(ahead) /\ ahead' = SubSeq(ahead, d + 1, Len(ahead))
  <2>1. CASE at + (n + 1) <= m /\ n + 1 <= Len(ahead) /\ AfterData(ahead) = SubSeq(ahead, (n + 1) + 1, Len(ahead))
    <3>1. PICK d \in Nat : d = n + 1
      OBVIOUS
    <3> QED
      BY <1>4, <2>1, <3>1
  <2>2. CASE /\ at + (n + 2) <= m /\ n + 2 <= Len(ahead) /\ AfterData(ahead) = SubSeq(ahead, (n + 2) + 1, Len(ahead))
             /\ Unit(plan, at + (n + 2)).k = "blank"
    <3>1. PICK d \in Nat : d = n + 2
      OBVIOUS
    <3> QED
      BY <1>4, <1>20, <2>2, <3>1
  <2> QED
    BY <1>16, <2>1, <2>2 DEF DataIs
<1>23. CASE c.type = "blob"
  <2>1. out' = Append(out, Meant(plan.commands[i])) /\ pc' = "next"
    BY <1>1, <1>4, <1>17, <1>18, <1>19, <1>23
  <2>2. Between(plan, i, at + d)
    <3>1. Past(plan)[i] = at + (n + 2)
      BY <1>10, <1>12, <1>19, <1>23
    <3>2. Unit(plan, Past(plan)[i]) = Blank
      BY <1>19, <1>20, <1>21, <1>23, <3>1
    <3>3. Idle(Blank) /\ Blank.k # "piece"
      BY DEF Idle, Blank, Line, Types
    <3>4. at + d <= Past(plan)[i]
      BY <1>3, <1>22, <3>1
    <3>5. \A j \in at + d + 1 .. Past(plan)[i] : j = Past(plan)[i]
      BY <1>3, <1>22, <3>1
    <3> QED
      BY <3>2, <3>3, <3>4, <3>5 DEF Between
  <2> QED
    BY <1>4, <1>22, <2>1, <2>2, CommandEnds
<1>24. CASE c.type # "blob"
  <2>1. c.type \in Many
    BY <1>3, <1>4, <1>24 DEF Types, Many
  <2>2. cur' = filled /\ pc' = "body" /\ UNCHANGED <<git, pipe, answered, out>>
    BY <1>4, <1>17, <1>18, <1>24
  <2>3. InBody(plan.writer, c, x + d, filled)
    <3>1. CASE d = n + 1
      <4>1. x + d = x + n + 1
        BY <1>10, <3>1
      <4> QED
        BY <1>19, <2>1, <4>1
    <3>2. CASE d = n + 2 /\ L[x + n + 2].k = "blank"
      <4>1. x + d = x + n + 2 /\ x + n + 1 < l /\ x + n + 1 + 1 = x + n + 2
        BY <1>10, <1>14, <3>2
      <4>2. BodyStep(plan.writer, c, x + n + 1, filled)
        BY <1>8, <1>19, <2>1, BodyUnits
      <4>3. PICK y : y = x + n + 1
        OBVIOUS
      <4>4. /\ BodyStep(plan.writer, c, y, filled) /\ y < Len(Lines(plan.writer, c))
            /\ Lines(plan.writer, c)[y + 1].k = "blank"
        BY <1>8, <1>10, <3>2, <4>1, <4>2, <4>3
      <4>5. ~NextHeader(plan.writer, c, y, filled)
        BY <1>3, <4>4, SMTT(60) DEF NextHeader, HeaderOf, Headers, Types
      <4>6. \A k, v : Line(k, v).k = k
        BY DEF Line
      <4>7. ~NextData(plan.writer, c, y, filled) /\ ~NextOdd(plan.writer, c, y, filled)
        BY <4>4, <4>6 DEF NextData, NextOdd, Text
      <4>8. ~NextOp(plan.writer, c, y, filled)
        BY <4>4, <4>6, ZenonT(60) DEF NextOp
      <4>9. NextBlank(plan.writer, c, y, filled)
        BY <4>4, <4>5, <4>7, <4>8 DEF BodyStep
      <4>10. InBody(plan.writer, c, y + 1, filled)
        BY <2>1, <4>9 DEF NextBlank
      <4> QED
        BY <4>1, <4>3, <4>10
    <3> QED
      BY <1>22, <3>1, <3>2
  <2> QED
    BY <1>1, <1>22, <2>2, <2>3, BodyGoesOn
<1> QED
  BY <1>23, <1>24


\* The file modification that comes next.
NextModify(writer, c, x, sofar, op, n, more) ==
  /\ GoodOp(op) /\ op.k = "M" /\ n \in Nat /\ n = Len(op.data)
  /\ more = [sofar EXCEPT !.ops = Append(@, op)]
  /\ Lines(writer, c)[x + 1] = Line("M", [ref |-> op.ref, mode |-> op.mode,
                                          path |-> QuotePath(writer, op.path)])
  /\ op.mode = "gitlink" => InBody(writer, c, x + 1, sofar)
  /\ op.mode # "gitlink" /\ op.ref # "inline" => InBody(writer, c, x + 1, more)
  /\ op.mode # "gitlink" /\ op.ref = "inline" =>
       /\ x + n + 3 <= Len(Lines(writer, c))
       /\ Lines(writer, c)[x + 2] = Line("data", n)
       /\ \A q \in 1 .. n : Lines(writer, c)[x + 2 + q] = op.data[q]
       /\ InBody(writer, c, x + n + 2, more) /\ InBody(writer, c, x + n + 3, more)

\* There is one where an M line is.
LEMMA ModifyComes ==
  ASSUME NEW writer, NEW c, NEW x, NEW sofar, NextOp(writer, c, x, sofar),
         Lines(writer, c)[x + 1].k = "M"
  PROVE  \E op : \E n : \E more : NextModify(writer, c, x, sofar, op, n, more)
<1>1. \A v : Lines(writer, c)[x + 1] # Line("D", v)
  BY DEF Line
<1>2. PICK op :
        LET L == Lines(writer, c)
            n == Len(op.data)
            more == [sofar EXCEPT !.ops = Append(@, op)]
        IN  /\ GoodOp(op) /\ op.k = "M"
            /\ L[x + 1] = Line("M", [ref |-> op.ref, mode |-> op.mode,
                                     path |-> QuotePath(writer, op.path)])
            /\ \/ op.mode = "gitlink" /\ InBody(writer, c, x + 1, sofar)
               \/ /\ op.mode # "gitlink" /\ op.ref # "inline"
                  /\ InBody(writer, c, x + 1, more)
               \/ /\ op.mode # "gitlink" /\ op.ref = "inline"
                  /\ x + n + 3 <= Len(L)
                  /\ L[x + 2] = Line("data", n)
                  /\ \A q \in 1 .. n : L[x + 2 + q] = op.data[q]
                  /\ InBody(writer, c, x + n + 2, more) /\ InBody(writer, c, x + n + 3, more)
  BY <1>1 DEF NextOp
<1>3. op.k = "M" => Sequence(op.data)
  BY <1>2 DEF GoodOp, Delete
<1>4. PICK n : n = Len(op.data)
  OBVIOUS
<1>5. PICK more : more = [sofar EXCEPT !.ops = Append(@, op)]
  OBVIOUS
<1>6. n \in Nat
  BY <1>2, <1>3, <1>4 DEF Sequence
<1>7. NextModify(writer, c, x, sofar, op, n, more)
  BY <1>2, <1>4, <1>5, <1>6 DEF NextModify
<1> QED
  BY <1>7

\* A file modification.
LEMMA FileModifySteps ==
  ASSUME NEW m, NEW at, NEW i, NEW x, NEW L, Here(m, at, i, x, L), FileModify
  PROVE  Fine'
<1>1. PICK c : c = plan.commands[i]
  OBVIOUS
<1>2. PICK unit : unit = Unit(plan, at + 1)
  OBVIOUS
<1>3. /\ Comes(c, i, x, L, unit) /\ cur.type = c.type /\ c.type \in Types /\ m \in Nat /\ at \in Nat
      /\ at <= Past(plan)[i] /\ Past(plan)[i] < Size(plan) /\ Past(plan)[i] \in Nat
  BY <1>1, <1>2, WhatComes
<1>4. HasLine /\ ThisLine.k = "M" /\ c.type = "commit" /\ ThisLine.v.mode # Cut
  BY <1>3 DEF FileModify
<1>5. PICK v : v = ThisLine.v
  OBVIOUS
<1>6. PICK path : path = IF v.path = Cut THEN Cut ELSE UnquotePath(v.path)
  OBVIOUS
<1>7. /\ pc' = "body" /\ UNCHANGED <<git, pipe, answered, out>>
      /\ \/ v.mode = "gitlink" /\ ahead' = Tail(ahead) /\ cur' = cur
         \/ /\ v.mode # "gitlink" /\ v.ref # "inline" /\ ahead' = Tail(ahead)
            /\ cur' = [cur EXCEPT !.ops = Append(@, Modify(v.ref, v.mode, path, <<>>))]
         \/ /\ v.mode # "gitlink" /\ v.ref = "inline"
            /\ DataGood(Tail(ahead)) /\ ahead' = AfterData(Tail(ahead))
            /\ cur' = [cur EXCEPT !.ops = Append(@, Modify(v.ref, v.mode, path, DataOf(Tail(ahead))))]
  BY <1>5, <1>6 DEF FileModify, At, Skipped
<1>8. unit.k = "M"
  BY <1>2, <1>4, LineHere DEF WholeLine
<1>9. NextOp(plan.writer, c, x, cur) /\ unit = L[x + 1] /\ L = Lines(plan.writer, c) /\ GoodCommand(c)
  <2>1. unit.k \notin Headers[c.type] /\ unit.k \notin Types \cup {"text", "done", "data", "blank"}
    BY <1>4, <1>8 DEF Types, Headers
  <2>2. NextOp(plan.writer, c, x, cur) /\ unit = L[x + 1]
    BY <1>3, <2>1 DEF Comes
  <2> QED
    BY <1>1, <2>2 DEF Here, Standing
<1>10. PICK op, n, more : NextModify(plan.writer, c, x, cur, op, n, more)
  BY <1>8, <1>9, ModifyComes
<1>11. PICK w : w = [ref |-> op.ref, mode |-> op.mode, path |-> QuotePath(plan.writer, op.path)]
  OBVIOUS
<1>12. unit = Line("M", w) /\ GoodOp(op) /\ op.k = "M"
  BY <1>9, <1>10, <1>11 DEF NextModify
<1>13. /\ w.ref = op.ref /\ w.mode = op.mode /\ w.mode # Cut /\ w.path # Cut
       /\ Modify(w.ref, w.mode, UnquotePath(w.path), op.data) = op
       /\ Sequence(op.data)
       /\ op.ref # "inline" => op.data = <<>> /\ CutOp(Modify(op.ref, op.mode, Cut, <<>>), op)
  BY <1>11, <1>12, ModifyFacts, SMTT(60)
<1>14. /\ [w EXCEPT !.mode = Cut].mode = Cut
       /\ [w EXCEPT !.path = Cut].ref = op.ref /\ [w EXCEPT !.path = Cut].mode = op.mode
       /\ [w EXCEPT !.path = Cut].path = Cut
  BY <1>11, <1>12, ModifyFacts
<1>15. \A k, z : Line(k, z).k = k /\ Line(k, z).v = z
  BY DEF Line
<1>16. PartOf(cur, c)
  BY <1>1 DEF Here, Standing, BodyStep
<1>17. CASE WholeLine(m, at)
  <2>1. ThisLine = unit
    BY <1>2, <1>17 DEF WholeLine
  <2>2. v = w
    BY <1>5, <1>12, <1>15, <2>1
  <2>3. path = UnquotePath(w.path)
    BY <1>6, <1>13, <2>2
  <2>4. PICK one \in Nat : one = 1
    OBVIOUS
  <2>5. one <= Len(ahead) /\ at + one <= m /\ Tail(ahead) = SubSeq(ahead, one + 1, Len(ahead))
    BY <1>17, <2>4 DEF WholeLine
  <2>6. CASE v.mode = "gitlink" /\ ahead' = Tail(ahead) /\ cur' = cur
    <3>1. InBody(plan.writer, plan.commands[i], x + one, cur')
      BY <1>1, <1>10, <1>13, <2>2, <2>4, <2>6 DEF NextModify
    <3> QED
      BY <1>7, <2>5, <2>6, <3>1, BodyGoesOn
  <2>7. CASE /\ v.mode # "gitlink" /\ v.ref # "inline" /\ ahead' = Tail(ahead)
             /\ cur' = [cur EXCEPT !.ops = Append(@, Modify(v.ref, v.mode, path, <<>>))]
    <3>1. Modify(v.ref, v.mode, path, <<>>) = op
      BY <1>13, <2>2, <2>3, <2>7
    <3>2. cur' = more
      BY <1>10, <2>7, <3>1 DEF NextModify
    <3>3. InBody(plan.writer, plan.commands[i], x + one, cur')
      BY <1>1, <1>10, <1>13, <2>2, <2>4, <2>7, <3>2 DEF NextModify
    <3> QED
      BY <1>7, <2>5, <2>7, <3>3, BodyGoesOn
  <2>8. CASE /\ v.mode # "gitlink" /\ v.ref = "inline"
             /\ DataGood(Tail(ahead)) /\ ahead' = AfterData(Tail(ahead))
             /\ cur' = [cur EXCEPT !.ops = Append(@, Modify(v.ref, v.mode, path, DataOf(Tail(ahead))))]
    <3>1. PICK data : data = op.data
      OBVIOUS
    <3>2. /\ n \in Nat /\ n = Len(data) /\ Sequence(data) /\ x + n + 3 <= Len(L)
          /\ L[x + 2] = Line("data", n) /\ \A q \in 1 .. n : L[x + 2 + q] = data[q]
          /\ InBody(plan.writer, c, x + n + 2, more) /\ InBody(plan.writer, c, x + n + 3, more)
          /\ more = [cur EXCEPT !.ops = Append(@, op)]
      BY <1>9, <1>10, <1>13, <2>2, <2>8, <3>1 DEF NextModify
    <3>3. PICK l \in Nat : l = Len(L) /\ x \in 1 .. l
      BY DEF Here, Standing
    <3>4. \A y \in 1 .. l - x : Unit(plan, at + y) = L[x + y]
      BY <3>3 DEF Here, Standing
    <3>5. PICK next \in Nat : next = at + 1
      BY <1>3
    <3>6. Unit(plan, next + 1) = Line("data", n)
      <4>1. n \in Nat /\ x + n + 3 <= l
        BY <3>2, <3>3
      <4>2. 2 \in 1 .. l - x
        BY <3>3, <4>1
      <4>3. at + 2 = next + 1
        BY <1>3, <3>5
      <4>4. Unit(plan, at + 2) = L[x + 2]
        BY <3>4, <4>2
      <4> QED
        BY <3>2, <4>3, <4>4
    <3>7. \A q \in 1 .. n : Unit(plan, next + 1 + q) = data[q]
      <4>1. \A q \in 1 .. n : /\ 2 + q \in 1 .. l - x /\ at + (2 + q) = next + 1 + q
                              /\ x + (2 + q) = x + 2 + q
        <5>1. x + n + 3 <= l /\ x \in 1 .. l /\ n \in Nat
          BY <3>2, <3>3
        <5> QED
          BY <1>3, <3>5, <5>1
      <4> QED
        BY <3>2, <3>4, <4>1, SMTT(60)
    <3>8. PICK rest : rest = Tail(ahead)
      OBVIOUS
    <3>9. TapeOf(plan, turns, flow, rest, pipe, m, next)
      <4>1. TapeOf(plan, turns, flow, ahead, pipe, m, at) /\ one \in 0 .. Len(ahead)
        BY <1>17, <2>4, <2>5 DEF Here, Tape, WholeLine
      <4>2. TapeOf(plan, turns, flow, SubSeq(ahead, one + 1, Len(ahead)), pipe, m, at + one)
        BY <1>3, <2>5, <4>1, Used
      <4> QED
        BY <2>4, <2>5, <3>5, <3>8, <4>2
    <3>10. DataIs(rest, m, next, n, data)
      BY <1>3, <2>8, <3>2, <3>6, <3>7, <3>8, <3>9, DataRead
    <3>11. cur' = more
      <4>1. DataOf(rest) = data
        BY <3>10 DEF DataIs
      <4>2. Modify(v.ref, v.mode, path, DataOf(rest)) = op
        BY <1>13, <2>2, <2>3, <3>1, <4>1
      <4> QED
        BY <2>8, <3>2, <3>8, <4>2
    <3>12. Sequence(ahead) /\ Len(ahead) > 0 /\ Len(ahead) \in Nat /\ Len(rest) = Len(ahead) - 1
      <4>1. Sequence(ahead) /\ Len(ahead) > 0 /\ Len(ahead) \in Nat
        BY <1>17 DEF WholeLine
      <4> QED
        BY <3>8, <4>1, TailFacts
    <3>13. PICK e \in Nat : /\ e = n + 1 \/ e = n + 2
                            /\ next + e <= m /\ e <= Len(rest)
                            /\ ahead' = SubSeq(rest, e + 1, Len(rest))
      <4>1. CASE next + (n + 1) <= m /\ n + 1 <= Len(rest) /\ AfterData(rest) = SubSeq(rest, (n + 1) + 1, Len(rest))
        <5>1. PICK e \in Nat : e = n + 1
          BY <3>2
        <5> QED
          BY <2>8, <3>8, <4>1, <5>1
      <4>2. CASE next + (n + 2) <= m /\ n + 2 <= Len(rest) /\ AfterData(rest) = SubSeq(rest, (n + 2) + 1, Len(rest))
        <5>1. PICK e \in Nat : e = n + 2
          BY <3>2
        <5> QED
          BY <2>8, <3>8, <4>2, <5>1
      <4> QED
        BY <3>10, <4>1, <4>2 DEF DataIs
    <3>14. PICK d \in Nat : d = e + 1
      OBVIOUS
    <3>15. d <= Len(ahead) /\ at + d <= m /\ ahead' = SubSeq(ahead, d + 1, Len(ahead))
      <4>1. e \in 0 .. Len(ahead) - 1
        BY <3>12, <3>13
      <4>2. SubSeq(rest, e + 1, Len(rest)) = SubSeq(ahead, (e + 1) + 1, Len(ahead))
        BY <3>8, <3>12, <4>1, DropFromTail
      <4>3. d <= Len(ahead) /\ at + d <= m
        BY <1>3, <3>5, <3>12, <3>13, <3>14, SMTT(60)
      <4> QED
        BY <3>13, <3>14, <4>2, <4>3
    <3>16. InBody(plan.writer, plan.commands[i], x + d, cur')
      <4>1. x + d = x + n + 2 \/ x + d = x + n + 3
        <5>1. x \in 1 .. l /\ n \in Nat /\ (e = n + 1 \/ e = n + 2)
          BY <3>2, <3>3, <3>13
        <5> QED
          BY <3>3, <3>14, <5>1
      <4> QED
        BY <1>1, <3>2, <3>11, <4>1
    <3> QED
      BY <1>7, <3>15, <3>16, BodyGoesOn
  <2> QED
    BY <1>7, <2>6, <2>7, <2>8
<1>18. CASE TornLine(m, at) /\ m < Size(plan)
  <2>1. Tail(ahead) = <<>> /\ flow # "open" /\ pipe = <<>>
    BY <1>18 DEF TornLine
  <2>2. v = [w EXCEPT !.path = Cut]
    <3>1. ThisLine \in CutForms(unit)
      BY <1>2, <1>18 DEF TornLine
    <3>2. unit.v = w /\ unit.k = "M" /\ Text.k = "text"
      BY <1>12, <1>15 DEF Text
    <3>3. ThisLine = Line("M", [w EXCEPT !.path = Cut]) \/ ThisLine = Line("M", [w EXCEPT !.mode = Cut])
      BY <1>4, <3>1, <3>2, CutFacts
    <3>4. ThisLine # Line("M", [w EXCEPT !.mode = Cut])
      <4>1. PICK z : z = [w EXCEPT !.mode = Cut]
        OBVIOUS
      <4>2. z.mode = Cut /\ Line("M", z).v = z
        BY <1>14, <1>15, <4>1
      <4>3. ThisLine # Line("M", z)
        BY <1>4, <4>2
      <4> QED
        BY <4>1, <4>3
    <3> QED
      BY <1>5, <1>15, <3>3, <3>4
  <2>3. v.ref = op.ref /\ v.mode = op.mode /\ path = Cut
    BY <1>6, <1>14, <2>2
  <2>4. ~DataGood(Tail(ahead))
    BY <2>1 DEF DataGood
  <2>5. ShortCommand(cur', Meant(c)) /\ ahead' = <<>>
    <3>1. CASE v.mode = "gitlink" /\ ahead' = Tail(ahead) /\ cur' = cur
      BY <1>16, <2>1, <3>1, PartIsShort
    <3>2. CASE /\ v.mode # "gitlink" /\ v.ref # "inline" /\ ahead' = Tail(ahead)
               /\ cur' = [cur EXCEPT !.ops = Append(@, Modify(v.ref, v.mode, path, <<>>))]
      <4>1. CutOp(Modify(v.ref, v.mode, path, <<>>), op)
        BY <1>13, <2>3, <3>2
      <4>2. InBody(plan.writer, c, x + 1, more) /\ more = [cur EXCEPT !.ops = Append(@, op)]
        BY <1>10, <2>3, <3>2 DEF NextModify
      <4>3. PartOf([cur EXCEPT !.ops = Append(@, op)], c)
        BY <1>9, <4>2, BodyUnits DEF BodyStep
      <4> QED
        BY <1>16, <2>1, <3>2, <4>1, <4>3, TornOp
    <3> QED
      BY <1>7, <2>4, <3>1, <3>2
  <2> QED
    BY <1>1, <1>7, <1>18, <2>1, <2>5, BreaksOff
<1> QED
  BY <1>4, <1>17, <1>18, LineHere


\* What comes after an unknown header says nothing, if the message does not.
LEMMA OddIsIdle ==
  ASSUME Harmless, NEW m, NEW at, NEW i, NEW x, NEW L, Here(m, at, i, x, L),
         NextOdd(plan.writer, plan.commands[i], x, cur)
  PROVE  Between(plan, i, at)
<1>1. PICK c : c = plan.commands[i]
  OBVIOUS
<1>2. c.odd /\ c.type = "commit" /\ x = Len(c.head) + 1
  BY <1>1 DEF NextOdd
<1>3. GoodCommand(c) /\ L = Lines(plan.writer, c)
  BY <1>1 DEF Here, Standing
<1>4. PICK l \in Nat : l = Len(L) /\ x \in 1 .. l
  BY DEF Here, Standing
<1>5. PICK b \in Nat : b = Past(plan)[i - 1]
  BY DEF Here, Standing
<1>6. at = b + x /\ Past(plan)[i] = b + l
  BY <1>4, <1>5 DEF Here, Standing
<1>7. \A y \in 1 .. l - x : Unit(plan, at + y) = L[x + y]
  BY <1>4 DEF Here, Standing
<1>8. \A q \in 1 .. Len(c.data) : Idle(c.data[q])
  <2>1. i \in DOMAIN plan.commands
    BY SequenceSet DEF Here, Count, GoodPlan
  <2>2. \A j \in DOMAIN c.data : c.data[j].k \notin Types \cup {"done"}
    BY <1>1, <1>2, <2>1 DEF Harmless
  <2>3. DOMAIN c.data = 1 .. Len(c.data)
    BY <1>3, SequenceSet DEF GoodCommand
  <2> QED
    BY <2>2, <2>3 DEF Idle
<1>9. \A y \in x + 1 .. l : Idle(L[y])
  <2>1. CommitLaid(plan.writer, c, L)
    BY <1>2, <1>3, CommitText
  <2>2. \A y \in Len(c.head) + 2 .. Len(L) : Idle(L[y])
    BY <1>2, <1>8, <2>1 DEF CommitLaid
  <2>3. PICK h \in Nat : h = Len(c.head)
    BY <1>3 DEF GoodCommand, Sequence
  <2>4. x + 1 = h + 2
    BY <1>2, <2>3
  <2> QED
    BY <1>4, <2>2, <2>3, <2>4
<1>10. L[l] = Blank
  BY <1>2, <1>3, <1>4, BodyStart
<1>11. ASSUME NEW j \in at + 1 .. Past(plan)[i] PROVE Unit(plan, j) = L[j - b] /\ Idle(Unit(plan, j))
  <2>1. PICK y \in 1 .. l - x : j = at + y
    <3>1. j - at \in 1 .. l - x /\ j = at + (j - at)
      BY <1>4, <1>6
    <3> QED
      BY <3>1
  <2>2. x + y \in x + 1 .. l /\ x + y = j - b
    BY <1>4, <1>6, <2>1
  <2> QED
    BY <1>7, <1>9, <2>1, <2>2
<1>12. at <= Past(plan)[i]
  BY <1>4, <1>6
<1>13. at < Past(plan)[i] => Unit(plan, Past(plan)[i]).k # "piece"
  <2>1. SUFFICES ASSUME at < Past(plan)[i] PROVE Unit(plan, Past(plan)[i]).k # "piece"
    OBVIOUS
  <2>2. Past(plan)[i] \in at + 1 .. Past(plan)[i] /\ Past(plan)[i] - b = l
    BY <1>4, <1>6, <2>1
  <2>3. Unit(plan, Past(plan)[i]) = Blank
    BY <1>10, <1>11, <2>2
  <2> QED
    BY <2>3 DEF Blank, Line
<1> QED
  BY <1>11, <1>12, <1>13 DEF Between

\* Before the empty line that ends a reset.
LEMMA ResetIsIdle ==
  ASSUME NEW m, NEW at, NEW i, NEW x, NEW L, Here(m, at, i, x, L),
         plan.commands[i].type = "reset", NextBlank(plan.writer, plan.commands[i], x, cur)
  PROVE  Between(plan, i, at) /\ cur = Meant(plan.commands[i])
<1>1. PICK c : c = plan.commands[i]
  OBVIOUS
<1>2. PICK l \in Nat : l = Len(L) /\ x \in 1 .. l
  BY DEF Here, Standing
<1>3. L = Lines(plan.writer, c)
  BY <1>1 DEF Here, Standing
<1>4. cur = Meant(c) /\ x + 1 = l /\ L[x + 1] = Blank
  BY <1>1, <1>2, <1>3 DEF NextBlank
<1>5. PICK b \in Nat : b = Past(plan)[i - 1]
  BY DEF Here, Standing
<1>6. at = b + x /\ Past(plan)[i] = b + l
  BY <1>2, <1>5 DEF Here, Standing
<1>7. Past(plan)[i] = at + 1 /\ at \in Nat
  BY <1>2, <1>4, <1>6
<1>8. Unit(plan, at + 1) = Blank
  <2>1. 1 \in 1 .. Len(L) - x
    BY <1>2, <1>4
  <2> QED
    BY <1>4, <2>1 DEF Here, Standing
<1>9. Idle(Blank) /\ Blank.k # "piece"
  BY DEF Idle, Blank, Line, Types
<1>10. \A j \in at + 1 .. Past(plan)[i] : j = at + 1
  BY <1>7
<1> QED
  BY <1>1, <1>4, <1>7, <1>8, <1>9, <1>10 DEF Between

\* A command ends without taking the line.
LEMMA EndsHere ==
  ASSUME NEW m, NEW at, NEW i, NEW x, NEW L, Here(m, at, i, x, L),
         UNCHANGED <<git, pipe, answered, ahead>>, pc' = "next", out' = Append(out, cur),
         cur = Meant(plan.commands[i]), Between(plan, i, at)
  PROVE  Fine'
<1>1. PICK d \in Nat : d = 0
  OBVIOUS
<1>2. Sequence(ahead) /\ at \in Nat /\ m \in Nat /\ at <= m
  BY DEF Here, Tape, TapeOf
<1>3. PICK r \in Nat : r = Len(ahead)
  BY <1>2 DEF Sequence
<1>4. SubSeq(ahead, 1, r) = ahead
  <2>1. PICK u : u = SubSeq(ahead, 1, r)
    OBVIOUS
  <2>2. /\ Sequence(u) /\ Len(u) = IF r < 1 THEN 0 ELSE r - 1 + 1
        /\ \A j \in 1 .. Len(u) : u[j] = ahead[1 + j - 1]
    BY <1>2, <1>3, <2>1, PartFacts
  <2>3. Len(u) = r
    BY <2>2
  <2>4. \A j \in 1 .. Len(u) : 1 + j - 1 = j
    BY <2>3
  <2>5. u = ahead
    BY <1>2, <1>3, <2>2, <2>3, <2>4, SameSequence
  <2> QED
    BY <2>1, <2>5
<1>5. d <= Len(ahead) /\ at + d = at /\ ahead' = SubSeq(ahead, d + 1, Len(ahead))
  BY <1>1, <1>2, <1>3, <1>4
<1>6. out' = Append(out, Meant(plan.commands[i])) /\ UNCHANGED <<git, pipe, answered>>
  OBVIOUS
<1>7. at + d <= m /\ Between(plan, i, at + d)
  BY <1>2, <1>5
<1> QED
  BY <1>5, <1>6, <1>7, CommandEnds

\* A line ends a command that does not know it, or the end of the stream does.
LEMMA EndsSteps ==
  ASSUME Harmless, NEW m, NEW at, NEW i, NEW x, NEW L, Here(m, at, i, x, L), Ends
  PROVE  Fine'
<1>1. PICK c : c = plan.commands[i]
  OBVIOUS
<1>2. PICK unit : unit = Unit(plan, at + 1)
  OBVIOUS
<1>3. /\ Comes(c, i, x, L, unit) /\ cur.type = c.type /\ c.type \in Types /\ m \in Nat /\ at \in Nat
      /\ at <= Past(plan)[i] /\ Past(plan)[i] < Size(plan) /\ Past(plan)[i] \in Nat
  BY <1>1, <1>2, WhatComes
<1>4. /\ pc' = "next" /\ UNCHANGED <<git, pipe, answered, ahead>> /\ out' = Append(out, cur)
      /\ \/ /\ c.type \in Many
            /\ NoLine \/ (HasLine /\ ThisLine.k \notin
                 Headers[c.type] \cup {"data", "blank"}
                 \cup (IF c.type = "commit" THEN {"M", "D"} ELSE {}))
         \/ /\ c.type = "reset"
            /\ cur.head # <<>> \/ NoLine \/ (HasLine /\ ThisLine.k # "from")
  BY <1>3 DEF Ends
<1>5. PartOf(cur, c) /\ L = Lines(plan.writer, c)
  BY <1>1 DEF Here, Standing, BodyStep
<1>6. ASSUME NoLine \/ (TornLine(m, at) /\ m < Size(plan) /\ Idle(ThisLine))
      PROVE  Fine'
  <2>1. m < Size(plan) /\ flow # "open" /\ pipe = <<>>
    BY <1>6, NoLineHere DEF TornLine
  <2>2. \A a \in DOMAIN ahead : Idle(ahead[a])
    <3>1. CASE NoLine
      <4>1. DOMAIN ahead = 1 .. Len(ahead) /\ Len(ahead) = 0
        BY <3>1, ShortSequences, SequenceSet DEF NoLine
      <4> QED
        BY <4>1
    <3>2. CASE TornLine(m, at) /\ Idle(ThisLine)
      BY <3>2 DEF TornLine
    <3> QED
      BY <1>6, <3>1, <3>2
  <2>3. Sequence(ahead') /\ \A a \in DOMAIN ahead' : Idle(ahead'[a])
    <3>1. Sequence(ahead)
      BY DEF Here, Tape, TapeOf
    <3> QED
      BY <1>4, <2>2, <3>1
  <2>4. ShortCommand(cur, Meant(c))
    BY <1>5, PartIsShort
  <2>5. \E e : out' = Append(out, e) /\ ShortCommand(e, Meant(plan.commands[i]))
    BY <1>1, <1>4, <2>4
  <2> QED
    BY <1>4, <2>1, <2>3, <2>5, BreaksOff
<1>7. CASE x = Len(L) /\ cur = Meant(c)
  <2>1. Past(plan)[i] = at
    BY <1>7 DEF Here, Standing
  <2>2. Between(plan, i, at)
    BY <1>3, <2>1 DEF Between
  <2> QED
    BY <1>1, <1>4, <1>7, <2>2, EndsHere
<1>8. CASE x < Len(L) /\ c.type \in Many
  <2>1. CASE NoLine
    BY <1>6, <2>1
  <2>2. CASE HasLine /\ ThisLine.k \notin
                 Headers[c.type] \cup {"data", "blank"}
                 \cup (IF c.type = "commit" THEN {"M", "D"} ELSE {})
    <3>1. unit.k \in Headers[c.type] \cup {"data", "M", "D", "blank", "text"}
          /\ (NextOp(plan.writer, c, x, cur) => c.type = "commit")
      <4>1. Len(L) \in Nat /\ ~(x = Len(L))
        BY <1>8 DEF Here, Standing
      <4>2. unit.k \in Headers[c.type] \cup {"data", "M", "D", "blank", "text"}
        BY <1>3, <4>1 DEF Comes
      <4>3. NextOp(plan.writer, c, x, cur) => c.type = "commit"
        BY DEF NextOp
      <4> QED
        BY <4>2, <4>3
    <3>2. CASE WholeLine(m, at)
      <4>1. ThisLine = unit
        BY <1>2, <3>2 DEF WholeLine
      <4>2. x # Len(L)
        BY <1>8 DEF Here, Standing
      <4>3. NextOdd(plan.writer, c, x, cur)
        BY <1>3, <2>2, <3>1, <4>1, <4>2 DEF Comes
      <4>4. cur = Meant(c)
        BY <4>3 DEF NextOdd
      <4>5. Between(plan, i, at)
        BY <1>1, <4>3, OddIsIdle
      <4> QED
        BY <1>1, <1>4, <4>4, <4>5, EndsHere
    <3>3. CASE TornLine(m, at) /\ m < Size(plan) /\ (ThisLine.k = "text" \/ ThisLine.k = unit.k)
      <4>1. ThisLine.k \notin Types \cup {"done"}
        BY <1>3, <3>1, <3>3 DEF Types, Headers
      <4> QED
        BY <1>6, <3>3, <4>1 DEF Idle
    <3> QED
      BY <1>2, <2>2, <3>2, <3>3, LineHere
  <2>3. c.type # "reset"
    BY <1>8 DEF Many
  <2> QED
    BY <1>4, <2>1, <2>2, <2>3
<1>9. CASE x < Len(L) /\ c.type = "reset"
  <2>1. x # Len(L)
    BY <1>9 DEF Here, Standing
  <2>2. ~NextData(plan.writer, c, x, cur) /\ ~NextOp(plan.writer, c, x, cur)
        /\ ~NextOdd(plan.writer, c, x, cur)
    BY <1>9 DEF NextData, NextOp, NextOdd
  <2>3. CASE NextBlank(plan.writer, c, x, cur)
    BY <1>1, <1>4, <1>9, <2>3, ResetIsIdle, EndsHere
  <2>4. CASE NextHeader(plan.writer, c, x, cur) /\ unit.k \in Headers[c.type]
    <3>1. cur.head = <<>> /\ unit.k = "from"
      BY <1>9, <2>4 DEF NextHeader, Many, Headers
    <3>2. CASE NoLine
      BY <1>6, <3>2
    <3>3. CASE HasLine /\ ThisLine.k # "from"
      <4>1. ~WholeLine(m, at)
        BY <1>2, <3>1, <3>3 DEF WholeLine
      <4>2. TornLine(m, at) /\ m < Size(plan) /\ ThisLine.k = "text"
        BY <1>2, <3>1, <3>3, <4>1, LineHere
      <4> QED
        BY <1>6, <4>2 DEF Idle, Types
    <3> QED
      BY <1>4, <1>9, <3>1, <3>2, <3>3 DEF Many
  <2> QED
    BY <1>3, <2>1, <2>2, <2>3, <2>4 DEF Comes
<1> QED
  BY <1>3, <1>4, <1>7, <1>8, <1>9 DEF Comes

\* A command fails only where the stream ends.
LEMMA BodyFailsSteps ==
  ASSUME NEW m, NEW at, NEW i, NEW x, NEW L, Here(m, at, i, x, L), BodyFails
  PROVE  Fine'
<1>1. PICK c : c = plan.commands[i]
  OBVIOUS
<1>2. PICK unit : unit = Unit(plan, at + 1)
  OBVIOUS
<1>3. /\ Comes(c, i, x, L, unit) /\ cur.type = c.type /\ c.type \in Types /\ m \in Nat /\ at \in Nat
      /\ at <= Past(plan)[i] /\ Past(plan)[i] < Size(plan) /\ Past(plan)[i] \in Nat
      /\ Size(plan) \in Nat
  BY <1>1, <1>2, WhatComes
<1>4. /\ pc' = "failed" /\ UNCHANGED <<git, pipe, answered>> /\ out' = out
  BY DEF BodyFails
<1>5. ASSUME m < Size(plan), flow # "open", pipe = <<>> PROVE Fine'
  BY <1>4, <1>5, BreaksOff
<1>6. CASE NoLine
  BY <1>5, <1>6, NoLineHere
<1>7. CASE TornLine(m, at) /\ m < Size(plan)
  BY <1>5, <1>7 DEF TornLine
<1>8. PICK l \in Nat : l = Len(L) /\ x \in 1 .. l /\ L = Lines(plan.writer, c)
  BY <1>1 DEF Here, Standing
<1>9. PICK b \in Nat : b = Past(plan)[i - 1]
  BY DEF Here, Standing
<1>10. at = b + x /\ Past(plan)[i] = b + l
  BY <1>8, <1>9 DEF Here, Standing
<1>11. \A k, v : Line(k, v).k = k /\ Line(k, v).v = v
  BY DEF Line
<1>12. CASE WholeLine(m, at) /\ HasLine
  <2>1. ThisLine = unit /\ ahead[1] = unit
    BY <1>2, <1>12 DEF WholeLine
  <2>2. ASSUME c.type = "blob", ThisLine.k # "data", ThisLine.k = "mark" => cur.head # <<>>
        PROVE  FALSE
    <3>1. ~(x = Len(L) /\ EndsOpen(plan.writer, c))
      BY <2>2 DEF Many, EndsOpen, Bare
    <3>2. ~NextOp(plan.writer, c, x, cur) /\ ~NextOdd(plan.writer, c, x, cur)
          /\ ~NextBlank(plan.writer, c, x, cur)
      BY <2>2 DEF NextOp, NextOdd, NextBlank
    <3>3. NextHeader(plan.writer, c, x, cur) /\ unit.k \in Headers[c.type]
      BY <1>3, <2>1, <2>2, <3>1, <3>2 DEF Comes
    <3> QED
      BY <2>1, <2>2, <3>3 DEF NextHeader, Many, Headers
  <2>3. CASE ThisLine.k = "data" /\ DataThere(ahead) /\ ~DataGood(ahead)
    <3>1. unit.k \notin Headers[c.type] /\ unit.k \notin Types \cup {"text", "done", "M", "D", "blank"}
      BY <1>3, <2>1, <2>3 DEF Types, Headers
    <3>2. NextData(plan.writer, c, x, cur) /\ unit = L[x + 1]
      BY <1>3, <3>1, SMTT(60) DEF Comes
    <3>3. Sequence(c.data)
      BY <1>1 DEF Here, Standing, GoodCommand
    <3>4. PICK n \in Nat : n = Len(c.data)
      BY <3>3 DEF Sequence
    <3>5. unit = Line("data", n) /\ x + n + 2 <= l
      BY <1>8, <3>2, <3>4 DEF NextData
    <3>6. TapeOf(plan, turns, flow, ahead, pipe, m, at)
      BY DEF Here, Tape
    <3>7. Eof /\ m <= at + n
      BY <1>2, <1>3, <2>3, <3>5, <3>6, DataMissing
    <3>8. m < Size(plan)
      BY <1>3, <1>8, <1>10, <3>5, <3>7
    <3> QED
      BY <1>5, <3>7, <3>8 DEF Eof
  <2>4. CASE /\ c.type = "commit" /\ ThisLine.k = "M"
             /\ \/ ThisLine.v.mode = Cut
                \/ /\ ThisLine.v.ref = "inline" /\ ~Skipped(ThisLine)
                   /\ DataThere(Tail(ahead)) /\ ~DataGood(Tail(ahead))
    <3>1. unit.k \notin Headers[c.type] /\ unit.k \notin Types \cup {"text", "done", "data", "blank"}
      BY <2>1, <2>4 DEF Types, Headers
    <3>2. NextOp(plan.writer, c, x, cur) /\ unit = L[x + 1]
      BY <1>3, <3>1 DEF Comes
    <3>3. PICK op, n, more : NextModify(plan.writer, c, x, cur, op, n, more)
      BY <1>8, <2>1, <2>4, <3>2, ModifyComes
    <3>4. PICK w : w = [ref |-> op.ref, mode |-> op.mode, path |-> QuotePath(plan.writer, op.path)]
      OBVIOUS
    <3>5. unit = Line("M", w) /\ GoodOp(op) /\ op.k = "M" /\ n \in Nat
      BY <1>8, <3>2, <3>3, <3>4 DEF NextModify
    <3>6. w.ref = op.ref /\ w.mode = op.mode /\ w.mode # Cut
      BY <3>4, <3>5, ModifyFacts
    <3>7. ThisLine.v = w
      BY <1>11, <2>1, <3>5
    <3>8. /\ op.ref = "inline" /\ op.mode # "gitlink"
          /\ DataThere(Tail(ahead)) /\ ~DataGood(Tail(ahead))
      BY <2>4, <3>6, <3>7 DEF Skipped
    <3>9. x + n + 3 <= l /\ L[x + 2] = Line("data", n)
      BY <1>8, <3>3, <3>8 DEF NextModify
    <3>10. PICK next \in Nat : next = at + 1
      BY <1>3
    <3>11. Unit(plan, next + 1) = Line("data", n)
      <4>1. 2 \in 1 .. l - x /\ at + 2 = next + 1
        BY <1>3, <1>8, <3>5, <3>9, <3>10
      <4>2. \A y \in 1 .. l - x : Unit(plan, at + y) = L[x + y]
        BY <1>8 DEF Here, Standing
      <4> QED
        BY <3>9, <4>1, <4>2
    <3>12. PICK rest : rest = Tail(ahead)
      OBVIOUS
    <3>13. TapeOf(plan, turns, flow, rest, pipe, m, next)
      <4>1. PICK one \in Nat : one = 1
        OBVIOUS
      <4>2. one \in 0 .. Len(ahead) /\ at + one <= m /\ rest = SubSeq(ahead, one + 1, Len(ahead))
        BY <1>12, <3>12, <4>1 DEF WholeLine
      <4>3. TapeOf(plan, turns, flow, ahead, pipe, m, at)
        BY DEF Here, Tape
      <4>4. TapeOf(plan, turns, flow, SubSeq(ahead, one + 1, Len(ahead)), pipe, m, at + one)
        BY <1>3, <4>2, <4>3, Used
      <4> QED
        BY <3>10, <4>1, <4>2, <4>4
    <3>14. Eof /\ m <= next + n
      BY <1>3, <3>5, <3>8, <3>11, <3>12, <3>13, DataMissing
    <3>15. m < Size(plan)
      BY <1>3, <1>8, <1>10, <3>5, <3>9, <3>10, <3>14
    <3> QED
      BY <1>5, <3>14, <3>15 DEF Eof
  <2>5. \/ c.type = "blob" /\ (NoLine \/ (ThisLine.k # "data" /\ (ThisLine.k = "mark" => cur.head # <<>>)))
        \/ ThisLine.k = "data" /\ DataThere(ahead) /\ ~DataGood(ahead)
        \/ /\ c.type = "commit" /\ ThisLine.k = "M"
           /\ \/ ThisLine.v.mode = Cut
              \/ /\ ThisLine.v.ref = "inline" /\ ~Skipped(ThisLine)
                 /\ DataThere(Tail(ahead)) /\ ~DataGood(Tail(ahead))
    BY <1>3 DEF BodyFails
  <2> QED
    BY <1>6, <2>2, <2>3, <2>4, <2>5
<1>13. NoLine \/ HasLine
  BY DEF BodyFails
<1> QED
  BY <1>6, <1>7, <1>12, <1>13, LineHere


-----------------------------------------------------------------------------
(* The steps of the parser between commands.                               *)

\* The state of what is read and written.
Placed(m, at) ==
  /\ GoodPlan(plan) /\ Size(plan) \in Nat /\ m \in 0 .. Size(plan) + 2 /\ at \in 0 .. m
  /\ Tape(m, at) /\ (plan.waits => m <= Size(plan) + answered)

\* The parser is after the i-th command.
NextHere(m, at, i) ==
  /\ Placed(m, at) /\ pc = "next" /\ answered = 0 /\ i \in 0 .. Count /\ out = MeantOf(i)
  /\ Between(plan, i, at) /\ Following(plan, i)
  /\ Past(plan)[i] \in Nat /\ Past(plan)[i] < Size(plan)
  /\ Unit(plan, Past(plan)[i] + 1).k \in Types \cup {"text", "done"}

\* The state has such a place.
LEMMA IsNext ==
  ASSUME NEW m, NEW at, Placed(m, at), AtNext(at)
  PROVE  \E i : NextHere(m, at, i)
<1>1. PICK i \in 0 .. Count : out = MeantOf(i) /\ Between(plan, i, at)
  BY DEF AtNext
<1>2. Following(plan, i) /\ Past(plan)[i] \in Nat /\ Past(plan)[i] < Size(plan)
  BY Follows DEF Placed, Count
<1>3. Unit(plan, Past(plan)[i] + 1).k \in Types \cup {"text", "done"}
  BY FollowingKeys DEF Placed, Count
<1>4. NextHere(m, at, i)
  BY <1>1, <1>2, <1>3 DEF NextHere, AtNext
<1> QED
  BY <1>4

\* The parser skips d units.
LEMMA NextGoesOn ==
  ASSUME NEW m, NEW at, NEW i, NextHere(m, at, i),
         UNCHANGED <<git, pipe, answered, out>>, pc' = "next",
         NEW d \in Nat, d <= Len(ahead), at + d <= m, ahead' = SubSeq(ahead, d + 1, Len(ahead)),
         NEW i2 \in 0 .. Count, out = MeantOf(i2), Between(plan, i2, at + d)
  PROVE  Fine'
<1>1. plan' = plan /\ turns' = turns /\ flow' = flow /\ pipe' = pipe /\ answered' = answered /\ out' = out
  BY DEF git
<1>2. m \in Nat /\ at \in Nat /\ Size(plan) \in Nat
  BY DEF NextHere, Placed
<1>3. d \in 0 .. Len(ahead)
  BY DEF NextHere, Placed, Tape, TapeOf, Sequence
<1>4. TapeOf(plan, turns, flow, SubSeq(ahead, d + 1, Len(ahead)), pipe, m, at + d)
  BY <1>2, <1>3, Used DEF NextHere, Placed, Tape
<1>5. Tape(m, at + d)'
  BY <1>1, <1>4 DEF Tape
<1>6. AtNext(at + d)'
  <2>1. pc' = "next" /\ answered' = 0
    BY <1>1 DEF NextHere
  <2>2. i2 \in 0 .. Count' /\ out' = MeantOf(i2)'
    BY <1>1 DEF Count, MeantOf
  <2>3. Between(plan', i2, at + d)
    BY <1>1
  <2> QED
    BY <2>1, <2>2, <2>3 DEF AtNext
<1>7. Sound(m, at + d)'
  BY <1>1, <1>5, <1>6 DEF Sound, NextHere, Placed
<1>8. at + d \in 0 .. m /\ m \in 0 .. Size(plan) + 2
  BY <1>2 DEF NextHere, Placed
<1> QED
  BY <1>1, <1>7, <1>8 DEF Fine

\* The stream breaks off between commands, or in the first line of one.
LEMMA NextBreaks ==
  ASSUME NEW m, NEW at, NEW i, NextHere(m, at, i), m < Size(plan), flow # "open", pipe = <<>>,
         UNCHANGED <<git, pipe, answered, out>>,
         \/ pc' = "next" /\ Sequence(ahead') /\ \A a \in DOMAIN ahead' : Idle(ahead'[a])
         \/ pc' = "report"
         \/ /\ pc' = "body" /\ ahead' = <<>> /\ i + 1 \in 1 .. Count
            /\ plan.commands[i + 1].type # "noise"
            /\ ShortCommand(cur', Meant(plan.commands[i + 1]))
  PROVE  Fine'
<1>1. plan' = plan /\ turns' = turns /\ flow' = flow /\ pipe' = pipe /\ answered' = answered /\ out' = out
  BY DEF git
<1>2. m \in 0 .. Size(plan) + 2 /\ Size(plan) \in Nat /\ GoodPlan(plan) /\ turns = Left(plan, m)
  BY DEF NextHere, Placed, Tape, TapeOf
<1>3. Len(turns) = 3 /\ turns # <<>>
  BY <1>2, LeftFacts
<1>4. Died' /\ pipe' = <<>> /\ Len(turns') = 3
  BY <1>1, <1>3 DEF Died
<1>5. answered' <= 0
  BY <1>1 DEF NextHere
<1>6. Short(out', MeantOf(Count)', ShortCommand)
  <2>1. MeantInOrder(plan.commands)
    BY <1>2, MeantFacts
  <2>2. Begins(MeantOf(i), MeantOf(Count))
    BY <2>1 DEF NextHere, Count, MeantInOrder, MeantOf
  <2>3. Short(out, MeantOf(Count), ShortCommand)
    BY <2>2, BeginsIsShort DEF NextHere
  <2>4. PICK t : t = MeantOf(Count)
    OBVIOUS
  <2>5. t = MeantOf(Count)'
    BY <1>1, <2>4 DEF MeantOf, Count
  <2> QED
    BY <1>1, <2>3, <2>4, <2>5
<1>7. CASE pc' = "next" /\ Sequence(ahead') /\ \A a \in DOMAIN ahead' : Idle(ahead'[a])
  <2>1. Broken'
    BY <1>4, <1>5, <1>6, <1>7 DEF Broken
  <2> QED
    BY <2>1 DEF Fine
<1>8. CASE pc' = "report"
  <2>1. Broken'
    BY <1>4, <1>5, <1>6, <1>8 DEF Broken
  <2> QED
    BY <2>1 DEF Fine
<1>9. CASE /\ pc' = "body" /\ ahead' = <<>> /\ i + 1 \in 1 .. Count
           /\ plan.commands[i + 1].type # "noise"
           /\ ShortCommand(cur', Meant(plan.commands[i + 1]))
  <2>1. PICK j \in 1 .. Count : j = i + 1
    BY <1>9
  <2>2. j - 1 = i
    BY <2>1 DEF NextHere
  <2>3. j \in 1 .. Count' /\ plan'.commands[j].type # "noise" /\ out' = MeantOf(j - 1)'
        /\ ShortCommand(cur', Meant(plan'.commands[j]))
    BY <1>1, <1>9, <2>1, <2>2 DEF Count, MeantOf, NextHere
  <2>4. Broken'
    BY <1>4, <1>5, <1>6, <1>9, <2>3 DEF Broken
  <2> QED
    BY <2>4 DEF Fine
<1> QED
  BY <1>7, <1>8, <1>9

\* What is read of a unit has its keyword, or is torn and has none.
LEMMA ReadKeys ==
  ASSUME NEW p, NEW closed, NEW read, NEW sent, NEW m, NEW at, NEW a,
         ReadAs(p, closed, read, sent, m, at, a)
  PROVE  /\ read[a].k = Unit(p, at + a).k \/ read[a].k = "text"
         /\ read[a].k = "piece" <=> Unit(p, at + a).k = "piece"
<1>1. CASE at + a <= m /\ read[a] = Unit(p, at + a)
  <2>1. Text.k # "piece"
    BY DEF Text, Line
  <2> QED
    BY <1>1
<1>2. CASE /\ at + a = m + 1 /\ read[a] \in CutForms(Unit(p, m + 1))
           /\ Unit(p, m + 1).k \notin {"blank", "piece"}
  <2>1. PICK w : w = Unit(p, at + a)
    OBVIOUS
  <2>2. read[a] \in CutForms(w) /\ w.k # "piece"
    BY <1>2, <2>1
  <2>3. read[a] = Text \/ read[a] = Line(w.k, Cut) \/ (w.k = "M" /\ \E v : read[a] = Line("M", v))
    BY <2>2, CutFacts
  <2>4. \A k, v : Line(k, v).k = k
    BY DEF Line
  <2>5. read[a].k = "text" \/ read[a].k = w.k
    BY <2>3, <2>4 DEF Text
  <2> QED
    BY <2>1, <2>2, <2>5
<1> QED
  BY <1>1, <1>2 DEF ReadAs

\* A command or "done" is only seen where it was written.
LEMMA LineNext ==
  ASSUME NEW m, NEW at, NEW i, NextHere(m, at, i), HasLine, ~Idle(ThisLine)
  PROVE  at = Past(plan)[i] /\ (WholeLine(m, at) \/ TornLine(m, at))
<1>1. m \in Nat /\ at \in Nat /\ TapeOf(plan, turns, flow, ahead, pipe, m, at) /\ Sequence(ahead)
  BY DEF NextHere, Placed, Tape, TapeOf
<1>2. ThisLine = ahead[1] /\ ahead # <<>>
  <2>1. Idle(Text)
    BY DEF Idle, Text, Line, Types
  <2> QED
    BY <2>1 DEF ThisLine, HasLine
<1>3. PICK r \in Nat : r = Len(ahead) /\ r # 0
  BY <1>1, <1>2, ShortSequences DEF Sequence
<1>4. PICK a \in 1 .. Len(ahead) : a = 1
  BY <1>3
<1>5. ReadAs(plan, flow, ahead, pipe, m, at, a)
  BY <1>1, ReadUnit
<1>6. ahead[1].k = Unit(plan, at + 1).k \/ ahead[1].k = "text"
  BY <1>4, <1>5, ReadKeys
<1>7. ~Idle(Unit(plan, at + 1))
  BY <1>2, <1>6 DEF Idle, Types
<1>8. PICK b \in Nat : b = Past(plan)[i]
  BY DEF NextHere
<1>9. at = b
  <2>1. at <= b /\ \A j \in at + 1 .. b : Idle(Unit(plan, j))
    BY <1>8 DEF NextHere, Between
  <2>2. ~(at + 1 \in at + 1 .. b)
    BY <1>7, <2>1
  <2> QED
    BY <1>1, <2>1, <2>2
<1>10. Unit(plan, at + 1).k # "piece"
  BY <1>8, <1>9 DEF NextHere, Types
<1>11. WholeLine(m, at) \/ TornLine(m, at)
  BY <1>1, <1>10, NextLine DEF Tape
<1> QED
  BY <1>8, <1>9, <1>11

\* A command begins.
LEMMA NextBeginsSteps ==
  ASSUME NEW m, NEW at, NEW i, NextHere(m, at, i), NextBegins
  PROVE  Fine'
<1>1. HasLine /\ ThisLine.k \in Types /\ ~Idle(ThisLine)
  BY DEF NextBegins, Idle
<1>2. at = Past(plan)[i] /\ (WholeLine(m, at) \/ TornLine(m, at))
  BY <1>1, LineNext
<1>3. /\ pc' = "body" /\ UNCHANGED <<git, pipe, answered, out>> /\ ahead' = Rest(ahead)
      /\ cur' = [type |-> ThisLine.k, of |-> ThisLine.v, head |-> <<>>, data |-> <<>>, ops |-> <<>>]
  BY DEF NextBegins
<1>4. plan' = plan /\ turns' = turns /\ flow' = flow /\ pipe' = pipe /\ answered' = answered /\ out' = out
  BY <1>3 DEF git
<1>5. PICK unit : unit = Unit(plan, at + 1)
  OBVIOUS
<1>6. \A k, v : Line(k, v).k = k /\ Line(k, v).v = v
  BY DEF Line
<1>7. ThisLine = unit \/ ThisLine = Line(unit.k, Cut)
  <2>1. CASE WholeLine(m, at)
    BY <1>5, <2>1 DEF WholeLine
  <2>2. CASE TornLine(m, at)
    <3>1. ThisLine \in CutForms(unit)
      BY <1>5, <2>2 DEF TornLine
    <3>2. ThisLine # Text /\ \A v : ThisLine # Line("M", v)
      BY <1>1, <1>6 DEF Text, Types
    <3> QED
      BY <3>1, <3>2, CutFacts
  <2> QED
    BY <1>2, <2>1, <2>2
<1>8. unit.k \in Types
  BY <1>1, <1>6, <1>7
<1>9. Count \in Nat
  BY DEF NextHere, Placed, GoodPlan, Sequence, Count
<1>10. /\ i < Count /\ GoodCommand(plan.commands[i + 1])
       /\ unit = Line(plan.commands[i + 1].type, plan.commands[i + 1].of)
  <2>1. \/ unit = Text
        \/ /\ i < Count /\ GoodCommand(plan.commands[i + 1])
           /\ unit = Line(plan.commands[i + 1].type, plan.commands[i + 1].of)
        \/ unit = Line("done", None)
    BY <1>2, <1>5 DEF NextHere, Following, Count
  <2> QED
    BY <1>6, <1>8, <2>1 DEF Text, Types
<1>11. PICK j \in 1 .. Count : j = i + 1 /\ j - 1 = i
  BY <1>9, <1>10 DEF NextHere
<1>12. PICK c : c = plan.commands[j]
  BY Zenon
<1>13. GoodCommand(c) /\ unit.k = c.type /\ unit.v = c.of /\ c.type # "noise"
  BY <1>6, <1>10, <1>11, <1>12 DEF GoodCommand, Types
<1>14. CASE WholeLine(m, at)
  <2>1. ThisLine = unit
    BY <1>5, <1>14 DEF WholeLine
  <2>2. cur' = Parsed(c, <<>>, <<>>, <<>>)
    BY <1>3, <1>13, <2>1 DEF Parsed
  <2>3. InBody(plan.writer, c, 1, cur')
    BY <1>13, <2>2, BodyStart
  <2>4. m \in Nat /\ at \in Nat /\ Size(plan) \in Nat
    BY DEF NextHere, Placed
  <2>5. PICK d \in 0 .. Len(ahead) : d = 1
    <3>1. 1 \in 0 .. Len(ahead)
      BY <1>14 DEF WholeLine
    <3> QED
      BY <3>1
  <2>6. at + d <= m /\ ahead' = SubSeq(ahead, d + 1, Len(ahead))
    BY <1>3, <1>14, <2>5 DEF WholeLine
  <2>7. TapeOf(plan, turns, flow, SubSeq(ahead, d + 1, Len(ahead)), pipe, m, at + d)
    BY <2>4, <2>6, Used DEF NextHere, Placed, Tape
  <2>8. Tape(m, at + d)'
    BY <1>4, <2>6, <2>7 DEF Tape
  <2>9. AtBody(at + d)'
    <3>1. pc' = "body" /\ answered' = 0
      BY <1>3, <1>4 DEF NextHere
    <3>2. j \in 1 .. Count' /\ out' = MeantOf(j - 1)' /\ plan'.commands[j].type # "noise"
      BY <1>4, <1>11, <1>12, <1>13 DEF NextHere, Count, MeantOf
    <3>3. (at + d) - Past(plan)[j - 1] = 1
      BY <1>2, <1>11, <2>4, <2>5
    <3>4. InBody(plan'.writer, plan'.commands[j], (at + d) - Past(plan')[j - 1], cur')
      BY <1>4, <1>12, <2>3, <3>3
    <3> QED
      BY <3>1, <3>2, <3>4 DEF AtBody
  <2>10. Sound(m, at + d)'
    BY <1>4, <2>8, <2>9 DEF Sound, NextHere, Placed
  <2>11. at + d \in 0 .. m /\ m \in 0 .. Size(plan) + 2
    BY <2>4, <2>5, <2>6 DEF NextHere, Placed
  <2> QED
    BY <1>4, <2>10, <2>11 DEF Fine
<1>15. CASE TornLine(m, at)
  <2>1. ThisLine = Line(unit.k, Cut)
    <3>1. ThisLine \in CutForms(unit)
      BY <1>5, <1>15 DEF TornLine
    <3>2. ThisLine # Text /\ \A v : ThisLine # Line("M", v)
      BY <1>1, <1>6 DEF Text, Types
    <3> QED
      BY <3>1, <3>2, CutFacts
  <2>2. cur' = [type |-> c.type, of |-> Cut, head |-> <<>>, data |-> <<>>, ops |-> <<>>]
    BY <1>3, <1>6, <1>13, <2>1
  <2>3. ShortCommand(cur', Meant(c))
    BY <1>13, <2>2, TornFirst
  <2>4. ahead' = <<>> /\ flow # "open" /\ pipe = <<>> /\ at = m
    BY <1>3, <1>15 DEF TornLine
  <2>5. m < Size(plan)
    BY <1>2, <2>4 DEF NextHere
  <2>6. /\ i + 1 \in 1 .. Count /\ plan.commands[i + 1].type # "noise"
        /\ ShortCommand(cur', Meant(plan.commands[i + 1]))
    BY <1>11, <1>12, <1>13, <2>3
  <2> QED
    BY <1>3, <2>4, <2>5, <2>6, NextBreaks
<1> QED
  BY <1>2, <1>14, <1>15

\* The export ends.
LEMMA NextEndsSteps ==
  ASSUME NEW m, NEW at, NEW i, NextHere(m, at, i), NextEnds
  PROVE  Fine'
<1>1. pc' = "report" /\ UNCHANGED <<git, pipe, answered, out>>
  BY DEF NextEnds
<1>2. plan' = plan /\ turns' = turns /\ flow' = flow /\ pipe' = pipe /\ answered' = answered /\ out' = out
  BY <1>1 DEF git
<1>3. m \in Nat /\ at \in Nat /\ Size(plan) \in Nat
  BY DEF NextHere, Placed
<1>4. CASE NoLine
  <2>1. ahead = <<>> /\ pipe = <<>> /\ flow # "open"
    BY <1>4 DEF NoLine, Eof
  <2>2. Len(ahead) = 0 /\ Len(pipe) = 0
    BY <2>1, ShortSequences
  <2>3. PICK t \in {0, 1} : t = Torn(flow)
    BY DEF Torn
  <2>4. at + 0 + 0 = m + t
    BY <2>2, <2>3 DEF NextHere, Placed, Tape, TapeOf
  <2>5. at <= Past(plan)[i] /\ Past(plan)[i] \in Nat /\ Past(plan)[i] < Size(plan)
    BY DEF NextHere, Between
  <2>6. m < Size(plan)
    BY <1>3, <2>3, <2>4, <2>5
  <2> QED
    BY <1>1, <2>1, <2>6, NextBreaks
<1>5. CASE HasLine /\ ThisLine.k = "done" /\ ahead' = Rest(ahead)
  <2>1. at = Past(plan)[i] /\ (WholeLine(m, at) \/ TornLine(m, at))
    BY <1>5, LineNext, SMTT(60) DEF Idle
  <2>2. PICK unit : unit = Unit(plan, at + 1)
    OBVIOUS
  <2>3. \A k, v : Line(k, v).k = k /\ Line(k, v).v = v
    BY DEF Line
  <2>4. \/ unit = Text
        \/ unit.k \in Types
        \/ i = Count /\ unit = Line("done", None) /\ at + 1 = Size(plan)
    BY <2>1, <2>2, <2>3 DEF NextHere, Following, Count, GoodCommand
  <2>5. ~TornLine(m, at)
    <3>1. SUFFICES ASSUME TornLine(m, at) PROVE FALSE
      OBVIOUS
    <3>2. ThisLine \in CutForms(unit)
      BY <2>2, <3>1 DEF TornLine
    <3>3. ThisLine # Text /\ \A v : ThisLine # Line("M", v)
      BY <1>5, <2>3 DEF Text
    <3>4. unit.v # None /\ ThisLine = Line(unit.k, Cut)
      BY <3>2, <3>3, CutFacts
    <3>5. unit.k = "done"
      BY <1>5, <2>3, <3>4
    <3> QED
      BY <2>3, <2>4, <3>4, <3>5 DEF Text, Types
  <2>6. WholeLine(m, at)
    BY <2>1, <2>5
  <2>7. i = Count /\ at + 1 = Size(plan)
    <3>1. unit.k = "done"
      BY <1>5, <2>2, <2>6 DEF WholeLine
    <3> QED
      BY <2>3, <2>4, <3>1 DEF Text, Types
  <2>8. PICK d \in 0 .. Len(ahead) : d = 1
    <3>1. 1 \in 0 .. Len(ahead)
      BY <2>6 DEF WholeLine
    <3> QED
      BY <3>1
  <2>9. at + d <= m /\ ahead' = SubSeq(ahead, d + 1, Len(ahead))
    BY <1>5, <2>6, <2>8 DEF WholeLine
  <2>10. TapeOf(plan, turns, flow, SubSeq(ahead, d + 1, Len(ahead)), pipe, m, at + d)
    BY <1>3, <2>9, Used DEF NextHere, Placed, Tape
  <2>11. Tape(m, at + d)'
    BY <1>2, <2>9, <2>10 DEF Tape
  <2>12. AtReport(at + d)'
    BY <1>1, <1>2, <2>7, <2>8 DEF AtReport, NextHere, MeantOf, Count
  <2>13. Sound(m, at + d)'
    BY <1>2, <2>11, <2>12 DEF Sound, NextHere, Placed
  <2>14. at + d \in 0 .. m /\ m \in 0 .. Size(plan) + 2
    BY <1>3, <2>8, <2>9 DEF NextHere, Placed
  <2> QED
    BY <1>2, <2>13, <2>14 DEF Fine
<1> QED
  BY <1>4, <1>5 DEF NextEnds


\* A line between commands is skipped, with the pieces before it.
LEMMA NextSkipsSteps ==
  ASSUME NEW m, NEW at, NEW i, NextHere(m, at, i), NextSkips
  PROVE  Fine'
<1>1. /\ pc' = "next" /\ UNCHANGED <<git, pipe, answered, out>> /\ ahead' = Rest(ahead)
      /\ HasLine /\ ThisLine.k \notin Types \cup {"done"}
  BY DEF NextSkips, At
<1>2. m \in Nat /\ at \in Nat /\ TapeOf(plan, turns, flow, ahead, pipe, m, at) /\ Sequence(ahead)
  BY DEF NextHere, Placed, Tape, TapeOf
<1>3. PICK r \in Nat : r = Len(ahead) /\ r # 0
  BY <1>1, <1>2, ShortSequences DEF Sequence, HasLine
<1>4. PICK b \in Nat : b = Past(plan)[i]
  BY DEF NextHere
<1>5. /\ at <= b /\ b < Size(plan) /\ Size(plan) \in Nat
      /\ \A j \in at + 1 .. b : Idle(Unit(plan, j))
      /\ at < b => Unit(plan, b).k # "piece"
      /\ Unit(plan, b + 1).k \in Types \cup {"text", "done"}
  BY <1>4 DEF NextHere, Placed, Between
<1>6. ASSUME NEW a \in 1 .. r
      PROVE  /\ ReadAs(plan, flow, ahead, pipe, m, at, a)
             /\ ahead[a].k = "piece" <=> Unit(plan, at + a).k = "piece"
  <2>1. ReadAs(plan, flow, ahead, pipe, m, at, a)
    BY <1>2, <1>3, ReadUnit
  <2> QED
    BY <2>1, ReadKeys
\* In what is skipped, it goes on.
<1>7. ASSUME NEW d \in 1 .. r, at + d <= m, at + d <= b, at + d = b \/ Unit(plan, b).k # "piece"
      PROVE  ahead' = SubSeq(ahead, d + 1, Len(ahead)) => Fine'
  <2>1. SUFFICES ASSUME ahead' = SubSeq(ahead, d + 1, Len(ahead)) PROVE Fine'
    OBVIOUS
  <2>2. Between(plan, i, at + d)
    <3>1. \A j \in at + d + 1 .. b : j \in at + 1 .. b
      BY <1>2
    <3>2. \A j \in at + d + 1 .. b : Idle(Unit(plan, j))
      BY <1>5, <3>1
    <3>3. at + d < b => Unit(plan, b).k # "piece"
      BY <1>2, <1>7
    <3> QED
      BY <1>4, <1>7, <3>2, <3>3 DEF Between
  <2>3. d \in Nat /\ d <= Len(ahead) /\ i \in 0 .. Count /\ out = MeantOf(i)
    BY <1>3 DEF NextHere
  <2> QED
    BY <1>1, <1>7, <2>1, <2>2, <2>3, NextGoesOn
\* Where the stream is torn, it breaks off.
<1>8. ASSUME m < Size(plan), flow # "open", pipe = <<>>, Rest(ahead) = <<>>
      PROVE  Fine'
  <2>1. ahead' = <<>>
    BY <1>1, <1>8
  <2>2. DOMAIN ahead' = 1 .. Len(ahead') /\ Len(ahead') = 0
    BY <2>1, ShortSequences, SequenceSet
  <2>3. Sequence(ahead') /\ \A a \in DOMAIN ahead' : Idle(ahead'[a])
    <3>1. Sequence(ahead')
      BY <2>1, ShortSequences
    <3> QED
      BY <2>2, <3>1
  <2> QED
    BY <1>1, <1>8, <2>3, NextBreaks
<1>9. CASE Rest(ahead) = <<>> /\ \A a \in 1 .. Len(ahead) : ahead[a].k = "piece"
  <2>1. \A a \in 1 .. r : Unit(plan, at + a).k = "piece"
    BY <1>3, <1>6, <1>9
  <2>2. Eof
    <3>1. DOMAIN ahead = 1 .. Len(ahead)
      BY <1>2, SequenceSet
    <3> QED
      BY <1>1, <1>9, <3>1 DEF HasLine
  <2>3. flow # "open" /\ pipe = <<>> /\ Len(pipe) = 0
    BY <2>2, ShortSequences DEF Eof
  <2>4. at + r <= b /\ (at + r = b => FALSE)
    <3>1. SUFFICES ASSUME ~(at + r < b) PROVE FALSE
      BY <1>2, <1>5
    <3>2. CASE at < b
      <4>1. PICK a \in 1 .. r : a = b - at /\ at + a = b
        <5>1. b - at \in 1 .. r /\ at + (b - at) = b
          BY <1>2, <3>1, <3>2
        <5> QED
          BY <5>1
      <4> QED
        BY <1>5, <2>1, <3>2, <4>1
    <3>3. CASE at = b
      <4>1. PICK a \in 1 .. r : a = 1
        BY <1>3
      <4>2. Unit(plan, b + 1).k = "piece"
        BY <2>1, <3>3, <4>1
      <4> QED
        BY <1>5, <4>2 DEF Types
    <3> QED
      BY <1>2, <1>5, <3>2, <3>3
  <2>5. PICK t \in {0, 1} : t = Torn(flow)
    BY DEF Torn
  <2>6. at + r + 0 = m + t
    BY <1>2, <1>3, <2>3, <2>5 DEF TapeOf
  <2>7. m < Size(plan)
    BY <1>2, <1>5, <2>4, <2>5, <2>6
  <2> QED
    BY <1>8, <1>9, <2>3, <2>7
<1>10. CASE \E n \in 1 .. Len(ahead) :
              /\ Rest(ahead) = SubSeq(ahead, n + 1, Len(ahead)) /\ ahead[n].k # "piece"
              /\ \A j \in 1 .. n - 1 : ahead[j].k = "piece"
  <2>1. PICK n \in 1 .. r :
              /\ Rest(ahead) = SubSeq(ahead, n + 1, Len(ahead)) /\ ahead[n].k # "piece"
              /\ \A j \in 1 .. n - 1 : ahead[j].k = "piece"
    BY <1>3, <1>10
  <2>2. ReadAs(plan, flow, ahead, pipe, m, at, n)
    BY <1>6
  <2>3. CASE at < b
    <3>1. at + n <= b
      <4>1. SUFFICES ASSUME ~(at + n <= b) PROVE FALSE
        OBVIOUS
      <4>2. PICK a \in 1 .. n - 1 : at + a = b
        <5>1. b - at \in 1 .. n - 1 /\ at + (b - at) = b
          BY <1>2, <2>3, <4>1
        <5> QED
          BY <5>1
      <4>3. a \in 1 .. r /\ ahead[a].k = "piece"
        BY <2>1, <4>2
      <4> QED
        BY <1>5, <1>6, <2>3, <4>2, <4>3
    <3>2. CASE at + n <= m /\ ahead[n] = Unit(plan, at + n)
      BY <1>1, <1>5, <1>7, <2>1, <2>3, <3>1, <3>2
    <3>3. CASE at + n = m + 1 /\ flow = "torn" /\ pipe = <<>> /\ n = Len(ahead)
      <4>1. m < Size(plan)
        BY <1>2, <1>5, <3>1, <3>3
      <4>2. PICK d \in 0 .. Len(ahead) : d = n /\ at + d > m
        BY <1>2, <1>3, <3>3
      <4>3. SubSeq(ahead, d + 1, Len(ahead)) = <<>>
        <5>1. d \in 0 .. Len(ahead) /\ ~(at + d <= m)
          BY <1>2, <4>2
        <5> QED
          <6>1. AllUsed(flow, ahead, pipe, m, at, d)
            BY <1>2, <5>1, UsedUp
          <6> QED
            BY <6>1 DEF AllUsed
      <4> QED
        BY <1>8, <2>1, <3>3, <4>1, <4>2, <4>3
    <3> QED
      BY <2>2, <3>2, <3>3 DEF ReadAs
  <2>4. CASE at = b
    <3>1. Unit(plan, at + 1).k # "piece"
      BY <1>5, <2>4 DEF Types
    <3>2. WholeLine(m, at) \/ TornLine(m, at)
      BY <1>1, <1>2, <3>1, NextLine DEF Tape
    <3>3. CASE WholeLine(m, at)
      <4>1. Unit(plan, b + 1).k = "text"
        BY <1>1, <1>5, <2>4, <3>3 DEF WholeLine
      <4>2. /\ i < Len(plan.commands) /\ plan.commands[i + 1].type = "noise"
            /\ Past(plan)[i + 1] = b + 1
        <5>1. \A k, v : Line(k, v).k = k
          BY DEF Line
        <5>2. \A c : GoodCommand(c) => c.type \in Types
          BY DEF GoodCommand
        <5> QED
          BY <1>4, <4>1, <5>1, <5>2 DEF NextHere, Following, Types
      <4>3. Len(plan.commands) \in Nat /\ i \in 0 .. Count
        BY DEF NextHere, Placed, GoodPlan, Sequence
      <4>4. PICK j \in 1 .. Count : j = i + 1 /\ j - 1 = i /\ j \in 0 .. Count
        BY <4>2, <4>3 DEF Count
      <4>5. out = MeantOf(j)
        <5>1. MeantInOrder(plan.commands)
          BY MeantFacts DEF NextHere, Placed
        <5>2. j \in 1 .. Len(plan.commands) /\ plan.commands[j].type = "noise"
          BY <4>2, <4>4 DEF Count
        <5>3. MeantBy(plan.commands)[j] = MeantBy(plan.commands)[j - 1]
          BY <5>1, <5>2 DEF MeantInOrder
        <5> QED
          BY <4>4, <5>3 DEF MeantOf, NextHere
      <4>6. PICK d \in Nat : d = 1
        OBVIOUS
      <4>7. d <= Len(ahead) /\ at + d <= m /\ ahead' = SubSeq(ahead, d + 1, Len(ahead))
        BY <1>1, <3>3, <4>6 DEF WholeLine
      <4>8. Between(plan, j, at + d)
        <5>1. Past(plan)[j] = at + d
          BY <2>4, <4>2, <4>4, <4>6
        <5> QED
          BY <1>2, <5>1 DEF Between
      <4> QED
        BY <1>1, <4>4, <4>5, <4>7, <4>8, NextGoesOn
    <3>4. CASE TornLine(m, at)
      BY <1>5, <1>8, <2>4, <3>4 DEF TornLine
    <3> QED
      BY <3>2, <3>3, <3>4
  <2> QED
    BY <1>2, <1>5, <2>3, <2>4
<1> QED
  BY <1>2, <1>9, <1>10, RestFacts

-----------------------------------------------------------------------------
(* The other steps, where the helper is at a place in the text.            *)

\* Where the helper is.
Somewhere(at) == Starting(at) \/ AtNext(at) \/ AtBody(at) \/ AtReport(at) \/ Answered(at)

\* It has answered no more than twice.
LEMMA FewAnswers ==
  ASSUME NEW at, Somewhere(at)
  PROVE  /\ answered \in 0 .. 2 /\ pc \in {"run", "next", "body", "report"}
         /\ answered > 0 => Answered(at)
BY DEF Somewhere, Starting, AtNext, AtBody, AtReport, Answered

\* What the helper knows does not change when its buffer is filled or git writes.
LEMMA StaysThere ==
  ASSUME NEW at, Somewhere(at), UNCHANGED <<plan, pc, cur, out, answered>>,
         ahead' = ahead \/ pc \notin {"run"}
  PROVE  Somewhere(at)'
<1>1. Count' = Count /\ \A i : MeantOf(i)' = MeantOf(i)
  BY DEF Count, MeantOf
<1>2. CASE Starting(at)
  BY <1>2 DEF Starting, Somewhere
<1>3. CASE AtNext(at)
  BY <1>1, <1>3 DEF AtNext, Somewhere
<1>4. CASE AtBody(at)
  BY <1>1, <1>4 DEF AtBody, Somewhere
<1>5. CASE AtReport(at)
  BY <1>1, <1>5 DEF AtReport, Somewhere
<1>6. CASE Answered(at)
  BY <1>1, <1>6 DEF Answered, Somewhere
<1> QED
  BY <1>2, <1>3, <1>4, <1>5, <1>6 DEF Somewhere

\* The buffer is filled.
LEMMA FillSteps ==
  ASSUME NEW m, NEW at, Placed(m, at), Somewhere(at), Fill
  PROVE  Fine'
<1>1. PICK n \in 1 .. Len(pipe) :
        ahead' = ahead \o SubSeq(pipe, 1, n) /\ pipe' = SubSeq(pipe, n + 1, Len(pipe))
  BY DEF Fill
<1>2. UNCHANGED <<plan, turns, flow, pc, cur, out, answered>> /\ pc \notin {"run"}
  BY DEF Fill, Parsing, git
<1>3. m \in Nat /\ at \in Nat /\ TapeOf(plan, turns, flow, ahead, pipe, m, at)
  BY DEF Placed, Tape
<1>4. TapeOf(plan, turns, flow, ahead \o SubSeq(pipe, 1, n), SubSeq(pipe, n + 1, Len(pipe)), m, at)
  BY <1>3, Filled
<1>5. Tape(m, at)'
  BY <1>1, <1>2, <1>4 DEF Tape
<1>6. Somewhere(at)'
  BY <1>2, StaysThere
<1>7. Sound(m, at)'
  BY <1>2, <1>5, <1>6 DEF Sound, Somewhere, Placed
<1> QED
  BY <1>2, <1>7 DEF Fine, Placed

\* git writes.
LEMMA GitWritesSteps ==
  ASSUME NEW m, NEW at, Placed(m, at), Somewhere(at), GitWrites
  PROVE  Fine'
<1>1. /\ flow = "open" /\ turns # <<>> /\ (plan.waits => answered >= 3 - Len(turns))
      /\ pipe' = Append(pipe, Head(Head(turns)))
      /\ turns' = IF Len(Head(turns)) = 1 THEN Tail(turns) ELSE <<Tail(Head(turns))>> \o Tail(turns)
  BY DEF GitWrites
<1>2. UNCHANGED <<plan, flow, ahead, pc, cur, out, answered>>
  BY DEF GitWrites, helper
<1>3. /\ m \in Nat /\ at \in Nat /\ TapeOf(plan, turns, flow, ahead, pipe, m, at)
      /\ turns = Left(plan, m) /\ GoodPlan(plan) /\ m \in 0 .. Size(plan) + 2 /\ Size(plan) \in Nat
      /\ at \in 0 .. m
  BY DEF Placed, Tape, TapeOf
<1>4. m \in 0 .. Size(plan) + 1
  <2>1. m < Size(plan) + 2
    BY <1>1, <1>3, LeftFacts
  <2> QED
    BY <1>3, <2>1
<1>5. Head(Head(turns)) = Unit(plan, m + 1) /\ turns' = Left(plan, m + 1)
  BY <1>1, <1>3, <1>4, LeftNext
<1>6. PICK m2 \in Nat : m2 = m + 1
  BY <1>3
<1>7. TapeOf(plan, turns', "open", ahead, Append(pipe, Head(Head(turns))), m2, at)
  BY <1>1, <1>3, <1>5, <1>6, Written
<1>8. Tape(m2, at)'
  BY <1>1, <1>2, <1>7 DEF Tape
<1>9. plan.waits => m2 <= Size(plan) + answered
  <2>1. SUFFICES ASSUME plan.waits PROVE m2 <= Size(plan) + answered
    OBVIOUS
  <2>2. answered \in 0 .. 2 /\ (answered >= 3 - Len(turns))
    BY <1>1, <2>1, FewAnswers
  <2>3. CASE m < Size(plan)
    BY <1>3, <1>6, <2>2, <2>3
  <2>4. CASE m = Size(plan)
    <3>1. Len(turns) = 2
      BY <1>3, <2>4, LeftFacts
    <3> QED
      <4>1. answered >= 1
        BY <2>2, <3>1
      <4>2. m2 = Size(plan) + 1
        BY <1>6, <2>4
      <4> QED
        BY <1>3, <2>2, <4>1, <4>2
  <2>5. CASE m = Size(plan) + 1
    <3>1. Len(turns) = 1
      BY <1>3, <2>5, LeftFacts
    <3> QED
      <4>1. answered >= 2
        BY <2>2, <3>1
      <4>2. m2 = Size(plan) + 2
        BY <1>3, <1>6, <2>5
      <4> QED
        BY <1>3, <2>2, <4>1, <4>2
  <2> QED
    BY <1>3, <1>4, <2>3, <2>4, <2>5
<1>10. Somewhere(at)'
  BY <1>2, StaysThere
<1>11. Sound(m2, at)'
  BY <1>2, <1>8, <1>9, <1>10 DEF Sound, Somewhere
<1>12. m2 \in 0 .. Size(plan) + 2 /\ at \in 0 .. m2
  BY <1>3, <1>4, <1>6
<1> QED
  BY <1>2, <1>11, <1>12 DEF Fine

\* git closes the pipe.
LEMMA GitClosesSteps ==
  ASSUME NEW m, NEW at, Placed(m, at), Somewhere(at), GitCloses
  PROVE  Fine'
<1>1. /\ flow = "open"
      /\ \/ flow' = "closed" /\ pipe' = pipe
         \/ /\ turns # <<>> /\ Head(Head(turns)).k \notin {"blank", "piece"} /\ flow' = "torn"
            /\ \E unit \in CutForms(Head(Head(turns))) : pipe' = Append(pipe, unit)
  BY DEF GitCloses
<1>2. UNCHANGED <<plan, turns, ahead, pc, cur, out, answered>>
  BY DEF GitCloses, helper
<1>3. /\ m \in Nat /\ at \in Nat /\ TapeOf(plan, turns, "open", ahead, pipe, m, at)
      /\ turns = Left(plan, m) /\ GoodPlan(plan) /\ m \in 0 .. Size(plan) + 2 /\ Size(plan) \in Nat
  BY <1>1 DEF Placed, Tape, TapeOf
<1>4. TapeOf(plan, turns, flow', ahead, pipe', m, at)
  <2>1. CASE flow' = "closed" /\ pipe' = pipe
    BY <1>3, <2>1, ClosedAfter
  <2>2. CASE /\ turns # <<>> /\ Head(Head(turns)).k \notin {"blank", "piece"} /\ flow' = "torn"
             /\ \E unit \in CutForms(Head(Head(turns))) : pipe' = Append(pipe, unit)
    <3>1. m \in 0 .. Size(plan) + 1
      <4>1. m < Size(plan) + 2
        BY <1>3, <2>2, LeftFacts
      <4> QED
        BY <1>3, <4>1
    <3>2. Head(Head(turns)) = Unit(plan, m + 1)
      BY <1>3, <3>1, LeftNext
    <3>3. PICK unit \in CutForms(Unit(plan, m + 1)) : pipe' = Append(pipe, unit)
      BY <2>2, <3>2
    <3>4. m <= Size(plan) + 1 /\ Unit(plan, m + 1).k \notin {"blank", "piece"}
      BY <2>2, <3>1, <3>2
    <3>5. TapeOf(plan, turns, "torn", ahead, Append(pipe, unit), m, at)
      BY <1>3, <3>4, Written
    <3> QED
      BY <2>2, <3>3, <3>5
  <2> QED
    BY <1>1, <2>1, <2>2
<1>5. Tape(m, at)'
  BY <1>2, <1>4 DEF Tape
<1>6. Somewhere(at)'
  BY <1>2, StaysThere
<1>7. Sound(m, at)'
  BY <1>2, <1>5, <1>6 DEF Sound, Somewhere, Placed
<1> QED
  BY <1>2, <1>7 DEF Fine, Placed


\* The helper reads a command whole, or torn.
ReadsWhole(m, at) ==
  /\ at + 1 <= m /\ Head(pipe) = Unit(plan, at + 1)
  /\ TapeOf(plan, turns, flow, ahead, Tail(pipe), m, at + 1)

ReadsTorn(m, at) ==
  /\ at = m /\ m <= Size(plan) + 1 /\ flow = "torn" /\ Tail(pipe) = <<>> /\ Head(pipe) = Text

\* The command that it reads.
LEMMA RunReads ==
  ASSUME NEW m, NEW at, Placed(m, at), Somewhere(at), At("run"), pipe # <<>>
  PROVE  /\ Starting(at) \/ Answered(at)
         /\ ReadsWhole(m, at) \/ ReadsTorn(m, at)
         /\ Starting(at) => Unit(plan, at + 1) = Line("export", None)
         /\ Answered(at) /\ at < Size(plan) + 2
              => \/ at = Size(plan) /\ Unit(plan, at + 1) = Line("list", None)
                 \/ at = Size(plan) + 1 /\ Unit(plan, at + 1) = Blank
<1>1. Starting(at) \/ Answered(at)
  BY DEF Somewhere, At, AtNext, AtBody, AtReport
<1>2. /\ m \in Nat /\ at \in Nat /\ GoodPlan(plan) /\ Size(plan) \in Nat /\ at <= m
      /\ m <= Size(plan) + 2
  BY DEF Placed
<1>3. ahead = <<>>
  BY <1>1 DEF Starting, Answered
<1>4. TapeOf(plan, turns, flow, <<>>, pipe, m, at)
  BY <1>3 DEF Placed, Tape
<1>5. TextLaid(plan)
  BY <1>2, TextFacts
<1>6. Starting(at) => Unit(plan, at + 1) = Line("export", None)
  <2>1. Unit(plan, 1) = Line("export", None)
    BY <1>5 DEF TextLaid
  <2>2. Starting(at) => at + 1 = 1
    BY DEF Starting
  <2> QED
    BY <2>1, <2>2
<1>7. Answered(at) /\ at < Size(plan) + 2
        => \/ at = Size(plan) /\ Unit(plan, at + 1) = Line("list", None)
           \/ at = Size(plan) + 1 /\ Unit(plan, at + 1) = Blank
  <2>1. SUFFICES ASSUME Answered(at), at < Size(plan) + 2
                 PROVE  \/ at = Size(plan) /\ Unit(plan, at + 1) = Line("list", None)
                        \/ at = Size(plan) + 1 /\ Unit(plan, at + 1) = Blank
    OBVIOUS
  <2>2. at = Size(plan) \/ (at = Size(plan) + 1 /\ at + 1 = Size(plan) + 2)
    BY <1>2, <2>1 DEF Answered
  <2>3. Unit(plan, Size(plan) + 1) = Line("list", None) /\ Unit(plan, Size(plan) + 2) = Blank
    BY <1>5 DEF TextLaid
  <2> QED
    BY <2>2, <2>3
<1>8. CASE /\ at + 1 <= m /\ Head(pipe) = Unit(plan, at + 1)
           /\ TapeOf(plan, turns, flow, <<>>, Tail(pipe), m, at + 1)
  BY <1>1, <1>3, <1>6, <1>7, <1>8 DEF ReadsWhole
<1>9. CASE /\ at = m /\ flow = "torn" /\ Tail(pipe) = <<>>
           /\ Head(pipe) \in CutForms(Unit(plan, m + 1))
           /\ Unit(plan, m + 1).k \notin {"blank", "piece"} /\ m <= Size(plan) + 1
  <2>1. at < Size(plan) + 2
    BY <1>2, <1>9
  <2>2. Blank.k = "blank"
    BY DEF Blank, Line
  <2>3. Unit(plan, m + 1) = Line("export", None) \/ Unit(plan, m + 1) = Line("list", None)
    BY <1>1, <1>6, <1>7, <1>9, <2>1, <2>2
  <2>4. Unit(plan, m + 1).v = None /\ Unit(plan, m + 1).k # "M"
    <3>1. \A k, v : Line(k, v).k = k /\ Line(k, v).v = v
      BY DEF Line
    <3> QED
      BY <2>3, <3>1
  <2>5. Head(pipe) = Text
    BY <1>9, <2>4, CutFacts
  <2> QED
    BY <1>1, <1>6, <1>7, <1>9, <2>5 DEF ReadsTorn
<1> QED
  <2>1. SentAs(plan, turns, flow, pipe, m, at)
    BY <1>2, <1>4, SentUnit
  <2> QED
    BY <1>8, <1>9, <2>1 DEF SentAs

\* A command that has come is read whole; what is not one is torn.
LEMMA CommandComes ==
  ASSUME NEW m, NEW at, Placed(m, at), Somewhere(at), At("run")
  PROVE  /\ HasCommand => pipe # <<>> /\ ReadsWhole(m, at)
         /\ ~HasCommand /\ pipe # <<>> => ReadsTorn(m, at)
<1>1. /\ m \in Nat /\ at \in Nat /\ Size(plan) \in Nat /\ m <= Size(plan) + 2
      /\ Sequence(pipe)
  BY DEF Placed, Tape, TapeOf
<1>2. DOMAIN pipe = 1 .. Len(pipe) /\ Len(pipe) \in Nat
  BY <1>1, SequenceSet DEF Sequence
<1>3. HasCommand => pipe # <<>>
  <2>1. SUFFICES ASSUME HasCommand, Len(pipe) = 0 PROVE FALSE
    BY <1>1, ShortSequences
  <2>2. \E i \in DOMAIN pipe : TRUE
    BY <2>1 DEF HasCommand
  <2> QED
    BY <1>2, <2>1, <2>2
<1>4. SUFFICES ASSUME pipe # <<>>
               PROVE  /\ HasCommand => ReadsWhole(m, at)
                      /\ ~HasCommand => ReadsTorn(m, at)
  BY <1>3
<1>5. ReadsWhole(m, at) \/ ReadsTorn(m, at)
  BY <1>4, RunReads
<1>6. Sequence(Tail(pipe)) /\ Len(Tail(pipe)) = Len(pipe) - 1 /\ Len(pipe) >= 1
  BY <1>1, <1>4, TailFacts, ShortSequences
<1>7. ReadsTorn(m, at) => ~HasCommand
  <2>1. SUFFICES ASSUME ReadsTorn(m, at) PROVE ~HasCommand
    OBVIOUS
  <2>2. flow = "torn" /\ Len(Tail(pipe)) = 0
    BY <2>1, ShortSequences DEF ReadsTorn
  <2>3. Len(pipe) = 1
    BY <1>2, <1>6, <2>2
  <2> QED
    BY <1>2, <2>2, <2>3 DEF HasCommand
<1>8. ReadsWhole(m, at) => HasCommand
  <2>1. SUFFICES ASSUME ReadsWhole(m, at) PROVE HasCommand
    OBVIOUS
  <2>2. Head(pipe).k # "piece"
    <3>1. /\ Line("export", None).k = "export" /\ Line("list", None).k = "list"
          /\ Blank.k = "blank"
      BY DEF Line, Blank
    <3>2. Head(pipe) = Unit(plan, at + 1) /\ at + 1 <= m
      BY <2>1 DEF ReadsWhole
    <3>3. /\ Starting(at) \/ Answered(at)
          /\ Starting(at) => Unit(plan, at + 1) = Line("export", None)
          /\ Answered(at) /\ at < Size(plan) + 2 =>
               Unit(plan, at + 1) = Line("list", None) \/ Unit(plan, at + 1) = Blank
      BY <1>4, RunReads
    <3>4. at < Size(plan) + 2
      BY <1>1, <3>2
    <3>5. Head(pipe) \in {Line("export", None), Line("list", None), Blank}
      BY <3>2, <3>3, <3>4
    <3> QED
      BY <3>1, <3>5
  <2>3. PICK l \in Nat : l = Len(Tail(pipe))
    BY <1>6 DEF Sequence
  <2>4. flow = "torn" => 1 < Len(pipe)
    <3>1. SUFFICES ASSUME flow = "torn" PROVE 1 < Len(pipe)
      OBVIOUS
    <3>2. Starting(at) \/ Answered(at)
      BY <1>4, RunReads
    <3>3. ahead = <<>>
      BY <3>2 DEF Starting, Answered
    <3>4. Len(ahead) = 0
      BY <3>3, ShortSequences
    <3>5. at + 1 <= m /\ (at + 1) + Len(ahead) + Len(Tail(pipe)) = m + Torn(flow)
      BY <2>1 DEF ReadsWhole, TapeOf
    <3>6. Torn(flow) = 1
      BY <3>1 DEF Torn
    <3>7. (at + 1) + 0 + l = m + 1
      BY <2>3, <3>4, <3>5, <3>6
    <3>8. PICK N \in Nat : N = Len(pipe)
      BY <1>2
    <3>9. l = N - 1 /\ at + 1 <= m
      BY <1>6, <2>3, <3>5, <3>8
    <3> QED
      BY <1>1, <3>7, <3>8, <3>9
  <2>5. 1 \in DOMAIN pipe /\ pipe[1] = Head(pipe)
    BY <1>2, <1>6
  <2> QED
    BY <2>2, <2>4, <2>5 DEF HasCommand
<1> QED
  BY <1>5, <1>7, <1>8

\* The session breaks off where a command should come.
LEMMA RunBreaks ==
  ASSUME NEW m, NEW at, Placed(m, at), Somewhere(at), At("run"),
         m = at, m <= Size(plan) + 1, flow # "open", pipe' = <<>>,
         UNCHANGED <<git, ahead, out, answered>>, pc' \in {"end", "failed"}
  PROVE  Fine'
<1>1. /\ plan' = plan /\ turns' = turns /\ flow' = flow /\ answered' = answered /\ out' = out
      /\ ahead' = ahead
  BY DEF git
<1>2. /\ m \in 0 .. Size(plan) + 2 /\ Size(plan) \in Nat /\ GoodPlan(plan) /\ turns = Left(plan, m)
      /\ Size(plan) >= 3
  BY TextFacts DEF Placed, Tape, TapeOf, TextLaid
<1>3. turns # <<>>
  <2>1. m < Size(plan) + 2
    BY <1>2
  <2> QED
    BY <1>2, <2>1, LeftFacts
<1>4. Died' /\ pipe' = <<>>
  BY <1>1, <1>3 DEF Died
<1>5. Starting(at) \/ Answered(at)
  BY DEF Somewhere, At, AtNext, AtBody, AtReport
<1>6. MeantInOrder(plan.commands) /\ Len(plan.commands) \in Nat
  BY <1>2, MeantFacts DEF GoodPlan, Sequence
<1>7. Begins(<<>>, MeantOf(Count)) /\ Begins(MeantOf(Count), MeantOf(Count))
  BY <1>6 DEF MeantInOrder, MeantOf, Count
<1>8. out = <<>> \/ out = MeantOf(Count)
  BY <1>5 DEF Starting, Answered
<1>9. PICK t : t = MeantOf(Count)
  OBVIOUS
<1>10. t = MeantOf(Count)'
  BY <1>1, <1>9 DEF MeantOf, Count
<1>11. Short(out', t, ShortCommand)
  BY <1>1, <1>7, <1>8, <1>9, BeginsIsShort
<1>12. Len(turns') = 3 \/ out' = t
  <2>1. CASE Starting(at)
    <3>1. m < Size(plan)
      BY <1>2, <2>1 DEF Starting
    <3> QED
      BY <1>1, <1>2, <3>1, LeftFacts
  <2>2. CASE Answered(at)
    BY <1>1, <1>9, <2>2 DEF Answered
  <2> QED
    BY <1>5, <2>1, <2>2
<1>13. answered' <= 2
  <2>1. answered \in 0 .. 2
    BY FewAnswers
  <2> QED
    BY <1>1, <2>1
<1>14. Broken'
  BY <1>4, <1>10, <1>11, <1>12, <1>13 DEF Broken
<1> QED
  BY <1>14 DEF Fine

\* The export begins.
LEMMA RunExportSteps ==
  ASSUME NEW m, NEW at, Placed(m, at), Somewhere(at), RunExport
  PROVE  Fine'
<1>1. At("run") /\ pipe # <<>> /\ Head(pipe).k = "export" /\ ReadsWhole(m, at)
  BY CommandComes DEF RunExport
<1>2. /\ pc' = "next" /\ pipe' = Tail(pipe)
      /\ UNCHANGED <<plan, turns, flow, ahead, out, answered>>
  BY DEF RunExport, git
<1>3. /\ m \in Nat /\ at \in Nat /\ GoodPlan(plan) /\ Size(plan) \in Nat /\ m \in 0 .. Size(plan) + 2
  BY DEF Placed
<1>4. \A k, v : Line(k, v).k = k
  BY DEF Line
<1>5. ReadsWhole(m, at)
  BY <1>1
<1>6. Starting(at)
  <2>1. SUFFICES ASSUME Answered(at) PROVE FALSE
    BY <1>1, RunReads
  <2>2. at < Size(plan) + 2
    BY <1>3, <1>5 DEF ReadsWhole
  <2>3. Unit(plan, at + 1) = Line("list", None) \/ Unit(plan, at + 1) = Blank
    BY <1>1, <2>1, <2>2, RunReads
  <2> QED
    BY <1>1, <1>4, <1>5, <2>3 DEF ReadsWhole, Blank
<1>7. PICK now \in Nat : now = at + 1 /\ now = 1 /\ now <= m
  BY <1>3, <1>5, <1>6 DEF Starting, ReadsWhole
<1>8. Tape(m, now)'
  BY <1>2, <1>5, <1>7 DEF Tape, ReadsWhole
<1>9. AtNext(now)'
  <2>1. TextLaid(plan) /\ MeantInOrder(plan.commands) /\ Len(plan.commands) \in Nat
    BY <1>3, TextFacts, MeantFacts DEF GoodPlan, Sequence
  <2>2. pc' = "next" /\ answered' = 0
    BY <1>2, <1>6 DEF Starting
  <2>3. PICK i \in 0 .. Count : i = 0
    BY <2>1 DEF Count
  <2>4. out' = MeantOf(i)'
    BY <1>2, <1>6, <2>1, <2>3 DEF Starting, MeantInOrder, MeantOf
  <2>5. Between(plan, i, now)
    <3>1. Past(plan)[i] = 2 /\ Unit(plan, 2) = Text
      BY <2>1, <2>3 DEF TextLaid
    <3>2. Idle(Text) /\ Text.k # "piece"
      BY DEF Idle, Text, Line, Types
    <3>3. \A j \in now + 1 .. 2 : j = 2
      BY <1>7
    <3>4. now <= 2
      BY <1>7
    <3> QED
      BY <3>1, <3>2, <3>3, <3>4 DEF Between
  <2>6. i \in 0 .. Count' /\ Between(plan', i, now)
    BY <1>2, <2>5 DEF Count
  <2> QED
    BY <2>2, <2>4, <2>6 DEF AtNext
<1>10. Sound(m, now)'
  BY <1>2, <1>8, <1>9 DEF Sound, Placed
<1>11. now \in 0 .. m
  BY <1>3, <1>7
<1> QED
  BY <1>2, <1>3, <1>10, <1>11 DEF Fine

\* Another command is answered.
LEMMA RunListSteps ==
  ASSUME NEW m, NEW at, Placed(m, at), Somewhere(at), RunList
  PROVE  Fine'
<1>1. At("run") /\ pipe # <<>> /\ Head(pipe).k = "list" /\ ReadsWhole(m, at)
  BY CommandComes DEF RunList
<1>2. /\ answered' = answered + 1 /\ pipe' = Tail(pipe)
      /\ UNCHANGED <<plan, turns, flow, ahead, pc, out>>
  BY DEF RunList, git
<1>3. /\ m \in Nat /\ at \in Nat /\ GoodPlan(plan) /\ Size(plan) \in Nat /\ m \in 0 .. Size(plan) + 2
  BY DEF Placed
<1>4. \A k, v : Line(k, v).k = k
  BY DEF Line
<1>5. ReadsWhole(m, at)
  BY <1>1
<1>6. Answered(at)
  <2>1. SUFFICES ASSUME Starting(at) PROVE FALSE
    BY <1>1, RunReads
  <2>2. Unit(plan, at + 1) = Line("export", None)
    BY <1>1, <2>1, RunReads
  <2> QED
    BY <1>1, <1>4, <1>5, <2>2 DEF ReadsWhole
<1>7. at = Size(plan)
  <2>1. at < Size(plan) + 2
    BY <1>3, <1>5 DEF ReadsWhole
  <2>2. Blank.k = "blank"
    BY DEF Blank, Line
  <2> QED
    BY <1>1, <1>5, <1>6, <2>1, <2>2, RunReads DEF ReadsWhole
<1>8. PICK now \in Nat : now = at + 1 /\ now = Size(plan) + 1 /\ now <= m
  BY <1>3, <1>5, <1>7 DEF ReadsWhole
<1>9. answered = 1 /\ answered' = 2
  <2>1. answered = 1
    BY <1>3, <1>6, <1>7 DEF Answered
  <2> QED
    BY <1>2, <2>1
<1>10. Tape(m, now)'
  BY <1>2, <1>5, <1>8 DEF Tape, ReadsWhole
<1>11. Answered(now)'
  <2>1. pc' = "run" /\ ahead' = <<>> /\ out' = MeantOf(Count)'
    BY <1>2, <1>6 DEF Answered, MeantOf, Count
  <2>2. now > Size(plan') /\ now >= Size(plan') /\ answered' = 2
    BY <1>2, <1>3, <1>8, <1>9
  <2>3. now = Size(plan') + (answered' - 1)
    BY <1>2, <1>3, <1>8, <1>9
  <2> QED
    BY <2>1, <2>2, <2>3 DEF Answered
<1>12. plan'.waits => m <= Size(plan') + answered'
  BY <1>2, <1>3, <1>9 DEF Placed
<1>13. Sound(m, now)'
  BY <1>10, <1>11, <1>12 DEF Sound
<1>14. now \in 0 .. m
  BY <1>3, <1>8
<1> QED
  BY <1>2, <1>3, <1>13, <1>14 DEF Fine

\* The session ends.
LEMMA RunEndsSteps ==
  ASSUME NEW m, NEW at, Placed(m, at), Somewhere(at), RunEnds
  PROVE  Fine'
<1>1. /\ At("run") /\ pc' = "end" /\ UNCHANGED <<git, ahead, out, answered>>
      /\ HasCommand => Head(pipe).k = "blank" /\ pipe' = Tail(pipe)
      /\ ~HasCommand => flow # "open" /\ pipe' = <<>>
  BY DEF RunEnds
<1>2. /\ plan' = plan /\ turns' = turns /\ flow' = flow /\ answered' = answered /\ out' = out
  BY <1>1 DEF git
<1>3. /\ m \in Nat /\ at \in Nat /\ GoodPlan(plan) /\ Size(plan) \in Nat /\ m \in 0 .. Size(plan) + 2
      /\ Tape(m, at) /\ turns = Left(plan, m) /\ at <= m
  BY DEF Placed, Tape, TapeOf
<1>4. ASSUME Answered(at), m = Size(plan) + 2, plan.waits => answered = 2
      PROVE  Fine'
  <2>1. turns = <<>>
    BY <1>3, <1>4, LeftFacts
  <2>2. answered \in 1 .. 2 /\ out = MeantOf(Count)
    BY <1>4 DEF Answered
  <2>3. out' = MeantOf(Count)'
    BY <1>2, <2>2 DEF MeantOf, Count
  <2>4. Over'
    BY <1>1, <1>2, <1>4, <2>1, <2>2, <2>3 DEF Over
  <2> QED
    BY <2>4 DEF Fine
<1>5. CASE HasCommand
  <2>1. \A k, v : Line(k, v).k = k
    BY DEF Line
  <2>2. pipe # <<>> /\ ReadsWhole(m, at)
    BY <1>1, <1>5, CommandComes
  <2>3. Answered(at)
    <3>1. SUFFICES ASSUME Starting(at) PROVE FALSE
      BY <1>1, <2>2, RunReads
    <3>2. Unit(plan, at + 1) = Line("export", None)
      BY <1>1, <2>2, <3>1, RunReads
    <3> QED
      BY <1>1, <1>5, <2>1, <2>2, <3>2 DEF ReadsWhole
  <2>4. at = Size(plan) + 1 /\ m = Size(plan) + 2
    <3>1. at < Size(plan) + 2 /\ at + 1 <= m
      BY <1>3, <2>2 DEF ReadsWhole
    <3>2. at = Size(plan) + 1
      BY <1>1, <1>5, <2>1, <2>2, <2>3, <3>1, RunReads DEF ReadsWhole
    <3> QED
      BY <1>3, <3>1, <3>2
  <2>5. plan.waits => answered = 2
    BY <1>3, <2>3, <2>4 DEF Answered
  <2> QED
    BY <1>4, <2>3, <2>4, <2>5
<1>6. CASE ~HasCommand /\ pipe = <<>>
  <2>1. Starting(at) \/ Answered(at)
    BY <1>1 DEF Somewhere, At, AtNext, AtBody, AtReport
  <2>2. ahead = <<>>
    BY <2>1 DEF Starting, Answered
  <2>3. Len(ahead) = 0 /\ Len(pipe) = 0
    BY <1>6, <2>2, ShortSequences
  <2>4. PICK t \in {0, 1} : t = Torn(flow)
    BY DEF Torn
  <2>5. at + 0 + 0 = m + t
    BY <1>3, <2>3, <2>4 DEF Tape, TapeOf
  <2>6. at = m
    BY <1>3, <2>4, <2>5
  <2>7. CASE m <= Size(plan) + 1
    <3>1. m = at /\ flow # "open" /\ pipe' = <<>> /\ pc' \in {"end", "failed"}
      BY <1>1, <1>6, <2>6
    <3> QED
      BY <1>1, <2>7, <3>1, RunBreaks
  <2>8. CASE m = Size(plan) + 2
    <3>1. Answered(at)
      <4>1. Size(plan) >= 3
        BY <1>3, TextFacts DEF TextLaid
      <4>2. at # 0
        BY <1>3, <2>6, <2>8, <4>1
      <4> QED
        BY <2>1, <4>2 DEF Starting
    <3>2. plan.waits => answered = 2
      <4>1. answered \in 1 .. 2
        BY <3>1 DEF Answered
      <4>2. plan.waits => at = Size(plan) + (answered - 1)
        BY <3>1 DEF Answered
      <4> QED
        BY <1>3, <2>6, <2>8, <4>1, <4>2
    <3> QED
      BY <1>4, <2>8, <3>1, <3>2
  <2> QED
    BY <1>3, <2>7, <2>8
<1>7. CASE ~HasCommand /\ pipe # <<>>
  <2>1. ReadsTorn(m, at)
    BY <1>1, <1>7, CommandComes
  <2>2. m = at /\ m <= Size(plan) + 1 /\ flow # "open" /\ pipe' = <<>> /\ pc' \in {"end", "failed"}
    BY <1>1, <1>7, <2>1 DEF ReadsTorn
  <2> QED
    BY <1>1, <2>2, RunBreaks
<1> QED
  BY <1>5, <1>6, <1>7

\* Every command that comes is a known one.
LEMMA RunNeverFails ==
  ASSUME NEW m, NEW at, Placed(m, at), Somewhere(at), RunFails
  PROVE  FALSE
<1>1. At("run") /\ HasCommand /\ Head(pipe).k \notin {"export", "list", "blank"}
  BY DEF RunFails
<1>2. m \in Nat /\ at \in Nat /\ Size(plan) \in Nat /\ m \in 0 .. Size(plan) + 2
  BY DEF Placed
<1>3. pipe # <<>> /\ ReadsWhole(m, at)
  BY <1>1, CommandComes
<1>4. at < Size(plan) + 2 /\ Head(pipe) = Unit(plan, at + 1)
  BY <1>2, <1>3 DEF ReadsWhole
<1>5. \/ Unit(plan, at + 1) = Line("export", None) \/ Unit(plan, at + 1) = Line("list", None)
      \/ Unit(plan, at + 1) = Blank
  BY <1>1, <1>3, <1>4, RunReads
<1>6. \A k, v : Line(k, v).k = k
  BY DEF Line
<1> QED
  BY <1>1, <1>4, <1>5, <1>6 DEF Blank

\* The export is answered, and what was read ahead is dropped.
LEMMA ReportSteps ==
  ASSUME NEW m, NEW at, Placed(m, at), Somewhere(at), NEW chain, Report(chain)
  PROVE  Fine'
<1>1. /\ pc = "report" /\ answered' = answered + 1 /\ ahead' = <<>> /\ pc' = "run"
      /\ UNCHANGED <<plan, turns, flow, pipe, out>>
  BY DEF Report, At, git
<1>2. AtReport(at)
  BY <1>1 DEF Somewhere, Starting, AtNext, AtBody, Answered
<1>3. answered' = 1 /\ out = MeantOf(Count) /\ at = Size(plan) /\ answered = 0
  BY <1>1, <1>2 DEF AtReport
<1>4. /\ m \in Nat /\ at \in Nat /\ GoodPlan(plan) /\ Size(plan) \in Nat /\ m \in 0 .. Size(plan) + 2
      /\ TapeOf(plan, turns, flow, ahead, pipe, m, at) /\ turns = Left(plan, m) /\ at <= m
      /\ plan.waits => m <= Size(plan) + answered
  BY DEF Placed, Tape, TapeOf
<1>5. PICK r \in Nat : r = Len(ahead)
  BY <1>4 DEF TapeOf, Sequence
<1>6. PICK d \in 0 .. Len(ahead) : d = r
  BY <1>5
<1>7. SubSeq(ahead, d + 1, Len(ahead)) = <<>>
  <2>1. PICK u : u = SubSeq(ahead, r + 1, r)
    OBVIOUS
  <2>2. r + 1 \in Nat /\ 1 <= r + 1 /\ r <= Len(ahead) /\ Sequence(ahead) /\ r < r + 1
    BY <1>4, <1>5 DEF TapeOf
  <2>3. Sequence(u) /\ Len(u) = IF r < r + 1 THEN 0 ELSE r - (r + 1) + 1
    BY <2>1, <2>2, PartFacts
  <2>4. Len(u) = 0
    BY <2>2, <2>3
  <2>5. u = <<>>
    BY <2>3, <2>4, ShortSequences
  <2> QED
    BY <1>5, <1>6, <2>1, <2>5
<1>8. out' = MeantOf(Count)'
  BY <1>1, <1>3 DEF MeantOf, Count
<1>9. CASE at + d <= m
  <2>1. TapeOf(plan, turns, flow, SubSeq(ahead, d + 1, Len(ahead)), pipe, m, at + d)
    BY <1>4, <1>9, Used
  <2>2. Tape(m, at + d)'
    BY <1>1, <1>7, <2>1 DEF Tape
  <2>3. Answered(at + d)'
    <3>1. at + d >= Size(plan')
      BY <1>1, <1>3, <1>4, <1>5, <1>6
    <3>2. plan'.waits => at + d = Size(plan') + (answered' - 1)
      BY <1>1, <1>3, <1>4, <1>5, <1>6, <1>9
    <3> QED
      BY <1>1, <1>3, <1>8, <3>1, <3>2 DEF Answered
  <2>4. plan'.waits => m <= Size(plan') + answered'
    BY <1>1, <1>3, <1>4
  <2>5. Sound(m, at + d)'
    BY <2>2, <2>3, <2>4 DEF Sound
  <2>6. at + d \in 0 .. m
    BY <1>4, <1>5, <1>6, <1>9
  <2> QED
    BY <1>1, <1>4, <2>5, <2>6 DEF Fine
<1>10. CASE ~(at + d <= m)
  <2>1. AllUsed(flow, ahead, pipe, m, at, d)
    BY <1>4, <1>10, UsedUp
  <2>2. flow = "torn" /\ pipe = <<>>
    BY <2>1 DEF AllUsed
  <2>3. m < Size(plan) + 2
    BY <1>4, <2>2 DEF TapeOf
  <2>4. turns # <<>>
    BY <1>4, <2>3, LeftFacts
  <2>5. Died' /\ pipe' = <<>>
    BY <1>1, <2>2, <2>4 DEF Died
  <2>6. Short(out, MeantOf(Count), ShortCommand)
    <3>1. MeantInOrder(plan.commands) /\ Len(plan.commands) \in Nat
      BY <1>4, MeantFacts DEF GoodPlan, Sequence
    <3>2. Begins(MeantOf(Count), MeantOf(Count))
      BY <3>1 DEF MeantInOrder, MeantOf, Count
    <3> QED
      BY <1>3, <3>2, BeginsIsShort
  <2>7. PICK t : t = MeantOf(Count)
    OBVIOUS
  <2>8. t = MeantOf(Count)'
    BY <1>1, <2>7 DEF MeantOf, Count
  <2>9. Short(out', t, ShortCommand) /\ out' = t
    BY <1>1, <1>3, <2>6, <2>7
  <2>10. answered' <= 2
    BY <1>3
  <2>11. Broken'
    BY <1>1, <2>5, <2>8, <2>9, <2>10 DEF Broken
  <2> QED
    BY <2>11 DEF Fine
<1> QED
  BY <1>9, <1>10

-----------------------------------------------------------------------------
(* After the break, and at the end.                                        *)

\* What keeps the stream broken off.
LEMMA StaysBroken ==
  ASSUME Broken, UNCHANGED <<git, pipe>>, pc' # "body",
         Short(out', MeantOf(Count), ShortCommand), Len(turns) = 3 \/ out' = MeantOf(Count),
         pc' = "run" => ahead' = <<>>,
         pc' = "next" => Sequence(ahead') /\ \A a \in DOMAIN ahead' : Idle(ahead'[a]),
         answered' <= IF pc' \in {"next", "body", "report"} THEN 0 ELSE 2
  PROVE  Broken'
<1>1. plan' = plan /\ turns' = turns /\ flow' = flow /\ pipe' = pipe
  BY DEF git
<1>2. PICK t : t = MeantOf(Count)
  OBVIOUS
<1>3. t = MeantOf(Count)'
  BY <1>1, <1>2 DEF MeantOf, Count
<1>4. Short(out', t, ShortCommand) /\ (Len(turns') = 3 \/ out' = t)
  BY <1>1, <1>2
<1>5. Died' /\ pipe' = <<>>
  BY <1>1 DEF Broken, Died
<1> QED
  BY <1>3, <1>4, <1>5 DEF Broken

\* The command that was parsed is the last, and short.
LEMMA BrokenEnds ==
  ASSUME GoodPlan(plan), answered \in Nat, Broken, Ends
  PROVE  Broken'
<1>1. /\ pc = "body" /\ pc' = "next" /\ out' = Append(out, cur)
      /\ UNCHANGED <<git, pipe, ahead, answered>>
  BY DEF Ends, At
<1>2. ahead = <<>> /\ answered <= 0
  BY <1>1 DEF Broken
<1>3. PICK i \in 1 .. Count :
        /\ plan.commands[i].type # "noise" /\ out = MeantOf(i - 1)
        /\ ShortCommand(cur, Meant(plan.commands[i]))
  BY <1>1 DEF Broken
<1>4. PICK u : u = Meant(plan.commands[i])
  OBVIOUS
<1>5. PICK t : t = MeantOf(Count)
  OBVIOUS
<1>6. MeantInOrder(plan.commands)
  BY MeantFacts
<1>7. i \in 0 .. Len(plan.commands) /\ i - 1 \in 0 .. Len(plan.commands)
      /\ i \in 1 .. Len(plan.commands)
  BY DEF Count, GoodPlan, Sequence
<1>8. Begins(out, t)
  BY <1>3, <1>5, <1>6, <1>7 DEF MeantInOrder, MeantOf, Count
<1>9. Begins(Append(out, u), t)
  <2>1. MeantBy(plan.commands)[i] = Append(out, u)
    BY <1>3, <1>4, <1>6, <1>7 DEF MeantInOrder, MeantOf
  <2>2. Begins(MeantBy(plan.commands)[i], t)
    BY <1>5, <1>6, <1>7 DEF MeantInOrder, MeantOf, Count
  <2> QED
    BY <2>1, <2>2
<1>10. Short(out', t, ShortCommand)
  BY <1>1, <1>3, <1>4, <1>8, <1>9, ShortLast
<1>11. Len(turns) = 3
  <2>1. Len(Append(out, u)) = Len(out) + 1 /\ Len(out) \in Nat /\ Sequence(out)
    <3>1. Sequence(out) /\ Len(out) \in Nat
      BY <1>8 DEF Begins, Sequence
    <3> QED
      BY <3>1, AppendElement
  <2>2. Len(out) + 1 <= Len(t)
    BY <1>9, <2>1 DEF Begins
  <2>3. out # t
    BY <2>1, <2>2
  <2> QED
    BY <1>5, <2>3 DEF Broken
<1>12. Sequence(ahead') /\ \A a \in DOMAIN ahead' : Idle(ahead'[a])
  <2>1. ahead' = <<>>
    BY <1>1, <1>2
  <2>2. DOMAIN ahead' = 1 .. Len(ahead') /\ Len(ahead') = 0 /\ Sequence(ahead')
    BY <2>1, ShortSequences, SequenceSet
  <2> QED
    BY <2>2
<1> QED
  BY <1>1, <1>2, <1>5, <1>10, <1>11, <1>12, StaysBroken

\* What follows is skipped.
LEMMA BrokenSkips ==
  ASSUME Broken, NextSkips
  PROVE  Broken'
<1>1. pc = "next" /\ pc' = pc /\ ahead' = Rest(ahead) /\ UNCHANGED <<git, pipe, out, answered>>
  BY DEF NextSkips, At
<1>2. Sequence(ahead) /\ \A a \in DOMAIN ahead : Idle(ahead[a])
  BY <1>1 DEF Broken
<1>3. Sequence(ahead') /\ \A a \in DOMAIN ahead' : Idle(ahead'[a])
  <2>1. CASE Rest(ahead) = <<>>
    <3>1. ahead' = <<>>
      BY <1>1, <2>1
    <3>2. DOMAIN ahead' = 1 .. Len(ahead') /\ Len(ahead') = 0 /\ Sequence(ahead')
      BY <3>1, ShortSequences, SequenceSet
    <3> QED
      BY <3>2
  <2>2. CASE \E n \in 1 .. Len(ahead) : Rest(ahead) = SubSeq(ahead, n + 1, Len(ahead))
    <3>1. PICK n \in 1 .. Len(ahead) : Rest(ahead) = SubSeq(ahead, n + 1, Len(ahead))
      BY <2>2
    <3>2. PICK r \in Nat : r = Len(ahead)
      BY <1>2 DEF Sequence
    <3>3. n \in 0 .. r /\ n \in Nat /\ r - n \in Nat
      BY <3>2
    <3>4. PICK s : s = SubSeq(ahead, n + 1, Len(ahead))
      OBVIOUS
    <3>5. Sequence(s) /\ Len(s) = r - n /\ \A j \in 1 .. r - n : s[j] = ahead[n + j]
      <4>1. n + 1 \in Nat /\ r \in Nat /\ 1 <= n + 1 /\ r <= Len(ahead)
        BY <3>2, <3>3
      <4>2. /\ Sequence(s) /\ Len(s) = IF r < n + 1 THEN 0 ELSE r - (n + 1) + 1
            /\ \A j \in 1 .. Len(s) : s[j] = ahead[(n + 1) + j - 1]
        BY <1>2, <3>2, <3>4, <4>1, PartFacts
      <4>3. Len(s) = r - n
        BY <3>2, <3>3, <4>2
      <4>4. \A j \in 1 .. r - n : (n + 1) + j - 1 = n + j
        BY <3>3
      <4> QED
        BY <4>2, <4>3, <4>4
    <3>6. DOMAIN s = 1 .. r - n
      BY <3>5, SequenceSet
    <3>7. ASSUME NEW j \in 1 .. r - n PROVE Idle(s[j])
      <4>1. n + j \in 1 .. r
        BY <3>2, <3>3
      <4>2. DOMAIN ahead = 1 .. r
        BY <1>2, <3>2, SequenceSet
      <4> QED
        BY <1>2, <3>5, <4>1, <4>2
    <3> QED
      BY <1>1, <3>1, <3>4, <3>5, <3>6, <3>7
  <2> QED
    BY <1>2, <2>1, <2>2, RestFacts
<1>4. answered' <= IF pc' \in {"next", "body", "report"} THEN 0 ELSE 2
  BY <1>1 DEF Broken
<1>5. Short(out', MeantOf(Count), ShortCommand) /\ (Len(turns) = 3 \/ out' = MeantOf(Count))
  BY <1>1 DEF Broken
<1> QED
  BY <1>1, <1>3, <1>4, <1>5, StaysBroken

\* A stream that has broken off stays so.
LEMMA BrokenSteps ==
  ASSUME GoodPlan(plan), answered \in Nat, Broken, Next
  PROVE  Broken'
<1>1. /\ flow # "open" /\ pipe = <<>> /\ Short(out, MeantOf(Count), ShortCommand)
      /\ Len(turns) = 3 \/ out = MeantOf(Count)
      /\ pc = "run" => ahead = <<>>
      /\ pc = "next" => Sequence(ahead) /\ \A a \in DOMAIN ahead : Idle(ahead[a])
      /\ pc = "body" => ahead = <<>>
      /\ answered <= IF pc \in {"next", "body", "report"} THEN 0 ELSE 2
  BY DEF Broken, Died
<1>2. ~GitWrites /\ ~GitCloses /\ ~RunExport /\ ~RunList /\ ~RunFails /\ ~Fill
  <2>1. ~HasCommand
    BY <1>1 DEF HasCommand
  <2> QED
    BY <1>1, <2>1 DEF GitWrites, GitCloses, RunExport, RunList, RunFails, Fill
<1>3. pc = "body" => ~HasLine /\ ~DataGood(ahead)
  BY <1>1 DEF HasLine, DataGood
<1>4. ~Header /\ ~Data /\ ~FileModify /\ ~FileDelete /\ ~BlankLine
  BY <1>3 DEF Header, Data, FileModify, FileDelete, BlankLine, At
<1>5. pc = "next" /\ HasLine => Idle(ThisLine)
  <2>1. SUFFICES ASSUME pc = "next", HasLine PROVE Idle(ThisLine)
    OBVIOUS
  <2>2. Idle(Text)
    BY DEF Idle, Text, Line, Types
  <2>3. CASE ThisLine = ahead[1] /\ ahead # <<>>
    <3>1. 1 \in DOMAIN ahead
      <4>1. Sequence(ahead) /\ Len(ahead) # 0
        BY <1>1, <2>1, <2>3, ShortSequences
      <4>2. DOMAIN ahead = 1 .. Len(ahead) /\ Len(ahead) \in Nat
        BY <4>1, SequenceSet DEF Sequence
      <4> QED
        BY <4>1, <4>2
    <3> QED
      BY <1>1, <2>1, <2>3, <3>1
  <2> QED
    BY <2>2, <2>3 DEF ThisLine
<1>6. ~NextBegins
  BY <1>5 DEF NextBegins, At, Idle
<1>7. ASSUME RunEnds PROVE Broken'
  <2>1. pc = "run" /\ pc' = "end" /\ UNCHANGED <<git, pipe, ahead, out, answered>>
    BY <1>1, <1>7 DEF RunEnds, HasCommand, At
  <2>2. answered' <= IF pc' \in {"next", "body", "report"} THEN 0 ELSE 2
    BY <1>1, <2>1
  <2> QED
    BY <1>1, <2>1, <2>2, StaysBroken
<1>8. ASSUME NextEnds PROVE Broken'
  <2>1. pc = "next" /\ pc' = "report" /\ UNCHANGED <<git, pipe, out, answered>>
    BY <1>8 DEF NextEnds, At
  <2>2. answered' <= IF pc' \in {"next", "body", "report"} THEN 0 ELSE 2
    BY <1>1, <2>1
  <2> QED
    BY <1>1, <2>1, <2>2, StaysBroken
<1>9. ASSUME BodyFails PROVE Broken'
  <2>1. pc = "body" /\ pc' = "failed" /\ UNCHANGED <<git, pipe, out, answered>>
    BY <1>9 DEF BodyFails, At
  <2>2. answered' <= IF pc' \in {"next", "body", "report"} THEN 0 ELSE 2
    BY <1>1, <2>1
  <2> QED
    BY <1>1, <2>1, <2>2, StaysBroken
<1>10. ASSUME NEW chain \in BOOLEAN, Report(chain) PROVE Broken'
  <2>1. /\ pc = "report" /\ pc' = "run" /\ UNCHANGED <<git, pipe, out>> /\ answered' = answered + 1
        /\ ahead' = <<>>
    BY <1>10 DEF Report, At
  <2>2. answered' <= IF pc' \in {"next", "body", "report"} THEN 0 ELSE 2
    BY <1>1, <2>1
  <2> QED
    BY <1>1, <2>1, <2>2, StaysBroken
<1> QED
  BY <1>2, <1>4, <1>6, <1>7, <1>8, <1>9, <1>10, BrokenEnds, BrokenSkips DEF Next, Helper

\* The end stays the end.
LEMMA OverSteps ==
  ASSUME Over, Next
  PROVE  Over'
<1>1. pc = "end" /\ out = MeantOf(Count) /\ answered \in 1 .. 2 /\ (flow # "open" \/ turns = <<>>)
      /\ (plan.waits => Died \/ answered = 2)
  BY DEF Over
<1>2. ~Helper /\ ~GitWrites
  BY <1>1 DEF Helper, GitWrites, RunExport, RunList, RunEnds, RunFails, Fill, NextBegins, NextSkips,
     NextEnds, Header, Data, FileModify, FileDelete, BlankLine, Ends, BodyFails, Report, At, Parsing
<1>3. GitCloses
  BY <1>2 DEF Next
<1>4. flow' # "open" /\ UNCHANGED <<plan, turns, out, pc, answered>>
  BY <1>3 DEF GitCloses, helper
<1>5. out' = MeantOf(Count)'
  BY <1>1, <1>4 DEF MeantOf, Count
<1>6. Died => Died'
  BY <1>4 DEF Died
<1> QED
  BY <1>1, <1>4, <1>5, <1>6 DEF Over

-----------------------------------------------------------------------------
(* The invariant holds.                                                    *)

\* Every step from a place in the text.
LEMMA SoundSteps ==
  ASSUME Harmless, GoodPlan(plan), NEW m \in 0 .. Size(plan) + 2, NEW at \in 0 .. m,
         Sound(m, at), Next
  PROVE  Fine'
<1>1. Placed(m, at) /\ Somewhere(at)
  BY TextFacts DEF Placed, Somewhere, Sound, TextLaid
<1>2. pc = "next" => AtNext(at)
  BY <1>1 DEF Somewhere, Starting, AtBody, AtReport, Answered
<1>3. pc = "body" => AtBody(at)
  BY <1>1 DEF Somewhere, Starting, AtNext, AtReport, Answered
<1>4. ASSUME GitWrites \/ GitCloses \/ RunExport \/ RunList \/ RunEnds \/ RunFails \/ Fill
      PROVE  Fine'
  BY <1>1, <1>4, GitWritesSteps, GitClosesSteps, RunExportSteps, RunListSteps, RunEndsSteps,
     RunNeverFails, FillSteps
<1>5. ASSUME NextBegins \/ NextSkips \/ NextEnds
      PROVE  Fine'
  <2>1. pc = "next"
    BY <1>5 DEF NextBegins, NextSkips, NextEnds, At
  <2>2. PICK i : NextHere(m, at, i)
    BY <1>1, <1>2, <2>1, IsNext
  <2> QED
    BY <1>5, <2>2, NextBeginsSteps, NextSkipsSteps, NextEndsSteps
<1>6. ASSUME Header \/ Data \/ FileModify \/ FileDelete \/ BlankLine \/ Ends \/ BodyFails
      PROVE  Fine'
  <2>1. pc = "body"
    BY <1>6 DEF Header, Data, FileModify, FileDelete, BlankLine, Ends, BodyFails, At
  <2>2. PICK i, x, L : Here(m, at, i, x, L)
    BY <1>3, <2>1, IsHere
  <2> QED
    BY <1>6, <2>2, HeaderSteps, DataSteps, FileModifySteps, FileDeleteSteps, BlankLineSteps,
       EndsSteps, BodyFailsSteps
<1>7. ASSUME NEW chain \in BOOLEAN, Report(chain)
      PROVE  Fine'
  BY <1>1, <1>7, ReportSteps
<1> QED
  BY <1>4, <1>5, <1>6, <1>7 DEF Next, Helper

\* Nothing changes where nothing happens.
LEMMA FineStutters ==
  ASSUME Fine, UNCHANGED vars
  PROVE  Fine'
<1>1. /\ plan' = plan /\ turns' = turns /\ flow' = flow /\ pipe' = pipe /\ ahead' = ahead
      /\ pc' = pc /\ cur' = cur /\ out' = out /\ answered' = answered
  BY DEF vars, git, helper
<1>2. Count' = Count /\ \A i : MeantOf(i)' = MeantOf(i)
  BY <1>1 DEF Count, MeantOf
<1>3. CASE Over
  <2>1. Over'
    BY <1>1, <1>2, <1>3 DEF Over, Died
  <2> QED
    BY <2>1 DEF Fine
<1>4. CASE Broken
  <2>1. Broken'
    BY <1>1, <1>2, <1>4 DEF Broken, Died
  <2> QED
    BY <2>1 DEF Fine
<1>5. ASSUME NEW m \in 0 .. Size(plan) + 2, NEW at \in 0 .. m, Sound(m, at)
      PROVE  Fine'
  <2>1. Somewhere(at)'
    BY <1>1, <1>5, StaysThere DEF Sound, Somewhere
  <2>2. Tape(m, at)'
    BY <1>1, <1>5 DEF Sound, Tape
  <2>3. Sound(m, at)'
    BY <1>1, <1>5, <2>1, <2>2 DEF Sound, Somewhere
  <2> QED
    BY <1>1, <1>5, <2>3 DEF Fine
<1> QED
  BY <1>3, <1>4, <1>5 DEF Fine

\* At first nothing is written.
LEMMA FineAtFirst ==
  ASSUME Init
  PROVE  Fine
<1>1. GoodPlan(plan)
  BY StreamAssumption DEF Init
<1>2. Size(plan) \in Nat
  BY <1>1, TextFacts DEF TextLaid
<1>3. turns = Left(plan, 0)
  BY <1>1, LeftAtFirst DEF Init
<1>4. flow = "open" /\ pipe = <<>> /\ ahead = <<>> /\ Len(ahead) = 0 /\ Len(pipe) = 0
      /\ Sequence(ahead) /\ Sequence(pipe)
  BY ShortSequences DEF Init
<1>5. 0 + Len(ahead) + Len(pipe) = 0 + Torn(flow)
  BY <1>4 DEF Torn
<1>6. Tape(0, 0)
  BY <1>3, <1>4, <1>5 DEF Tape, TapeOf
<1>7. Starting(0) /\ answered = 0
  BY DEF Init, Starting
<1>8. Sound(0, 0)
  BY <1>2, <1>6, <1>7 DEF Sound
<1>9. 0 \in 0 .. Size(plan) + 2 /\ 0 \in 0 .. 0
  BY <1>2
<1> QED
  BY <1>8, <1>9 DEF Fine

\* The command that is parsed keeps its form.
LEMMA CurKeepsForm ==
  ASSUME cur = Parsed(cur, cur.head, cur.data, cur.ops), NEW v,
         \/ cur' = [cur EXCEPT !.head = v] \/ cur' = [cur EXCEPT !.data = v]
         \/ cur' = [cur EXCEPT !.ops = v]
  PROVE  cur'.type = cur.type /\ cur' = Parsed(cur', cur'.head, cur'.data, cur'.ops)
<1>1. PICK t, o, h, d, b : t = cur.type /\ o = cur.of /\ h = cur.head /\ d = cur.data /\ b = cur.ops
  OBVIOUS
<1>2. cur = [type |-> t, of |-> o, head |-> h, data |-> d, ops |-> b]
  BY <1>1 DEF Parsed
<1> HIDE <1>1
<1>3. \/ cur' = [type |-> t, of |-> o, head |-> v, data |-> d, ops |-> b]
      \/ cur' = [type |-> t, of |-> o, head |-> h, data |-> v, ops |-> b]
      \/ cur' = [type |-> t, of |-> o, head |-> h, data |-> d, ops |-> v]
  BY <1>2
<1> QED
  BY <1>2, <1>3 DEF Parsed

\* Every step keeps what the variables are.
LEMMA BasicSteps ==
  ASSUME Basic, Next
  PROVE  Basic'
<1>1. GoodPlan(plan)
  BY StreamAssumption DEF Basic
<1>2. Size(plan) \in Nat
  BY <1>1, TextFacts DEF TextLaid
<1>3. PICK m \in 0 .. Size(plan) + 2 : turns = Left(plan, m)
  BY DEF Basic
<1>4. CASE GitWrites
  <2>1. /\ turns # <<>> /\ plan' = plan /\ flow' = flow /\ UNCHANGED helper
        /\ turns' = IF Len(Head(turns)) = 1 THEN Tail(turns) ELSE <<Tail(Head(turns))>> \o Tail(turns)
    BY <1>4 DEF GitWrites
  <2>2. m < Size(plan) + 2
    BY <1>1, <1>2, <1>3, <2>1, LeftFacts
  <2>3. m \in 0 .. Size(plan) + 1 /\ m + 1 \in 0 .. Size(plan) + 2
    BY <1>2, <2>2
  <2>4. turns' = Left(plan, m + 1)
    BY <1>1, <1>3, <2>1, <2>3, LeftNext
  <2>5. \E n \in 0 .. Size(plan') + 2 : turns' = Left(plan', n)
    BY <2>1, <2>3, <2>4
  <2> QED
    BY <2>1, <2>5 DEF Basic, helper, Parsing
<1>5. CASE GitCloses
  BY <1>5 DEF Basic, GitCloses, helper, Parsing
<1>6. CASE Helper
  <2>1. UNCHANGED git
    BY <1>6 DEF Helper, RunExport, RunList, RunEnds, RunFails, Fill, NextBegins, NextSkips,
       NextEnds, Header, Data, FileModify, FileDelete, BlankLine, Ends, BodyFails, Report
  <2>2. /\ plan' \in Plans /\ (\E n \in 0 .. Size(plan') + 2 : turns' = Left(plan', n))
        /\ flow' \in {"open", "closed", "torn"}
    BY <2>1 DEF git, Basic
  <2>3. /\ pc \in {"run", "next", "body", "report", "end", "failed"}
        /\ pc \notin {"body", "failed"} => cur = None
        /\ pc = "body" => cur.type \in Types /\ cur = Parsed(cur, cur.head, cur.data, cur.ops)
        /\ ~Parsing => ahead = <<>> \/ pc \in {"report", "failed"}
        /\ answered \in Nat /\ (answer # None => answered > 0)
    BY DEF Basic
  <2>4. CASE RunExport \/ RunList \/ RunEnds \/ RunFails
    <3>1. /\ pc = "run" /\ UNCHANGED <<ahead, cur, answer>> /\ pc' \in {"run", "next", "end", "failed"}
          /\ answered' = answered \/ answered' = answered + 1
      BY <2>4 DEF RunExport, RunList, RunEnds, RunFails, At
    <3>2. cur = None /\ ahead = <<>> /\ answered' \in Nat /\ (answer # None => answered' > 0)
      BY <2>3, <3>1 DEF Parsing
    <3> QED
      BY <2>2, <3>1, <3>2 DEF Basic, Parsing
  <2>5. CASE Fill
    <3>1. Parsing /\ UNCHANGED <<pc, cur, out, answered, answer>>
      BY <2>5 DEF Fill
    <3> QED
      BY <2>2, <2>3, <3>1 DEF Basic, Parsing
  <2>6. CASE NextBegins
    <3>1. /\ pc' = "body" /\ UNCHANGED <<answered, answer>> /\ ThisLine.k \in Types
          /\ cur' = [type |-> ThisLine.k, of |-> ThisLine.v, head |-> <<>>, data |-> <<>>, ops |-> <<>>]
      BY <2>6 DEF NextBegins
    <3>2. cur'.type \in Types /\ cur' = Parsed(cur', cur'.head, cur'.data, cur'.ops)
      BY <3>1 DEF Parsed
    <3> QED
      BY <2>2, <2>3, <3>1, <3>2 DEF Basic, Parsing
  <2>7. CASE NextSkips \/ NextEnds
    <3>1. pc = "next" /\ pc' \in {"next", "report"} /\ UNCHANGED <<cur, answered, answer>>
      BY <2>7 DEF NextSkips, NextEnds, At
    <3> QED
      BY <2>2, <2>3, <3>1 DEF Basic, Parsing
  <2>8. ASSUME pc = "body", UNCHANGED <<pc, answered, answer>>,
               cur' = cur \/ \E v : \/ cur' = [cur EXCEPT !.head = v]
                                    \/ cur' = [cur EXCEPT !.data = v]
                                    \/ cur' = [cur EXCEPT !.ops = v]
        PROVE  Basic'
    <3>1. cur'.type \in Types /\ cur' = Parsed(cur', cur'.head, cur'.data, cur'.ops)
      <4>1. CASE cur' = cur
        BY <2>3, <2>8, <4>1
      <4>2. CASE \E v : \/ cur' = [cur EXCEPT !.head = v]
                        \/ cur' = [cur EXCEPT !.data = v]
                        \/ cur' = [cur EXCEPT !.ops = v]
        BY <2>3, <2>8, <4>2, CurKeepsForm
      <4> QED
        BY <2>8, <4>1, <4>2
    <3> QED
      BY <2>2, <2>3, <2>8, <3>1 DEF Basic, Parsing
  <2>9. ASSUME pc = "body", pc' = "next", cur' = None, UNCHANGED <<answered, answer>>
        PROVE  Basic'
    BY <2>2, <2>3, <2>9 DEF Basic, Parsing
  <2>10. CASE Header \/ FileDelete \/ BlankLine
    <3>1. /\ pc = "body" /\ UNCHANGED <<pc, answered, answer>>
          /\ cur' = cur \/ \E v : \/ cur' = [cur EXCEPT !.head = v]
                                  \/ cur' = [cur EXCEPT !.data = v]
                                  \/ cur' = [cur EXCEPT !.ops = v]
      BY <2>10 DEF Header, FileDelete, BlankLine, At
    <3> QED
      BY <2>8, <3>1
  <2>11. CASE FileModify
    <3>1. pc = "body" /\ UNCHANGED <<pc, answered, answer>>
      BY <2>11 DEF FileModify, At
    <3>2. cur' = cur \/ \E v : cur' = [cur EXCEPT !.ops = v]
      BY <2>11 DEF FileModify
    <3> QED
      BY <2>8, <3>1, <3>2
  <2>12. CASE Data
    <3>1. pc = "body" /\ UNCHANGED <<answered, answer>>
      BY <2>12 DEF Data, At
    <3>2. CASE cur.type = "blob"
      <4>1. pc' = "next" /\ cur' = None
        BY <2>12, <3>2 DEF Data
      <4> QED
        BY <2>9, <3>1, <4>1
    <3>3. CASE cur.type # "blob"
      <4>1. pc' = pc /\ cur' = [cur EXCEPT !.data = DataOf(ahead)]
        BY <2>12, <3>3 DEF Data
      <4> QED
        BY <2>8, <3>1, <4>1
    <3> QED
      BY <3>2, <3>3
  <2>13. CASE Ends
    <3>1. pc = "body" /\ pc' = "next" /\ cur' = None /\ UNCHANGED <<answered, answer>>
      BY <2>13 DEF Ends, At
    <3> QED
      BY <2>9, <3>1
  <2>14. CASE BodyFails
    <3>1. pc' = "failed" /\ UNCHANGED <<answered, answer>>
      BY <2>14 DEF BodyFails
    <3> QED
      BY <2>2, <2>3, <3>1 DEF Basic, Parsing
  <2>15. ASSUME NEW chain \in BOOLEAN, Report(chain)
         PROVE  Basic'
    <3>1. /\ pc = "report" /\ pc' = "run" /\ ahead' = <<>> /\ cur' = cur /\ answered' = answered + 1
      BY <2>15 DEF Report, At
    <3>2. answered' \in Nat /\ answered' > 0 /\ cur' = None
      BY <2>3, <3>1
    <3> QED
      BY <2>2, <3>1, <3>2 DEF Basic, Parsing
  <2> QED
    BY <1>6, <2>4, <2>5, <2>6, <2>7, <2>10, <2>11, <2>12, <2>13, <2>14, <2>15, SMTT(60) DEF Helper
<1> QED
  BY <1>4, <1>5, <1>6 DEF Next

\* The answer is for what was parsed: nothing is parsed after it.
LEMMA AnswerSteps ==
  ASSUME Basic, Fine, Next, AnswerMatches
  PROVE  AnswerMatches'
<1>1. CASE UNCHANGED <<out, answer>>
  BY <1>1 DEF AnswerMatches, Named
<1>2. CASE pc = "body" /\ answer' = answer
  <2>1. answered <= 0
    <3>1. Over => FALSE
      BY <1>2 DEF Over
    <3>2. Broken => answered <= 0
      BY <1>2 DEF Broken
    <3>3. \A m, at : Sound(m, at) => answered = 0
      BY <1>2 DEF Sound, Starting, AtNext, AtBody, AtReport, Answered
    <3> QED
      BY <3>1, <3>2, <3>3 DEF Fine
  <2>2. answer = None
    BY <2>1 DEF Basic
  <2> QED
    BY <1>2, <2>2 DEF AnswerMatches
<1>3. ASSUME NEW chain \in BOOLEAN, Report(chain)
      PROVE  AnswerMatches'
  <2>1. answer' = [chain |-> chain, refs |-> Named(chain)] /\ out' = out
    BY <1>3 DEF Report
  <2>2. answer'.chain = chain /\ answer'.refs = Named(chain)
    BY <2>1
  <2> QED
    BY <2>1, <2>2 DEF AnswerMatches, Named
<1>4. CASE GitWrites \/ GitCloses
  BY <1>1, <1>4 DEF GitWrites, GitCloses, helper
<1>5. CASE RunExport \/ RunList \/ RunEnds \/ RunFails \/ Fill \/ NextBegins \/ NextSkips \/ NextEnds
  BY <1>1, <1>5 DEF RunExport, RunList, RunEnds, RunFails, Fill, NextBegins, NextSkips, NextEnds
<1>6. CASE Header \/ Data \/ FileModify \/ FileDelete \/ BlankLine \/ Ends \/ BodyFails
  <2>1. pc = "body" /\ answer' = answer
    BY <1>6 DEF Header, Data, FileModify, FileDelete, BlankLine, Ends, BodyFails, At
  <2> QED
    BY <1>2, <2>1
<1> QED
  BY <1>3, <1>4, <1>5, <1>6 DEF Next, Helper

\* Every state of a session is as StreamInv says.
THEOREM SessionStands == Spec => []StreamInv
<1>1. Init => StreamInv
  <2>1. SUFFICES ASSUME Init PROVE StreamInv
    OBVIOUS
  <2>2. GoodPlan(plan)
    BY <2>1, StreamAssumption DEF Init
  <2>3. Size(plan) \in Nat
    BY <2>2, TextFacts DEF TextLaid
  <2>4. turns = Left(plan, 0) /\ 0 \in 0 .. Size(plan) + 2
    BY <2>1, <2>2, <2>3, LeftAtFirst DEF Init
  <2>5. Basic
    BY <2>1, <2>4 DEF Basic, Init
  <2>6. AnswerMatches
    BY <2>1 DEF AnswerMatches, Init
  <2> QED
    BY <2>1, <2>5, <2>6, FineAtFirst DEF StreamInv
<1>2. StreamInv /\ [Next]_vars => StreamInv'
  <2>1. SUFFICES ASSUME StreamInv, [Next]_vars PROVE StreamInv'
    OBVIOUS
  <2>2. GoodPlan(plan) /\ Basic /\ answered \in Nat
    BY <2>1, StreamAssumption DEF StreamInv, Basic
  <2>3. CASE Next
    <3>1. plan' = plan
      BY <2>3 DEF Next, GitWrites, GitCloses, Helper, git, RunExport, RunList, RunEnds, RunFails,
         Fill, NextBegins, NextSkips, NextEnds, Header, Data, FileModify, FileDelete, BlankLine,
         Ends, BodyFails, Report
    <3>2. Harmless' => Harmless
      BY <3>1 DEF Harmless
    <3>3. Basic'
      BY <2>2, <2>3, BasicSteps
    <3>4. ASSUME Harmless PROVE Fine' /\ AnswerMatches'
      <4>1. Fine /\ AnswerMatches
        BY <2>1, <3>4 DEF StreamInv
      <4>2. AnswerMatches'
        BY <2>2, <2>3, <4>1, AnswerSteps
      <4>3. CASE Over
        BY <2>3, <4>2, <4>3, OverSteps DEF Fine
      <4>4. CASE Broken
        BY <2>2, <2>3, <4>2, <4>4, BrokenSteps DEF Fine
      <4>5. ASSUME NEW m \in 0 .. Size(plan) + 2, NEW at \in 0 .. m, Sound(m, at) PROVE Fine'
        BY <2>2, <2>3, <3>4, <4>5, SoundSteps
      <4> QED
        BY <4>1, <4>2, <4>3, <4>4, <4>5 DEF Fine
    <3> QED
      BY <3>2, <3>3, <3>4, SMTT(60) DEF StreamInv
  <2>4. CASE UNCHANGED vars
    <3>1. Basic'
      BY <2>2, <2>4 DEF Basic, vars, git, helper, Parsing
    <3>2. AnswerMatches => AnswerMatches'
      BY <2>4 DEF AnswerMatches, Named, vars, helper
    <3>3. Harmless' => Harmless
      BY <2>4 DEF Harmless, vars, git
    <3> QED
      BY <2>1, <2>4, <3>1, <3>2, <3>3, FineStutters DEF StreamInv
  <2> QED
    BY <2>1, <2>3, <2>4
<1> QED
  BY <1>1, <1>2, PTL DEF Spec

-----------------------------------------------------------------------------
(* What the invariant says.                                                *)

\* Every variable has its type; the answers are counted.
THEOREM StreamIsTyped == Spec => []TypeOK
<1>1. StreamInv => TypeOK
  <2>1. SUFFICES ASSUME StreamInv PROVE TypeOK
    OBVIOUS
  <2>2. GoodPlan(plan) /\ Basic
    BY <2>1, StreamAssumption DEF StreamInv, Basic
  <2>3. PICK m \in 0 .. Size(plan) + 2 : turns = Left(plan, m)
    BY <2>2 DEF Basic
  <2>4. Size(plan) \in Nat
    BY <2>2, TextFacts DEF TextLaid
  <2>5. Len(turns) <= 3
    <3>1. m < Size(plan) => Len(turns) = 3
      BY <2>2, <2>3, LeftFacts
    <3>2. m = Size(plan) => Len(turns) = 2
      BY <2>2, <2>3, LeftFacts
    <3>3. m = Size(plan) + 1 => Len(turns) = 1
      BY <2>2, <2>3, LeftFacts
    <3>4. m = Size(plan) + 2 => Len(turns) = 0
      BY <2>2, <2>3, LeftFacts, ShortSequences
    <3>5. m < Size(plan) \/ m = Size(plan) \/ m = Size(plan) + 1 \/ m = Size(plan) + 2
      BY <2>4
    <3>6. \E k \in 0 .. 3 : Len(turns) = k
      BY <3>1, <3>2, <3>3, <3>4, <3>5
    <3>7. \A k \in 0 .. 3 : k <= 3
      OBVIOUS
    <3> QED
      BY <3>6, <3>7
  <2>6. Harmless => answered <= 2
    <3>1. SUFFICES ASSUME Harmless PROVE answered <= 2
      OBVIOUS
    <3>2. Fine
      BY <2>1, <3>1 DEF StreamInv
    <3>3. answered \in Nat
      BY <2>2 DEF Basic
    <3>4. CASE Over
      BY <3>4 DEF Over
    <3>5. CASE Broken
      BY <3>3, <3>5 DEF Broken
    <3>6. ASSUME NEW k, NEW at, Sound(k, at) PROVE answered <= 2
      <4>1. answered \in 0 .. 2
        BY <3>6, FewAnswers DEF Sound, Somewhere
      <4> QED
        BY <4>1
    <3> QED
      BY <3>2, <3>4, <3>5, <3>6 DEF Fine
  <2> QED
    BY <2>2, <2>5, <2>6 DEF TypeOK, Basic
<1> QED
  BY <1>1, SessionStands, PTL

\* What an export that was answered has given: all that was written.
LEMMA AnsweredWhole ==
  ASSUME StreamInv, answer # None, Whole, Harmless
  PROVE  out = Expected
<1>1. Fine /\ answered > 0 /\ answered \in Nat
  BY DEF StreamInv, Basic
<1>2. MeantOf(Count) = Expected
  BY DEF MeantOf, Count, Expected
<1>3. CASE Over
  BY <1>2, <1>3 DEF Over
<1>4. CASE Broken
  <2>1. Len(turns) = 3 => FALSE
    BY DEF Whole
  <2> QED
    BY <1>2, <1>4, <2>1 DEF Broken
<1>5. ASSUME NEW m, NEW at, Sound(m, at) PROVE out = Expected
  <2>1. Answered(at)
    BY <1>1, <1>5, FewAnswers DEF Sound, Somewhere
  <2> QED
    BY <1>2, <2>1 DEF Answered
<1> QED
  BY <1>1, <1>3, <1>4, <1>5 DEF Fine

\* The parser gives the commands that were written, in their order, each with
\* all of its headers, data and file changes, whatever the export is, whatever
\* its data look like and wherever the reads of the pipe end.
THEOREM ExportIsParsed == Spec => []ParsedAsWritten
<1>1. StreamInv => ParsedAsWritten
  BY AnsweredWhole DEF ParsedAsWritten
<1> QED
  BY <1>1, SessionStands, PTL

\* The answer names the refs of the commits, and those of the resets too if no
\* chain is configured.
THEOREM RefsAreAnswered == Spec => []RefsAnswered
<1>1. StreamInv => RefsAnswered
  <2>1. SUFFICES ASSUME StreamInv, answer # None, Whole, Harmless
                 PROVE  answer.refs = {c.of : c \in {d \in ToSet(Expected) :
                          d.type = "commit" \/ (d.type = "reset" /\ ~answer.chain)}}
    BY DEF RefsAnswered
  <2>2. out = Expected
    BY <2>1, AnsweredWhole
  <2>3. answer.refs = Named(answer.chain)
    BY <2>1 DEF StreamInv, AnswerMatches
  <2> QED
    BY <2>2, <2>3 DEF Named
<1> QED
  BY <1>1, SessionStands, PTL

\* A beginning is a prefix.
LEMMA BeginsIsPrefix ==
  ASSUME NEW s, NEW t, Begins(s, t)
  PROVE  IsPrefix(s, t)
<1>1. PICK n \in Nat : n = Len(s)
  BY DEF Begins, Sequence
<1>2. Sequence(s) /\ Sequence(t) /\ Len(s) <= Len(t) /\ n \in 0 .. Len(s) /\ n \in 0 .. Len(t)
  BY <1>1 DEF Begins, Sequence
<1>3. PICK u : u = SubSeq(s, 1, n)
  OBVIOUS
<1>4. PICK v : v = SubSeq(t, 1, n)
  OBVIOUS
<1>5. Sequence(u) /\ Len(u) = n /\ \A i \in 1 .. n : u[i] = s[i]
  BY <1>1, <1>2, <1>3 DEF Sequence
<1>6. Sequence(v) /\ Len(v) = n /\ \A i \in 1 .. n : v[i] = t[i]
  BY <1>1, <1>2, <1>4 DEF Sequence
<1>7. u = v
  <2>1. \A i \in 1 .. Len(u) : u[i] = v[i]
    BY <1>1, <1>5, <1>6 DEF Begins
  <2> QED
    BY <1>5, <1>6, <2>1, SameSequence
<1> QED
  BY <1>1, <1>2, <1>3, <1>4, <1>7 DEF IsPrefix

\* While the stream comes in, and when it breaks off anywhere, the parser has
\* no command that was not written, and at most the last one is short.
THEOREM NothingIsMadeUp == Spec => []NothingMadeUp
<1>1. StreamInv => NothingMadeUp
  <2>1. SUFFICES ASSUME StreamInv, Harmless
                 PROVE  IsPrefix(out, Expected) \/ (Died /\ Short(out, Expected, ShortCommand))
    BY DEF NothingMadeUp
  <2>2. Fine /\ GoodPlan(plan)
    BY <2>1, StreamAssumption DEF StreamInv, Basic
  <2>3. PICK t : t = MeantOf(Count)
    OBVIOUS
  <2>4. t = Expected
    BY <2>3 DEF MeantOf, Count, Expected
  <2>5. MeantInOrder(plan.commands) /\ Len(plan.commands) \in Nat
    BY <2>2, MeantFacts DEF GoodPlan, Sequence
  <2>6. ASSUME NEW i \in 0 .. Count, out = MeantOf(i) PROVE IsPrefix(out, Expected)
    <3>1. Begins(out, t)
      BY <2>3, <2>5, <2>6 DEF MeantInOrder, MeantOf, Count
    <3> QED
      BY <2>4, <3>1, BeginsIsPrefix
  <2>7. out = MeantOf(Count) => IsPrefix(out, Expected)
    <3>1. Count \in 0 .. Count
      BY <2>5 DEF Count
    <3> QED
      BY <2>6, <3>1
  <2>8. CASE Over
    BY <2>7, <2>8 DEF Over
  <2>9. CASE Broken
    BY <2>3, <2>4, <2>9 DEF Broken
  <2>10. ASSUME NEW m, NEW at, Sound(m, at) PROVE IsPrefix(out, Expected)
    <3>1. CASE Starting(at)
      <4>1. out = MeantOf(0)
        BY <2>5, <3>1 DEF Starting, MeantInOrder, MeantOf
      <4>2. 0 \in 0 .. Count
        BY <2>5 DEF Count
      <4> QED
        BY <2>6, <4>1, <4>2
    <3>2. CASE AtNext(at)
      BY <2>6, <3>2 DEF AtNext
    <3>3. CASE AtBody(at)
      <4>1. PICK i \in 1 .. Count : out = MeantOf(i - 1)
        BY <3>3 DEF AtBody
      <4>2. i - 1 \in 0 .. Count
        BY <2>5 DEF Count
      <4> QED
        BY <2>6, <4>1, <4>2
    <3>4. CASE AtReport(at) \/ Answered(at)
      BY <2>7, <3>4 DEF AtReport, Answered
    <3> QED
      BY <2>10, <3>1, <3>2, <3>3, <3>4 DEF Sound
  <2> QED
    BY <2>2, <2>8, <2>9, <2>10 DEF Fine
<1> QED
  BY <1>1, SessionStands, PTL

\* An export that fails failed because the stream broke off.
THEOREM FailureIsBreak == Spec => []FailsOnlyIfBroken
<1>1. StreamInv => FailsOnlyIfBroken
  <2>1. SUFFICES ASSUME StreamInv, pc = "failed", Harmless PROVE Died
    BY DEF FailsOnlyIfBroken
  <2>2. Fine
    BY <2>1 DEF StreamInv
  <2>3. Broken
    BY <2>1, <2>2 DEF Fine, Over, Sound, Starting, AtNext, AtBody, AtReport, Answered
  <2> QED
    BY <2>3 DEF Broken
<1> QED
  BY <1>1, SessionStands, PTL

\* git gets one answer for each command it waits for.
THEOREM TurnsAreAnswered == Spec => []AnsweredInTurn
<1>1. StreamInv => AnsweredInTurn
  <2>1. SUFFICES ASSUME StreamInv, plan.waits, Harmless, pc = "end" PROVE Died \/ answered = 2
    BY DEF AnsweredInTurn
  <2>2. Fine
    BY <2>1 DEF StreamInv
  <2>3. Over \/ Broken
    BY <2>1, <2>2 DEF Fine, Sound, Starting, AtNext, AtBody, AtReport, Answered
  <2> QED
    BY <2>1, <2>3 DEF Over, Broken
<1> QED
  BY <1>1, SessionStands, PTL

=============================================================================
