------------------------------- MODULE LinkProofs -------------------------------
(***************************************************************************)
(* The link keeps its promises for any messages, commands and limits, with *)
(* any number of broken connections and crashes: one Run per command at    *)
(* most, nothing acknowledged that was not done, nothing forgotten, no gap *)
(* in the numbers of a connection.                                         *)
(*                                                                         *)
(* The invariant follows the frames: what an acknowledgement says is true  *)
(* when it is sent, and stays so on its way (FramesOK), and what the       *)
(* handler found out before an await is still so after it (HandlingOK),    *)
(* because frames are handled one after the other.                         *)
(***************************************************************************)
EXTENDS CoreLink, FiniteSetTheorems, SequenceTheorems, TLAPS

\* The row of a message agrees with its attempts and with what Core has of it.
RowOKFor(m) ==
    /\ outbox[m] = "none" => attempts[m] = 0 /\ m \notin Sent
    /\ outbox[m] = "pending" => attempts[m] < MaxAttempts
    /\ outbox[m] = "acked" => m \in received \cup refused
    /\ outbox[m] = "dead" => attempts[m] >= MaxAttempts

RowsOK == \A m \in Messages : RowOKFor(m)

\* Who acknowledges a command has its Run; who acknowledges a message has it.
NodeFrameOK(f) == /\ f.type = "event" => f.id \in Messages
                  /\ f.type = "message.ack" => f.id \in Commands /\ runs[f.id] > 0
CoreFrameOK(f) == /\ f.type = "run.create" => f.id \in Commands
                  /\ f.type \in {"message.ack", "error.final"} => f.id \in received \cup refused

FramesOK == /\ \A i \in 1..Len(toCore) : NodeFrameOK(toCore[i])
            /\ \A i \in 1..Len(chain) : CoreFrameOK(chain[i])
            /\ \A i \in 1..Len(toNode) : CoreFrameOK(toNode[i])

\* While handle waits for a Run to be created, the command is the one it found
\* without a Run; once the Run is stored it is there.
HandlingOK ==
    /\ handling # "idle" => chain # <<>>
    /\ handling \in {"creating", "created"} => First.type = "run.create"
    /\ handling = "creating" => runs[First.id] = 0
    /\ handling = "created" => runs[First.id] > 0

\* Nothing is on its way before the connection is open, and from then on the
\* frames are numbered one after the other.
NumbersOK ==
    /\ socket \in {"none", "connecting"} => toCore = <<>>
    /\ \A i \in 1..Len(toCore) : toCore[i].seq = lastSeq + i
    /\ socket = "open" => sequence = lastSeq + Len(toCore)

CommandsOK == OneRunPerCommand /\ AckedIsDone

LinkOK == LinkTypeOK /\ RowsOK /\ FramesOK /\ HandlingOK /\ NumbersOK /\ CommandsOK

USE DEF session, outboxes, commands, coreState, bounds

-----------------------------------------------------------------------------
(* Frames put into the socket *)

\* A frame keeps what it says when it gets its number.
LEMMA NumberedFrames ==
    ASSUME LinkTypeOK, NEW fs \in Seq(NodeFrames)
    PROVE  /\ Room \in Nat /\ Least(Len(fs), Room) \in 0..Len(fs)
           /\ Fits(fs) => Least(Len(fs), Room) = Len(fs)
           /\ Numbered(fs) \in Seq(NodeFrames)
           /\ Len(Numbered(fs)) = Least(Len(fs), Room)
           /\ \A i \in 1..Len(Numbered(fs)) :
                 /\ Numbered(fs)[i].seq = sequence + i
                 /\ Numbered(fs)[i].type = fs[i].type /\ Numbered(fs)[i].id = fs[i].id
<1> DEFINE n == Least(Len(fs), Room)
<1>1. Len(fs) \in Nat /\ Len(toCore) \in Nat /\ MaxBuffered \in Nat
  BY LinkAssumption, LenProperties DEF LinkTypeOK
<1>2. Room \in Nat BY <1>1 DEF Room
<1>3. n \in 0..Len(fs) /\ (Fits(fs) => n = Len(fs)) BY <1>1, <1>2 DEF Least, Fits
<1> HIDE DEF n
<1>4. Numbered(fs) = [i \in 1..n |-> [fs[i] EXCEPT !.seq = sequence + i]] BY DEF Numbered, n
<1>5. ASSUME NEW i \in 1..n
      PROVE  /\ [fs[i] EXCEPT !.seq = sequence + i] \in NodeFrames
             /\ [fs[i] EXCEPT !.seq = sequence + i].seq = sequence + i
             /\ [fs[i] EXCEPT !.seq = sequence + i].type = fs[i].type
             /\ [fs[i] EXCEPT !.seq = sequence + i].id = fs[i].id
  <2>1. i \in 1..Len(fs) BY <1>1, <1>3
  <2>2. fs[i] \in NodeFrames BY <2>1, ElementOfSeq
  <2>3. sequence + i \in Nat BY <1>3 DEF LinkTypeOK
  <2> QED BY <2>2, <2>3 DEF NodeFrames
<1>6. Numbered(fs) \in [1..n -> NodeFrames] BY <1>4, <1>5
<1>7. n \in Nat BY <1>1, <1>3
<1>8. Numbered(fs) \in Seq(NodeFrames) BY <1>6, <1>7, SeqDef
<1>9. Len(Numbered(fs)) = n BY <1>6, <1>7, <1>8, LenProperties
<1> QED BY <1>2, <1>3, <1>4, <1>5, <1>8, <1>9 DEF n

\* New frames at the end of those on their way.
LEMMA FramesAdded ==
    ASSUME LinkTypeOK, NumbersOK, socket = "open", NEW new \in Seq(NodeFrames),
           \A i \in 1..Len(new) : new[i].seq = sequence + i,
           toCore' = toCore \o new
    PROVE  /\ toCore' \in Seq(NodeFrames)
           /\ Len(toCore') = Len(toCore) + Len(new)
           /\ \A i \in 1..Len(toCore') : toCore'[i].seq = lastSeq + i
           /\ \A i \in 1..Len(toCore') : \/ i \in 1..Len(toCore) /\ toCore'[i] = toCore[i]
                                         \/ \E j \in 1..Len(new) : toCore'[i] = new[j]
<1>1. /\ toCore \in Seq(NodeFrames) /\ lastSeq \in Nat /\ sequence = lastSeq + Len(toCore)
      /\ Len(toCore) \in Nat /\ Len(new) \in Nat
  BY LenProperties DEF LinkTypeOK, NumbersOK
<1>2. /\ toCore' \in Seq(NodeFrames)
      /\ Len(toCore') = Len(toCore) + Len(new)
      /\ \A i \in 1..Len(toCore) + Len(new) :
            toCore'[i] = IF i <= Len(toCore) THEN toCore[i] ELSE new[i - Len(toCore)]
  BY <1>1, ConcatProperties
<1>3. ASSUME NEW i \in 1..Len(toCore')
      PROVE  /\ toCore'[i].seq = lastSeq + i
             /\ \/ i \in 1..Len(toCore) /\ toCore'[i] = toCore[i]
                \/ \E j \in 1..Len(new) : toCore'[i] = new[j]
  <2>1. CASE i <= Len(toCore)
    <3>1. i \in 1..Len(toCore) /\ toCore'[i] = toCore[i] BY <1>1, <1>2, <2>1
    <3> QED BY <3>1 DEF NumbersOK
  <2>2. CASE ~(i <= Len(toCore))
    <3>1. i - Len(toCore) \in 1..Len(new) /\ toCore'[i] = new[i - Len(toCore)] BY <1>1, <1>2, <2>2
    <3>2. new[i - Len(toCore)].seq = sequence + (i - Len(toCore)) BY <3>1
    <3> QED BY <1>1, <3>1, <3>2
  <2> QED BY <2>1, <2>2
<1> QED BY <1>2, <1>3

\* What sending comes to, whichever the frames are: those that reach the socket
\* say what they said, and continue the numbers of the connection.
Goes(fs) ==
    /\ sequence' \in Nat /\ toCore' \in Seq(NodeFrames)
    /\ socket' \in {socket, "closing"} /\ (socket' # socket => socket = "open")
    /\ socket' \in {"none", "connecting"} => toCore' = <<>>
    /\ \A i \in 1..Len(toCore') : toCore'[i].seq = lastSeq + i
    /\ socket' = "open" => sequence' = lastSeq + Len(toCore')
    /\ \A i \in 1..Len(toCore') :
          \/ i \in 1..Len(toCore) /\ toCore'[i] = toCore[i]
          \/ \E j \in 1..Len(fs) : toCore'[i].type = fs[j].type /\ toCore'[i].id = fs[j].id

LEMMA SendGoes ==
    ASSUME LinkTypeOK, NumbersOK, NEW fs \in Seq(NodeFrames), Send(fs)
    PROVE  Goes(fs)
<1>1. /\ Len(fs) \in Nat /\ toCore \in Seq(NodeFrames) /\ Len(toCore) \in Nat
      /\ sequence \in Nat /\ lastSeq \in Nat /\ sequence' = sequence + Len(fs)
  BY LenProperties DEF LinkTypeOK, Send, Transmit
<1>2. CASE socket # "open"
  <2>1. toCore' = toCore /\ socket' = socket BY <1>2 DEF Send, Transmit
  <2> QED BY <1>1, <1>2, <2>1 DEF Goes, NumbersOK
<1>3. CASE socket = "open"
  <2>1. /\ toCore' = toCore \o Numbered(fs)
        /\ socket' = IF ~Fits(fs) THEN "closing" ELSE socket
    BY <1>3 DEF Send, Transmit
  <2>2. /\ Numbered(fs) \in Seq(NodeFrames)
        /\ \A i \in 1..Len(Numbered(fs)) : Numbered(fs)[i].seq = sequence + i
        /\ Len(Numbered(fs)) \in 0..Len(fs)
        /\ Fits(fs) => Len(Numbered(fs)) = Len(fs)
    BY NumberedFrames
  <2>3. /\ toCore' \in Seq(NodeFrames)
        /\ Len(toCore') = Len(toCore) + Len(Numbered(fs))
        /\ \A i \in 1..Len(toCore') : toCore'[i].seq = lastSeq + i
        /\ \A i \in 1..Len(toCore') : \/ i \in 1..Len(toCore) /\ toCore'[i] = toCore[i]
                                      \/ \E j \in 1..Len(Numbered(fs)) : toCore'[i] = Numbered(fs)[j]
    BY <1>3, <2>1, <2>2, FramesAdded
  <2>4. ASSUME NEW j \in 1..Len(Numbered(fs))
        PROVE  j \in 1..Len(fs) /\ Numbered(fs)[j].type = fs[j].type /\ Numbered(fs)[j].id = fs[j].id
    BY <1>1, <2>2, NumberedFrames
  <2>5. \A i \in 1..Len(toCore') :
          \/ i \in 1..Len(toCore) /\ toCore'[i] = toCore[i]
          \/ \E j \in 1..Len(fs) : toCore'[i].type = fs[j].type /\ toCore'[i].id = fs[j].id
    BY <2>3, <2>4
  <2>6. socket' = "open" => sequence' = lastSeq + Len(toCore')
    <3>1. CASE Fits(fs)
      <4>1. Len(toCore') = Len(toCore) + Len(fs) BY <2>2, <2>3, <3>1
      <4>2. sequence = lastSeq + Len(toCore) BY <1>3 DEF NumbersOK
      <4> QED BY <1>1, <4>1, <4>2
    <3>2. CASE ~Fits(fs) BY <2>1, <3>2
    <3> QED BY <3>1, <3>2
  <2>7. socket' \notin {"none", "connecting"} /\ socket' \in {socket, "closing"} BY <1>3, <2>1
  <2> QED BY <1>1, <1>3, <2>3, <2>5, <2>6, <2>7 DEF Goes
<1> QED BY <1>2, <1>3

\* The listed rows are rows of messages that are due.
LEMMA ListedAreDue ==
    ASSUME LinkTypeOK, NEW due, NEW list \in Listings(due)
    PROVE  Len(list) \in Nat /\ \A i \in 1..Len(list) : order[list[i]] \in due
<1> DEFINE rows == {i \in DOMAIN order : order[i] \in due}
           n    == Cardinality(rows)
<1>1. Len(order) \in Nat /\ DOMAIN order = 1..Len(order) BY LenProperties DEF LinkTypeOK
<1>2. IsFiniteSet(1..Len(order)) BY <1>1, FS_Interval
<1>3. rows \subseteq 1..Len(order) BY <1>1
<1>4. IsFiniteSet(rows) BY <1>2, <1>3, FS_Subset
<1>5. n \in Nat BY <1>4, FS_CardinalityType
<1>6. list \in [1..n -> rows] BY DEF Listings
<1>7. \A r \in rows : order[r] \in due OBVIOUS
<1> HIDE DEF rows, n
<1>8. list \in Seq(rows) BY <1>5, <1>6, SeqDef
<1>9. Len(list) = n BY <1>5, <1>6, <1>8, LenProperties
<1> QED BY <1>5, <1>6, <1>7, <1>9

\* flushOutbox sends messages that are due, and counts an attempt for each.
LEMMA FlushGoes ==
    ASSUME LinkTypeOK, NumbersOK, socket = "open", NEW due \in SUBSET Messages, FlushOutbox(due)
    PROVE  /\ \E ms \in SUBSET due : Attempt(ms, outbox)
           /\ \E fs \in Seq(NodeFrames) :
                 /\ \A j \in 1..Len(fs) : fs[j].type = "event" /\ fs[j].id \in due
                 /\ Goes(fs)
<1>1. PICK list \in Listings(due) :
        LET sent == Least(Len(list), Room)
            row(i) == order[list[i]]
        IN  /\ Attempt({row(i) : i \in 1..sent}, outbox)
            /\ sequence' = sequence + sent
            /\ toCore' = toCore \o Numbered([i \in 1..sent |-> Frame("event", row(i))])
            /\ socket' = IF sent < Len(list) THEN "closing" ELSE socket
  BY DEF FlushOutbox
<1> DEFINE sent == Least(Len(list), Room)
           fs   == [i \in 1..sent |-> Frame("event", order[list[i]])]
<1>2. Len(list) \in Nat /\ \A i \in 1..Len(list) : order[list[i]] \in due BY ListedAreDue
<1>3. Len(toCore) \in Nat /\ MaxBuffered \in Nat /\ sequence \in Nat /\ lastSeq \in Nat
  BY LinkAssumption, LenProperties DEF LinkTypeOK
<1>4. Room \in Nat BY <1>3 DEF Room
<1>5. sent \in Nat /\ sent <= Len(list) /\ sent <= Room BY <1>2, <1>4 DEF Least
<1>6. \A i \in 1..sent : order[list[i]] \in due BY <1>2, <1>5
<1>7. \A i \in 1..sent : fs[i] = Frame("event", order[list[i]]) OBVIOUS
<1>8. fs \in [1..sent -> NodeFrames] BY <1>6 DEF Frame, NodeFrames
<1>9. /\ Attempt({order[list[i]] : i \in 1..sent}, outbox)
      /\ sequence' = sequence + sent
      /\ toCore' = toCore \o Numbered(fs)
      /\ socket' = IF sent < Len(list) THEN "closing" ELSE socket
  BY <1>1
<1> HIDE DEF sent, fs
<1>10. fs \in Seq(NodeFrames) BY <1>5, <1>8, SeqDef
<1>11. Len(fs) = sent BY <1>5, <1>8, <1>10, LenProperties
<1>12. \A j \in 1..Len(fs) : fs[j].type = "event" /\ fs[j].id \in due BY <1>6, <1>7, <1>11 DEF Frame
<1>13. /\ Numbered(fs) \in Seq(NodeFrames)
       /\ \A i \in 1..Len(Numbered(fs)) : Numbered(fs)[i].seq = sequence + i
       /\ Len(Numbered(fs)) = sent
  BY <1>4, <1>5, <1>10, <1>11, NumberedFrames DEF Least
<1>14. /\ toCore' \in Seq(NodeFrames)
       /\ Len(toCore') = Len(toCore) + sent
       /\ \A i \in 1..Len(toCore') : toCore'[i].seq = lastSeq + i
       /\ \A i \in 1..Len(toCore') : \/ i \in 1..Len(toCore) /\ toCore'[i] = toCore[i]
                                     \/ \E j \in 1..Len(Numbered(fs)) : toCore'[i] = Numbered(fs)[j]
  BY <1>9, <1>13, FramesAdded
<1>15. \A j \in 1..Len(Numbered(fs)) :
         j \in 1..Len(fs) /\ Numbered(fs)[j].type = fs[j].type /\ Numbered(fs)[j].id = fs[j].id
  BY <1>10, <1>11, <1>13, NumberedFrames
<1>16. Goes(fs)
  <2>1. \A i \in 1..Len(toCore') :
          \/ i \in 1..Len(toCore) /\ toCore'[i] = toCore[i]
          \/ \E j \in 1..Len(fs) : toCore'[i].type = fs[j].type /\ toCore'[i].id = fs[j].id
    BY <1>14, <1>15
  <2>2. socket' = "open" => sequence' = lastSeq + Len(toCore')
    BY <1>3, <1>5, <1>9, <1>14 DEF NumbersOK
  <2>3. sequence' \in Nat /\ socket' \in {"open", "closing"} BY <1>3, <1>5, <1>9
  <2> QED BY <1>14, <2>1, <2>2, <2>3 DEF Goes
<1> QED BY <1>6, <1>9, <1>10, <1>12, <1>16

-----------------------------------------------------------------------------
(* Parts of the invariant that a step leaves alone *)

\* A row does not change, and Core forgets nothing.
LEMMA RowsSame ==
    ASSUME RowsOK, UNCHANGED outboxes, received \subseteq received', refused \subseteq refused'
    PROVE  RowsOK'
BY DEF RowsOK, RowOKFor, Sent

\* Frames of Core stay true.
LEMMA CoreFramesKept ==
    ASSUME received \subseteq received', refused \subseteq refused', NEW f, CoreFrameOK(f)
    PROVE  CoreFrameOK(f)'
BY DEF CoreFrameOK

\* Frames of the Node stay true, and those it sends are.
LEMMA FramesSent ==
    ASSUME LinkTypeOK, FramesOK, NEW fs \in Seq(NodeFrames), Goes(fs), runs' = runs,
           \A j \in 1..Len(fs) : NodeFrameOK(fs[j])
    PROVE  \A i \in 1..Len(toCore') : NodeFrameOK(toCore[i])'
<1> SUFFICES ASSUME NEW i \in 1..Len(toCore') PROVE NodeFrameOK(toCore[i])' OBVIOUS
<1>1. CASE i \in 1..Len(toCore) /\ toCore'[i] = toCore[i]
  BY <1>1 DEF FramesOK, NodeFrameOK
<1>2. CASE \E j \in 1..Len(fs) : toCore'[i].type = fs[j].type /\ toCore'[i].id = fs[j].id
  BY <1>2 DEF NodeFrameOK
<1> QED BY <1>1, <1>2 DEF Goes

\* The frames of the Node that were on their way stay so.
LEMMA NodeFramesSame ==
    ASSUME FramesOK, toCore' = toCore \/ toCore' = <<>>, runs' = runs
    PROVE  \A i \in 1..Len(toCore') : NodeFrameOK(toCore[i])'
<1>1. CASE toCore' = toCore BY <1>1 DEF FramesOK, NodeFrameOK
<1>2. CASE toCore' = <<>> BY <1>2
<1> QED BY <1>1, <1>2

\* Frames of Core that were waiting stay so.
LEMMA CoreFramesSame ==
    ASSUME FramesOK, received \subseteq received', refused \subseteq refused'
    PROVE  /\ chain' = chain \/ chain' = <<>> => \A i \in 1..Len(chain') : CoreFrameOK(chain[i])'
           /\ toNode' = toNode \/ toNode' = <<>> => \A i \in 1..Len(toNode') : CoreFrameOK(toNode[i])'
<1>1. chain' = <<>> => \A i \in 1..Len(chain') : CoreFrameOK(chain[i])' OBVIOUS
<1>2. toNode' = <<>> => \A i \in 1..Len(toNode') : CoreFrameOK(toNode[i])' OBVIOUS
<1>3. chain' = chain => \A i \in 1..Len(chain') : CoreFrameOK(chain[i])'
  BY CoreFramesKept DEF FramesOK
<1>4. toNode' = toNode => \A i \in 1..Len(toNode') : CoreFrameOK(toNode[i])'
  BY CoreFramesKept DEF FramesOK
<1> QED BY <1>1, <1>2, <1>3, <1>4

\* The commands are as they were.
LEMMA CommandsSame ==
    ASSUME CommandsOK, UNCHANGED <<runs, inbox, done>>
    PROVE  CommandsOK'
BY DEF CommandsOK, OneRunPerCommand, AckedIsDone

\* The first frame of the chain is one of Core's.
LEMMA FirstFrame ==
    ASSUME LinkTypeOK, FramesOK, chain # <<>>
    PROVE  /\ First \in CoreFrames /\ CoreFrameOK(First) /\ First = chain[1]
           /\ Tail(chain) \in Seq(CoreFrames)
           /\ \A i \in 1..Len(Tail(chain)) : CoreFrameOK(Tail(chain)[i])
<1>1. chain \in Seq(CoreFrames) BY DEF LinkTypeOK
<1>2. /\ Head(chain) \in CoreFrames /\ Tail(chain) \in Seq(CoreFrames)
      /\ Len(Tail(chain)) = Len(chain) - 1
      /\ \A i \in 1..Len(Tail(chain)) : Tail(chain)[i] = chain[i + 1]
  BY <1>1, HeadTailProperties
<1>3. Len(chain) \in Nat \ {0} BY <1>1, EmptySeq
<1>4. Head(chain) = chain[1] BY <1>1
<1>5. CoreFrameOK(chain[1]) BY <1>3 DEF FramesOK
<1>6. ASSUME NEW i \in 1..Len(Tail(chain)) PROVE CoreFrameOK(Tail(chain)[i])
  <2>1. i + 1 \in 1..Len(chain) BY <1>2, <1>3
  <2> QED BY <1>2, <2>1 DEF FramesOK
<1> QED BY <1>2, <1>4, <1>5, <1>6 DEF First

\* One frame more at the end.
LEMMA FrameAppended ==
    ASSUME NEW s \in Seq(CoreFrames), NEW f \in CoreFrames,
           \A i \in 1..Len(s) : CoreFrameOK(s[i]), CoreFrameOK(f)
    PROVE  /\ Append(s, f) \in Seq(CoreFrames) /\ Append(s, f) # <<>>
           /\ \A i \in 1..Len(Append(s, f)) : CoreFrameOK(Append(s, f)[i])
           /\ s # <<>> => Head(Append(s, f)) = Head(s)
<1>1. /\ Append(s, f) \in Seq(CoreFrames) /\ Len(Append(s, f)) = Len(s) + 1
      /\ Len(s) \in Nat
      /\ \A i \in 1..Len(s) + 1 : Append(s, f)[i] = IF i <= Len(s) THEN s[i] ELSE f
  BY AppendProperties, LenProperties
<1>2. Append(s, f) # <<>> BY <1>1
<1>3. ASSUME NEW i \in 1..Len(Append(s, f)) PROVE CoreFrameOK(Append(s, f)[i])
  <2>1. CASE i <= Len(s) BY <1>1, <2>1
  <2>2. CASE ~(i <= Len(s)) BY <1>1, <2>2
  <2> QED BY <2>1, <2>2
<1>4. s # <<>> => Head(Append(s, f)) = Head(s)
  <2>1. s # <<>> => Len(s) \in Nat \ {0} BY EmptySeq
  <2>2. s # <<>> => Append(s, f)[1] = s[1] BY <1>1, <2>1
  <2> QED BY <1>1, <1>2, <2>2
<1> QED BY <1>1, <1>2, <1>3, <1>4

-----------------------------------------------------------------------------
(* The outbox *)

\* markCoreMessageAttempt counts, and gives up after the last attempt.
LEMMA AttemptRows ==
    ASSUME LinkTypeOK, RowsOK, NEW states \in [Messages -> {"none", "pending", "acked", "dead"}],
           NEW ms, \A m \in ms : states[m] = "pending",
           \A m \in Messages : states[m] # outbox[m] => outbox[m] = "none" /\ states[m] = "pending",
           Attempt(ms, states)
    PROVE  /\ attempts' \in [Messages -> 0..MaxAttempts]
           /\ outbox' \in [Messages -> {"none", "pending", "acked", "dead"}]
           /\ \A m \in Messages :
                 /\ outbox'[m] = "none" => states[m] = "none" /\ attempts'[m] = 0
                 /\ outbox'[m] = "pending" => attempts'[m] < MaxAttempts
                 /\ outbox'[m] = "acked" => outbox[m] = "acked"
                 /\ outbox'[m] = "dead" => attempts'[m] >= MaxAttempts
<1>1. MaxAttempts \in Nat \ {0} BY LinkAssumption
<1>2. ASSUME NEW m \in Messages
      PROVE  /\ attempts'[m] \in 0..MaxAttempts
             /\ outbox'[m] \in {"none", "pending", "acked", "dead"}
             /\ outbox'[m] = "none" => states[m] = "none" /\ attempts'[m] = 0
             /\ outbox'[m] = "pending" => attempts'[m] < MaxAttempts
             /\ outbox'[m] = "acked" => outbox[m] = "acked"
             /\ outbox'[m] = "dead" => attempts'[m] >= MaxAttempts
  <2>1. /\ attempts[m] \in 0..MaxAttempts /\ states[m] \in {"none", "pending", "acked", "dead"}
        /\ outbox[m] = "none" => attempts[m] = 0
        /\ outbox[m] = "pending" => attempts[m] < MaxAttempts
        /\ outbox[m] = "dead" => attempts[m] >= MaxAttempts
    BY DEF LinkTypeOK, RowsOK, RowOKFor
  <2>2. CASE m \in ms
    <3>1. /\ attempts'[m] = attempts[m] + 1
          /\ outbox'[m] = IF attempts[m] + 1 >= MaxAttempts THEN "dead" ELSE states[m]
      BY <2>2 DEF Attempt
    <3>2. states[m] = "pending" /\ attempts[m] < MaxAttempts BY <1>1, <2>1, <2>2
    <3> QED BY <1>1, <2>1, <3>1, <3>2
  <2>3. CASE m \notin ms
    <3>1. attempts'[m] = attempts[m] /\ outbox'[m] = states[m] BY <2>3 DEF Attempt
    <3> QED BY <1>1, <2>1, <3>1
  <2> QED BY <2>2, <2>3
<1>3. DOMAIN attempts' = Messages /\ DOMAIN outbox' = Messages BY DEF Attempt
<1>4. /\ attempts' = [m \in Messages |-> attempts'[m]]
      /\ outbox' = [m \in Messages |-> outbox'[m]]
  BY DEF Attempt
<1> QED BY <1>2, <1>4

\* A message is sent for the first time.
LEMMA EmitKeeps ==
    ASSUME LinkOK, NEW m \in Messages, Emit(m)
    PROVE  LinkOK'
<1> USE DEF LinkOK
<1> DEFINE fs     == <<Frame("event", m)>>
           states == [outbox EXCEPT ![m] = "pending"]
           ms     == IF socket = "open" THEN {m} ELSE {}
<1>1. /\ outbox[m] = "none" /\ order' = Append(order, m) /\ Attempt(ms, states) /\ Send(fs)
      /\ UNCHANGED <<node, hellos, timers, incoming, chain, handling, commands, toNode,
                     coreState, bounds>>
  BY DEF Emit
<1>2. fs \in Seq(NodeFrames) /\ \A j \in 1..Len(fs) : NodeFrameOK(fs[j])
  BY DEF Frame, NodeFrames, NodeFrameOK
<1>3. Goes(fs) BY <1>1, <1>2, SendGoes
<1>4. /\ attempts' \in [Messages -> 0..MaxAttempts]
      /\ outbox' \in [Messages -> {"none", "pending", "acked", "dead"}]
      /\ \A n \in Messages :
            /\ outbox'[n] = "none" => states[n] = "none" /\ attempts'[n] = 0
            /\ outbox'[n] = "pending" => attempts'[n] < MaxAttempts
            /\ outbox'[n] = "acked" => outbox[n] = "acked"
            /\ outbox'[n] = "dead" => attempts'[n] >= MaxAttempts
  <2>1. /\ states \in [Messages -> {"none", "pending", "acked", "dead"}]
        /\ \A n \in ms : states[n] = "pending"
        /\ \A n \in Messages : states[n] # outbox[n] => outbox[n] = "none" /\ states[n] = "pending"
    BY <1>1 DEF LinkTypeOK
  <2> HIDE DEF states, ms
  <2> QED BY <1>1, <2>1, AttemptRows
<1>5. order' \in Seq(Messages) /\ Sent' = Sent \cup {m}
  <2>1. order \in Seq(Messages) BY DEF LinkTypeOK
  <2>2. /\ order' \in Seq(Messages) /\ Len(order') = Len(order) + 1 /\ Len(order) \in Nat
        /\ \A i \in 1..Len(order) + 1 : order'[i] = IF i <= Len(order) THEN order[i] ELSE m
    BY <1>1, <2>1, AppendProperties, LenProperties
  <2>3. DOMAIN order = 1..Len(order) /\ DOMAIN order' = 1..(Len(order) + 1)
    BY <2>1, <2>2, LenProperties
  <2>4. Sent' = {order'[i] : i \in 1..(Len(order) + 1)} BY <2>3 DEF Sent
  <2>5. Sent = {order[i] : i \in 1..Len(order)} BY <2>3 DEF Sent
  <2>6. Sent' \subseteq Sent \cup {m}
    <3> SUFFICES ASSUME NEW i \in 1..(Len(order) + 1) PROVE order'[i] \in Sent \cup {m} BY <2>4
    <3>1. CASE i <= Len(order) BY <2>2, <2>5, <3>1
    <3>2. CASE ~(i <= Len(order)) BY <2>2, <3>2
    <3> QED BY <3>1, <3>2
  <2>7. Sent \subseteq Sent'
    <3> SUFFICES ASSUME NEW i \in 1..Len(order) PROVE order[i] \in Sent' BY <2>5
    <3>1. i \in 1..(Len(order) + 1) /\ order'[i] = order[i] BY <2>2
    <3> QED BY <2>4, <3>1
  <2>8. m \in Sent'
    <3>1. Len(order) + 1 \in 1..(Len(order) + 1) /\ order'[Len(order) + 1] = m BY <2>2
    <3> QED BY <2>4, <3>1
  <2> QED BY <2>2, <2>6, <2>7, <2>8
<1>6. LinkTypeOK' BY <1>1, <1>3, <1>4, <1>5 DEF LinkTypeOK, Goes
<1>7. RowsOK'
  <2> SUFFICES ASSUME NEW n \in Messages PROVE RowOKFor(n)' BY DEF RowsOK
  <2>1. RowOKFor(n) BY DEF RowsOK
  <2>2. outbox'[n] = "none" => n # m /\ outbox[n] = "none" BY <1>4 DEF LinkTypeOK
  <2> QED BY <1>1, <1>4, <1>5, <2>1, <2>2 DEF RowOKFor
<1> HIDE DEF fs, states, ms
<1>8. FramesOK'
  <2>1. \A i \in 1..Len(toCore') : NodeFrameOK(toCore[i])' BY <1>1, <1>2, <1>3, FramesSent
  <2> QED BY <1>1, <2>1, CoreFramesSame DEF FramesOK
<1>9. HandlingOK' BY <1>1 DEF HandlingOK, First
<1>10. NumbersOK' BY <1>1, <1>3 DEF NumbersOK, Goes
<1>11. CommandsOK' BY <1>1, CommandsSame
<1> QED BY <1>6, <1>7, <1>8, <1>9, <1>10, <1>11

\* Messages of the outbox are sent again.
LEMMA FlushRows ==
    ASSUME LinkTypeOK, RowsOK, NumbersOK, FramesOK, socket = "open", NEW due \in SUBSET Pending,
           FlushOutbox(due), UNCHANGED <<order, runs, coreState>>
    PROVE  /\ attempts' \in [Messages -> 0..MaxAttempts]
           /\ outbox' \in [Messages -> {"none", "pending", "acked", "dead"}]
           /\ sequence' \in Nat /\ toCore' \in Seq(NodeFrames)
           /\ socket' \in {"none", "connecting", "open", "closing"}
           /\ RowsOK' /\ NumbersOK' /\ \A i \in 1..Len(toCore') : NodeFrameOK(toCore[i])'
<1>1. due \in SUBSET Messages /\ \A m \in due : outbox[m] = "pending" BY DEF Pending
<1>2. /\ \E ms \in SUBSET due : Attempt(ms, outbox)
      /\ \E fs \in Seq(NodeFrames) :
            (\A j \in 1..Len(fs) : fs[j].type = "event" /\ fs[j].id \in due) /\ Goes(fs)
  BY <1>1, FlushGoes
<1>3. PICK ms \in SUBSET due : Attempt(ms, outbox) BY <1>2
<1>4. PICK fs \in Seq(NodeFrames) :
        (\A j \in 1..Len(fs) : fs[j].type = "event" /\ fs[j].id \in due) /\ Goes(fs)
  BY <1>2
<1>5. /\ attempts' \in [Messages -> 0..MaxAttempts]
      /\ outbox' \in [Messages -> {"none", "pending", "acked", "dead"}]
      /\ \A m \in Messages :
            /\ outbox'[m] = "none" => outbox[m] = "none" /\ attempts'[m] = 0
            /\ outbox'[m] = "pending" => attempts'[m] < MaxAttempts
            /\ outbox'[m] = "acked" => outbox[m] = "acked"
            /\ outbox'[m] = "dead" => attempts'[m] >= MaxAttempts
  <2>1. outbox \in [Messages -> {"none", "pending", "acked", "dead"}] BY DEF LinkTypeOK
  <2> QED BY <1>1, <1>3, <2>1, AttemptRows
<1>6. RowsOK'
  <2>1. Sent' = Sent BY DEF Sent
  <2> QED BY <1>5, <2>1 DEF RowsOK, RowOKFor
<1>7. \A j \in 1..Len(fs) : NodeFrameOK(fs[j]) BY <1>1, <1>4 DEF NodeFrameOK
<1>8. \A i \in 1..Len(toCore') : NodeFrameOK(toCore[i])' BY <1>4, <1>7, FramesSent
<1>9. NumbersOK' BY <1>4 DEF NumbersOK, Goes
<1> QED BY <1>4, <1>5, <1>6, <1>8, <1>9 DEF Goes

LEMMA FlushKeeps ==
    ASSUME LinkOK, NEW due \in SUBSET Pending, Flush(due)
    PROVE  LinkOK'
<1> USE DEF LinkOK
<1>1. /\ socket = "open" /\ FlushOutbox(due)
      /\ UNCHANGED <<node, hellos, timers, incoming, chain, handling, order, commands, toNode,
                     coreState, bounds>>
  BY DEF Flush
<1>2. /\ attempts' \in [Messages -> 0..MaxAttempts]
      /\ outbox' \in [Messages -> {"none", "pending", "acked", "dead"}]
      /\ sequence' \in Nat /\ toCore' \in Seq(NodeFrames)
      /\ socket' \in {"none", "connecting", "open", "closing"}
      /\ RowsOK' /\ NumbersOK' /\ \A i \in 1..Len(toCore') : NodeFrameOK(toCore[i])'
  BY <1>1, FlushRows
<1>3. LinkTypeOK' BY <1>1, <1>2 DEF LinkTypeOK
<1>4. FramesOK' BY <1>1, <1>2, CoreFramesSame DEF FramesOK
<1>5. HandlingOK' BY <1>1 DEF HandlingOK, First
<1>6. CommandsOK' BY <1>1, CommandsSame
<1> QED BY <1>2, <1>3, <1>4, <1>5, <1>6

-----------------------------------------------------------------------------
(* Connections, and the process *)

\* A connection begins or ends, or the Node does.
LEMMA ConnectingKeeps ==
    ASSUME LinkOK, Connect \/ Open \/ Refresh \/ Closed \/ Crash \/ Restart
    PROVE  LinkOK'
<1> USE DEF LinkOK
<1>1. /\ UNCHANGED <<outboxes, commands, received, refused, issued, done>>
      /\ (chain' = chain /\ handling' = handling) \/ (chain' = <<>> /\ handling' = "idle")
      /\ toCore' = toCore \/ toCore' = <<>>
      /\ toNode' = toNode \/ toNode' = <<>>
  BY DEF Connect, Open, Refresh, Closed, Crash, Restart
<1>1a. /\ node' \in {"up", "down"} /\ socket' \in {"none", "connecting", "open", "closing"}
       /\ timers' \in BOOLEAN /\ greeted' \in BOOLEAN
  BY DEF LinkTypeOK, Connect, Open, Refresh, Closed, Crash, Restart
<1>1b. hellos' \in Nat /\ sequence' \in Nat /\ incoming' \in Nat /\ coreSeq' \in Nat /\ lastSeq' \in Nat
  BY DEF LinkTypeOK, Connect, Open, StartNumbers, Refresh, Closed, Crash, Restart
<1>1c. failures' \in 0..MaxFailures /\ crashes' \in 0..MaxCrashes
  <2>1. /\ MaxFailures \in Nat /\ MaxCrashes \in Nat
        /\ failures \in 0..MaxFailures /\ crashes \in 0..MaxCrashes
    BY LinkAssumption DEF LinkTypeOK
  <2>2. failures' = failures \/ (failures < MaxFailures /\ failures' = failures + 1)
    BY DEF Connect, Open, Refresh, Closed, Fails, Crash, Restart
  <2>3. crashes' = crashes \/ (crashes < MaxCrashes /\ crashes' = crashes + 1)
    BY DEF Connect, Open, Refresh, Closed, Fails, Crash, Restart
  <2> QED BY <2>1, <2>2, <2>3
<1>2. <<>> \in Seq(CoreFrames) /\ <<>> \in Seq(NodeFrames) BY EmptySeq
<1>3. LinkTypeOK' BY <1>1, <1>1a, <1>1b, <1>1c, <1>2 DEF LinkTypeOK
<1>4. RowsOK' BY <1>1, RowsSame
<1>5. FramesOK' BY <1>1, NodeFramesSame, CoreFramesSame DEF FramesOK
<1>6. HandlingOK' BY <1>1 DEF HandlingOK, First
<1>7. NumbersOK'
  <2>1. CASE Connect BY <2>1 DEF Connect, NumbersOK
  <2>2. CASE Open BY <2>2 DEF Open, StartNumbers, NumbersOK
  <2>3. CASE Refresh BY <2>3 DEF Refresh, NumbersOK
  <2>4. CASE Closed BY <2>4 DEF Closed, NumbersOK
  <2>5. CASE Crash BY <2>5 DEF Crash, NumbersOK
  <2>6. CASE Restart BY <2>6 DEF Restart, NumbersOK
  <2> QED BY <2>1, <2>2, <2>3, <2>4, <2>5, <2>6
<1>8. CommandsOK' BY <1>1, CommandsSame
<1> QED BY <1>3, <1>4, <1>5, <1>6, <1>7, <1>8

\* A hello is sent, maybe on a later connection.
LEMMA SendHelloKeeps ==
    ASSUME LinkOK, SendHello
    PROVE  LinkOK'
<1> USE DEF LinkOK
<1> DEFINE fs == <<Frame("node.hello", NoId)>>
<1>1. /\ hellos' \in Nat /\ Send(fs)
      /\ UNCHANGED <<node, timers, incoming, chain, handling, outboxes, commands, toNode,
                     coreState, bounds>>
  BY DEF SendHello, LinkTypeOK
<1>2. fs \in Seq(NodeFrames) /\ \A j \in 1..Len(fs) : NodeFrameOK(fs[j])
  BY DEF Frame, NodeFrames, NodeFrameOK
<1> HIDE DEF fs
<1>3. Goes(fs) BY <1>1, <1>2, SendGoes
<1>4. LinkTypeOK' BY <1>1, <1>3 DEF LinkTypeOK, Goes
<1>5. RowsOK' BY <1>1, RowsSame
<1>6. FramesOK' BY <1>1, <1>2, <1>3, FramesSent, CoreFramesSame DEF FramesOK
<1>7. HandlingOK' BY <1>1 DEF HandlingOK, First
<1>8. NumbersOK' BY <1>1, <1>3 DEF NumbersOK, Goes
<1>9. CommandsOK' BY <1>1, CommandsSame
<1> QED BY <1>4, <1>5, <1>6, <1>7, <1>8, <1>9

-----------------------------------------------------------------------------
(* Handling what Core sends *)

\* A frame of Core joins those to be handled.
LEMMA ReceiveKeeps ==
    ASSUME LinkOK, Receive
    PROVE  LinkOK'
<1> USE DEF LinkOK
<1>1. /\ toNode # <<>> /\ chain' = Append(chain, Head(toNode)) /\ toNode' = Tail(toNode)
      /\ UNCHANGED <<node, socket, hellos, timers, sequence, incoming, handling, outboxes,
                     commands, toCore, coreState, bounds>>
  BY DEF Receive
<1>2. /\ toNode \in Seq(CoreFrames) /\ chain \in Seq(CoreFrames)
      /\ Head(toNode) \in CoreFrames /\ Tail(toNode) \in Seq(CoreFrames)
      /\ Len(Tail(toNode)) = Len(toNode) - 1 /\ Len(toNode) \in Nat \ {0}
      /\ \A i \in 1..Len(Tail(toNode)) : Tail(toNode)[i] = toNode[i + 1]
      /\ Head(toNode) = toNode[1]
  BY <1>1, HeadTailProperties, EmptySeq DEF LinkTypeOK
<1>3. CoreFrameOK(Head(toNode)) BY <1>2 DEF FramesOK
<1>4. \A i \in 1..Len(Tail(toNode)) : CoreFrameOK(Tail(toNode)[i])
  <2> SUFFICES ASSUME NEW i \in 1..Len(Tail(toNode)) PROVE CoreFrameOK(Tail(toNode)[i]) OBVIOUS
  <2>1. i + 1 \in 1..Len(toNode) BY <1>2
  <2> QED BY <1>2, <2>1 DEF FramesOK
<1>5. /\ chain' \in Seq(CoreFrames) /\ chain' # <<>>
      /\ \A i \in 1..Len(chain') : CoreFrameOK(chain'[i])
      /\ chain # <<>> => Head(chain') = Head(chain)
  BY <1>1, <1>2, <1>3, FrameAppended DEF FramesOK
<1>6. LinkTypeOK' BY <1>1, <1>2, <1>5 DEF LinkTypeOK
<1>7. RowsOK' BY <1>1, RowsSame
<1>8. FramesOK' BY <1>1, <1>4, <1>5 DEF FramesOK, CoreFrameOK, NodeFrameOK
<1>9. HandlingOK' BY <1>1, <1>5 DEF HandlingOK, First
<1>10. NumbersOK' BY <1>1 DEF NumbersOK
<1>11. CommandsOK' BY <1>1, CommandsSame
<1> QED BY <1>6, <1>7, <1>8, <1>9, <1>10, <1>11

\* The first frame is dealt with, and something may be sent.
LEMMA AnsweredKeeps ==
    ASSUME LinkOK, chain # <<>>, FirstDone, incoming' \in Nat, inbox' \subseteq Commands,
           \A c \in inbox' : runs[c] > 0, NEW fs \in Seq(NodeFrames), Send(fs),
           \A j \in 1..Len(fs) : NodeFrameOK(fs[j]),
           UNCHANGED <<node, hellos, timers, outboxes, runs, toNode, coreState, bounds>>
    PROVE  LinkOK'
<1> USE DEF LinkOK
<1>1. Goes(fs) BY SendGoes
<1>2. /\ chain' = Tail(chain) /\ handling' = "idle" /\ chain' \in Seq(CoreFrames)
      /\ \A i \in 1..Len(chain') : CoreFrameOK(chain'[i])
  BY FirstFrame DEF FirstDone
<1>3. LinkTypeOK' BY <1>1, <1>2 DEF LinkTypeOK, Goes
<1>4. RowsOK' BY RowsSame
<1>5. FramesOK'
  <2>1. \A i \in 1..Len(chain') : CoreFrameOK(chain[i])' BY <1>2 DEF CoreFrameOK
  <2> QED BY <1>1, <2>1, FramesSent, CoreFramesSame DEF FramesOK
<1>6. HandlingOK' BY <1>2 DEF HandlingOK
<1>7. NumbersOK' BY <1>1 DEF NumbersOK, Goes
<1>8. CommandsOK' BY DEF CommandsOK, OneRunPerCommand, AckedIsDone
<1> QED BY <1>3, <1>4, <1>5, <1>6, <1>7, <1>8

\* Commands that are refused, known, failed or done are answered.
LEMMA CommandKeeps ==
    ASSUME LinkOK, HandleRefused \/ HandleDuplicate \/ CreateFails \/ CreateDone
    PROVE  LinkOK'
<1> USE DEF LinkOK
<1>1. chain # <<>>
  BY DEF HandleRefused, HandleDuplicate, CreateFails, CreateDone, Accept, Idle, HandlingOK
<1>2. First \in CoreFrames /\ CoreFrameOK(First) BY <1>1, FirstFrame
<1>3. First.id \in Messages \cup Commands \cup {NoId} /\ First.seq \in Nat BY <1>2 DEF CoreFrames
<1>4. \A c \in inbox : runs[c] > 0 BY DEF CommandsOK, AckedIsDone
<1>5. incoming \in Nat /\ inbox \subseteq Commands BY DEF LinkTypeOK
<1>6. CASE HandleRefused \/ CreateFails
  <2> DEFINE fs == <<Frame("message.error", First.id)>>
  <2>1. /\ FirstDone /\ Send(fs)
        /\ UNCHANGED <<node, hellos, timers, incoming, outboxes, commands, toNode, coreState, bounds>>
    BY <1>6 DEF HandleRefused, CreateFails
  <2>2. fs \in Seq(NodeFrames) /\ \A j \in 1..Len(fs) : NodeFrameOK(fs[j])
    BY <1>3 DEF Frame, NodeFrames, NodeFrameOK
  <2> HIDE DEF fs
  <2> QED BY <1>1, <1>4, <1>5, <2>1, <2>2, AnsweredKeeps
<1>7. CASE HandleDuplicate
  <2> DEFINE fs == <<Frame("message.ack", First.id)>>
  <2>1. /\ FirstDone /\ Send(fs) /\ incoming' = First.seq /\ First.id \in inbox
        /\ UNCHANGED <<node, hellos, timers, outboxes, commands, toNode, coreState, bounds>>
    BY <1>7 DEF HandleDuplicate, Accept
  <2>2. fs \in Seq(NodeFrames) /\ \A j \in 1..Len(fs) : NodeFrameOK(fs[j])
    BY <1>3, <1>4, <1>5, <2>1 DEF Frame, NodeFrames, NodeFrameOK
  <2> HIDE DEF fs
  <2> QED BY <1>1, <1>3, <1>4, <1>5, <2>1, <2>2, AnsweredKeeps
<1>8. CASE CreateDone
  <2> DEFINE fs == <<Frame("run.accepted", First.id), Frame("message.ack", First.id)>>
  <2>1. /\ FirstDone /\ Send(fs) /\ inbox' = inbox \cup {First.id}
        /\ UNCHANGED <<node, hellos, timers, incoming, outboxes, runs, toNode, coreState, bounds>>
    BY <1>8 DEF CreateDone, Remember
  <2>2. First.id \in Commands /\ runs[First.id] > 0
    BY <1>2, <1>8 DEF CreateDone, HandlingOK, CoreFrameOK
  <2>3. fs \in Seq(NodeFrames)
    <3>1. Frame("run.accepted", First.id) \in NodeFrames /\ Frame("message.ack", First.id) \in NodeFrames
      BY <1>3 DEF Frame, NodeFrames
    <3> QED BY <3>1
  <2>4. \A j \in 1..Len(fs) : NodeFrameOK(fs[j])
    <3>1. NodeFrameOK(fs[1]) /\ NodeFrameOK(fs[2]) BY <2>2 DEF Frame, NodeFrameOK
    <3>2. Len(fs) = 2 OBVIOUS
    <3> HIDE DEF fs
    <3> QED BY <3>1, <3>2
  <2> HIDE DEF fs
  <2> QED BY <1>1, <1>4, <1>5, <2>1, <2>2, <2>3, <2>4, AnsweredKeeps
<1> QED BY <1>6, <1>7, <1>8

\* A command is found to be new or not, and its Run is stored.
LEMMA CreateKeeps ==
    ASSUME LinkOK, HandleWelcome \/ HandleCreate \/ Create
    PROVE  LinkOK'
<1> USE DEF LinkOK
<1>1. chain # <<>> BY DEF HandleWelcome, HandleCreate, Create, Accept, Idle, HandlingOK
<1>2. First \in CoreFrames /\ CoreFrameOK(First) BY <1>1, FirstFrame
<1>3. /\ UNCHANGED <<node, socket, hellos, timers, chain, sequence, outboxes, inbox, toCore, toNode,
                     coreState, bounds>>
      /\ handling' \in {"snapshot", "creating", "created"}
  BY DEF HandleWelcome, HandleCreate, Create
<1>4. incoming' \in Nat BY <1>2 DEF HandleWelcome, HandleCreate, Create, Accept, CoreFrames, LinkTypeOK
<1>5. /\ runs' \in [Commands -> Nat] /\ \A c \in Commands : runs'[c] >= runs[c] /\ runs'[c] <= 1
      /\ HandlingOK'
  <2>1. runs \in [Commands -> Nat] /\ \A c \in Commands : runs[c] <= 1
    BY DEF LinkTypeOK, CommandsOK, OneRunPerCommand
  <2>2. CASE HandleWelcome BY <1>1, <2>1, <2>2 DEF HandleWelcome, HandlingOK
  <2>3. CASE HandleCreate
    <3>1. First.type = "run.create" /\ First.id \in Commands
      BY <1>2, <2>3 DEF HandleCreate, Accept, CoreFrameOK
    <3>2. handling' = IF runs[First.id] > 0 THEN "created" ELSE "creating"
      BY <2>3 DEF HandleCreate, Existing
    <3>3. runs' = runs /\ chain' = chain BY <2>3 DEF HandleCreate
    <3> QED BY <1>1, <2>1, <3>1, <3>2, <3>3 DEF HandlingOK, First
  <2>4. CASE Create
    <3>1. First.type = "run.create" /\ First.id \in Commands /\ runs[First.id] = 0
      BY <1>2, <2>4 DEF Create, HandlingOK, CoreFrameOK
    <3>2. runs' = [runs EXCEPT ![First.id] = @ + 1] /\ handling' = "created" /\ chain' = chain
      BY <2>4 DEF Create
    <3> QED BY <1>1, <2>1, <3>1, <3>2 DEF HandlingOK, First
  <2> QED BY <2>2, <2>3, <2>4
<1>6. LinkTypeOK' BY <1>3, <1>4, <1>5 DEF LinkTypeOK
<1>7. RowsOK' BY <1>3, RowsSame
<1>8. FramesOK'
  <2>1. ASSUME NEW i \in 1..Len(toCore) PROVE NodeFrameOK(toCore[i])'
    <3>1. NodeFrameOK(toCore[i]) BY DEF FramesOK
    <3>2. runs[toCore[i].id] > 0 /\ toCore[i].id \in Commands => runs'[toCore[i].id] > 0
      BY <1>5 DEF LinkTypeOK
    <3> QED BY <1>3, <3>1, <3>2 DEF NodeFrameOK
  <2>2. \A i \in 1..Len(toCore') : NodeFrameOK(toCore[i])' BY <1>3, <2>1
  <2> QED BY <1>3, <2>2, CoreFramesSame DEF FramesOK
<1>9. NumbersOK' BY <1>3 DEF NumbersOK
<1>10. CommandsOK'
  <2>1. OneRunPerCommand' BY <1>5 DEF OneRunPerCommand
  <2>2. ASSUME NEW c \in done \cup inbox PROVE runs'[c] > 0
    <3>1. c \in Commands /\ runs[c] > 0 BY DEF LinkTypeOK, CommandsOK, AckedIsDone
    <3> QED BY <1>5, <3>1 DEF LinkTypeOK
  <2> QED BY <1>3, <2>1, <2>2 DEF CommandsOK, AckedIsDone
<1> QED BY <1>5, <1>6, <1>7, <1>8, <1>9, <1>10

\* Core has answered a message.
LEMMA AnswerKeeps ==
    ASSUME LinkOK, HandleAck \/ HandleError
    PROVE  LinkOK'
<1> USE DEF LinkOK
<1>1. chain # <<>> BY DEF HandleAck, HandleError, Accept, Idle
<1>2. First \in CoreFrames /\ CoreFrameOK(First) BY <1>1, FirstFrame
<1>3. /\ FirstDone /\ incoming' = First.seq
      /\ UNCHANGED <<node, socket, hellos, timers, sequence, attempts, order, commands, toCore, toNode,
                     coreState, bounds>>
      /\ \/ outbox' = outbox
         \/ /\ First.id \in received \cup refused
            /\ outbox' = [outbox EXCEPT ![First.id] = "acked"]
  BY <1>2 DEF HandleAck, HandleError, Accept, Acknowledge, Final, CoreFrameOK
<1>4. /\ chain' = Tail(chain) /\ handling' = "idle" /\ chain' \in Seq(CoreFrames)
      /\ \A i \in 1..Len(chain') : CoreFrameOK(chain'[i])
  BY <1>1, <1>3, FirstFrame DEF FirstDone
<1>5. /\ outbox' \in [Messages -> {"none", "pending", "acked", "dead"}]
      /\ \A m \in Messages : \/ outbox'[m] = outbox[m]
                             \/ outbox'[m] = "acked" /\ m \in received \cup refused
  BY <1>3 DEF LinkTypeOK
<1>6. LinkTypeOK' BY <1>2, <1>3, <1>4, <1>5 DEF LinkTypeOK, CoreFrames
<1>7. RowsOK' BY <1>3, <1>5 DEF RowsOK, RowOKFor, Sent
<1>8. FramesOK'
  <2>1. \A i \in 1..Len(chain') : CoreFrameOK(chain[i])' BY <1>3, <1>4 DEF CoreFrameOK
  <2> QED BY <1>3, <2>1, NodeFramesSame, CoreFramesSame DEF FramesOK
<1>9. HandlingOK' BY <1>4 DEF HandlingOK
<1>10. NumbersOK' BY <1>3 DEF NumbersOK
<1>11. CommandsOK' BY <1>3, CommandsSame
<1> QED BY <1>6, <1>7, <1>8, <1>9, <1>10, <1>11

\* The snapshot is sent: the timers start, and the outbox is flushed.
LEMMA WelcomedKeeps ==
    ASSUME LinkOK, NEW due \in SUBSET Pending, Welcomed(due)
    PROVE  LinkOK'
<1> USE DEF LinkOK
<1>1. chain # <<>> BY DEF Welcomed, HandlingOK
<1>2. /\ timers' = TRUE /\ FirstDone
      /\ UNCHANGED <<node, hellos, incoming, order, commands, toNode, coreState, bounds>>
  BY DEF Welcomed, StartTimers
<1>3. /\ chain' = Tail(chain) /\ handling' = "idle" /\ chain' \in Seq(CoreFrames)
      /\ \A i \in 1..Len(chain') : CoreFrameOK(chain'[i])
  BY <1>1, <1>2, FirstFrame DEF FirstDone
<1>4. /\ attempts' \in [Messages -> 0..MaxAttempts]
      /\ outbox' \in [Messages -> {"none", "pending", "acked", "dead"}]
      /\ sequence' \in Nat /\ toCore' \in Seq(NodeFrames)
      /\ socket' \in {"none", "connecting", "open", "closing"}
      /\ RowsOK' /\ NumbersOK' /\ \A i \in 1..Len(toCore') : NodeFrameOK(toCore[i])'
  <2>1. CASE socket = "open"
    <3>1. FlushOutbox(due) BY <2>1 DEF Welcomed
    <3> QED BY <1>2, <2>1, <3>1, FlushRows
  <2>2. CASE socket # "open"
    <3>1. UNCHANGED <<outbox, attempts, sequence, toCore, socket>> BY <2>2 DEF Welcomed
    <3>2. RowsOK' BY <1>2, <3>1, RowsSame
    <3>3. NumbersOK' BY <1>2, <3>1 DEF NumbersOK
    <3> QED BY <1>2, <3>1, <3>2, <3>3, NodeFramesSame DEF LinkTypeOK
  <2> QED BY <2>1, <2>2
<1>5. LinkTypeOK' BY <1>2, <1>3, <1>4 DEF LinkTypeOK
<1>6. FramesOK'
  <2>1. \A i \in 1..Len(chain') : CoreFrameOK(chain[i])' BY <1>2, <1>3 DEF CoreFrameOK
  <2> QED BY <1>2, <1>4, <2>1, CoreFramesSame DEF FramesOK
<1>7. HandlingOK' BY <1>3 DEF HandlingOK
<1>8. CommandsOK' BY <1>2, CommandsSame
<1> QED BY <1>4, <1>5, <1>6, <1>7, <1>8

-----------------------------------------------------------------------------
(* Core *)

\* The frame that Core takes was the next one, and leaves those after it.
LEMMA TakenFrame ==
    ASSUME LinkOK, NEW type, CoreTakes(type)
    PROVE  /\ Head(toCore) \in NodeFrames /\ NodeFrameOK(Head(toCore)) /\ Head(toCore).type = type
           /\ toCore' \in Seq(NodeFrames) /\ lastSeq' \in Nat
           /\ NumbersOK'
           /\ runs' = runs => \A i \in 1..Len(toCore') : NodeFrameOK(toCore[i])'
<1> USE DEF LinkOK
<1>1. /\ toCore # <<>> /\ Head(toCore).type = type /\ toCore' = Tail(toCore)
      /\ lastSeq' = Head(toCore).seq /\ UNCHANGED <<socket, sequence>>
  BY DEF CoreTakes
<1>2. /\ toCore \in Seq(NodeFrames) /\ lastSeq \in Nat
      /\ Head(toCore) \in NodeFrames /\ Tail(toCore) \in Seq(NodeFrames)
      /\ Len(Tail(toCore)) = Len(toCore) - 1 /\ Len(toCore) \in Nat \ {0}
      /\ \A i \in 1..Len(Tail(toCore)) : Tail(toCore)[i] = toCore[i + 1]
      /\ Head(toCore) = toCore[1]
  BY <1>1, HeadTailProperties, EmptySeq DEF LinkTypeOK
<1>3. NodeFrameOK(Head(toCore)) BY <1>2 DEF FramesOK
<1>4. lastSeq' = lastSeq + 1 BY <1>1, <1>2 DEF NumbersOK
<1>5. ASSUME NEW i \in 1..Len(toCore')
      PROVE  toCore'[i].seq = lastSeq' + i /\ NodeFrameOK(toCore'[i])
  <2>1. i + 1 \in 1..Len(toCore) /\ toCore'[i] = toCore[i + 1] BY <1>1, <1>2
  <2>2. toCore[i + 1].seq = lastSeq + (i + 1) BY <2>1 DEF NumbersOK
  <2> QED BY <1>2, <1>4, <2>1, <2>2 DEF FramesOK
<1>6. NumbersOK'
  <2>1. socket' \notin {"none", "connecting"} BY <1>1 DEF NumbersOK
  <2>2. ASSUME socket' = "open" PROVE sequence' = lastSeq' + Len(toCore')
    <3>1. sequence = lastSeq + Len(toCore) BY <1>1, <2>2 DEF NumbersOK
    <3>2. sequence' = sequence /\ Len(toCore') = Len(toCore) - 1 BY <1>1, <1>2
    <3> QED BY <1>2, <1>4, <3>1, <3>2
  <2> QED BY <1>5, <2>1, <2>2 DEF NumbersOK
<1>7. runs' = runs => \A i \in 1..Len(toCore') : NodeFrameOK(toCore[i])' BY <1>5 DEF NodeFrameOK
<1> QED BY <1>1, <1>2, <1>3, <1>4, <1>6, <1>7

\* Core says something: the frame is true when it is sent.
LEMMA AnswerFrames ==
    ASSUME LinkTypeOK, FramesOK, received \subseteq received', refused \subseteq refused', chain' = chain,
           NEW type \in {"core.welcome", "message.ack", "error.final", "error.retryable", "run.create"},
           NEW id \in Messages \cup Commands \cup {NoId}, Answer(type, id),
           type = "run.create" => id \in Commands,
           type \in {"message.ack", "error.final"} => id \in received' \cup refused'
    PROVE  /\ coreSeq' \in Nat /\ toNode' \in Seq(CoreFrames)
           /\ \A i \in 1..Len(chain') : CoreFrameOK(chain[i])'
           /\ \A i \in 1..Len(toNode') : CoreFrameOK(toNode[i])'
<1> DEFINE f == [type |-> type, id |-> id, seq |-> coreSeq + 1]
<1>1. coreSeq \in Nat /\ coreSeq' = coreSeq + 1 /\ toNode' = Append(toNode, f) /\ toNode \in Seq(CoreFrames)
  BY DEF Answer, LinkTypeOK
<1>2. f \in CoreFrames /\ f.type = type /\ f.id = id BY <1>1 DEF CoreFrames
<1> HIDE DEF f
<1>3. /\ toNode' \in Seq(CoreFrames) /\ Len(toNode') = Len(toNode) + 1 /\ Len(toNode) \in Nat
      /\ \A i \in 1..Len(toNode) + 1 : toNode'[i] = IF i <= Len(toNode) THEN toNode[i] ELSE f
  BY <1>1, <1>2, AppendProperties, LenProperties
<1>4. ASSUME NEW i \in 1..Len(toNode') PROVE CoreFrameOK(toNode[i])'
  <2>1. CASE i <= Len(toNode)
    <3>1. toNode'[i] = toNode[i] /\ CoreFrameOK(toNode[i]) BY <1>3, <2>1 DEF FramesOK
    <3> QED BY <3>1 DEF CoreFrameOK
  <2>2. CASE ~(i <= Len(toNode))
    <3>1. toNode'[i] = f BY <1>3, <2>2
    <3> QED BY <1>2, <3>1 DEF CoreFrameOK
  <2> QED BY <2>1, <2>2
<1> QED BY <1>1, <1>3, <1>4, CoreFramesSame

\* Core takes a frame, and answers it or not.
LEMMA CoreKeeps ==
    ASSUME LinkOK, CoreStep
    PROVE  LinkOK'
<1> USE DEF LinkOK
<1>1. PICK type \in {"node.hello", "event", "message.ack", "message.error", "run.accepted"} : CoreTakes(type)
  BY DEF CoreStep, CoreWelcomes, CoreReceives, CoreHears
<1>2. UNCHANGED <<node, session, sequence, outboxes, commands, issued, bounds>> BY <1>1 DEF CoreTakes
<1> DEFINE f == Head(toCore)
<1>3. /\ f \in NodeFrames /\ NodeFrameOK(f) /\ f.type = type
      /\ toCore' \in Seq(NodeFrames) /\ lastSeq' \in Nat /\ NumbersOK'
      /\ \A i \in 1..Len(toCore') : NodeFrameOK(toCore[i])'
  BY <1>1, <1>2, TakenFrame
<1>4. /\ greeted' \in BOOLEAN
      /\ received \subseteq received' /\ received' \subseteq Messages
      /\ refused \subseteq refused' /\ refused' \subseteq Messages
      /\ done \subseteq done' /\ done' \subseteq Commands
      /\ \A c \in done' : runs[c] > 0
  <2>1. /\ greeted \in BOOLEAN /\ received \subseteq Messages /\ refused \subseteq Messages
        /\ done \subseteq Commands /\ \A c \in done : runs[c] > 0
    BY DEF LinkTypeOK, CommandsOK, AckedIsDone
  <2>2. CASE CoreWelcomes BY <2>1, <2>2 DEF CoreWelcomes
  <2>3. CASE CoreReceives
    <3>1. f.id \in Messages BY <1>3, <2>3 DEF CoreReceives, CoreTakes, NodeFrameOK
    <3> QED BY <2>1, <2>3, <3>1 DEF CoreReceives
  <2>4. CASE CoreHears
    <3>1. f.type = "message.ack" => f.id \in Commands /\ runs[f.id] > 0 BY <1>3 DEF NodeFrameOK
    <3>2. /\ done' = IF f.type = "message.ack" THEN done \cup {f.id} ELSE done
          /\ UNCHANGED <<greeted, received, refused>>
      BY <2>4 DEF CoreHears
    <3> QED BY <2>1, <3>1, <3>2
  <2> QED BY <2>2, <2>3, <2>4 DEF CoreStep
<1>5. /\ coreSeq' \in Nat /\ toNode' \in Seq(CoreFrames)
      /\ \A i \in 1..Len(chain') : CoreFrameOK(chain[i])'
      /\ \A i \in 1..Len(toNode') : CoreFrameOK(toNode[i])'
  <2>1. CASE UNCHANGED <<coreSeq, toNode>>
    <3>1. chain' = chain /\ coreSeq' = coreSeq /\ toNode' = toNode BY <1>2, <2>1
    <3> QED BY <1>4, <3>1, CoreFramesSame DEF LinkTypeOK
  <2>2. ASSUME NEW to \in {"core.welcome", "message.ack", "error.final", "error.retryable"},
               NEW id \in Messages \cup Commands \cup {NoId}, Answer(to, id),
               to \in {"message.ack", "error.final"} => id \in received' \cup refused'
        PROVE  /\ coreSeq' \in Nat /\ toNode' \in Seq(CoreFrames)
               /\ \A i \in 1..Len(chain') : CoreFrameOK(chain[i])'
               /\ \A i \in 1..Len(toNode') : CoreFrameOK(toNode[i])'
    <3>1. chain' = chain BY <1>2
    <3> QED BY <1>4, <2>2, <3>1, AnswerFrames
  <2>3. CASE CoreWelcomes BY <2>1, <2>2, <2>3 DEF CoreWelcomes
  <2>4. CASE CoreReceives
    <3>1. f.id \in Messages BY <1>3, <2>4 DEF CoreReceives, CoreTakes, NodeFrameOK
    <3>2. \/ UNCHANGED <<coreSeq, toNode>>
          \/ Answer("message.ack", f.id) /\ f.id \in received'
          \/ Answer("error.final", f.id) /\ f.id \in refused'
          \/ Answer("error.retryable", f.id)
      BY <2>4 DEF CoreReceives
    <3> QED BY <2>1, <2>2, <3>1, <3>2
  <2>5. CASE CoreHears BY <2>1, <2>5 DEF CoreHears
  <2> QED BY <2>3, <2>4, <2>5 DEF CoreStep
<1> HIDE DEF f
<1>6. LinkTypeOK' BY <1>2, <1>3, <1>4, <1>5 DEF LinkTypeOK
<1>7. RowsOK' BY <1>2, <1>4, RowsSame
<1>8. FramesOK' BY <1>3, <1>5 DEF FramesOK
<1>9. HandlingOK' BY <1>2 DEF HandlingOK, First
<1>10. CommandsOK' BY <1>2, <1>4 DEF CommandsOK, OneRunPerCommand, AckedIsDone
<1> QED BY <1>3, <1>6, <1>7, <1>8, <1>9, <1>10

\* Core sends a command, for the first time or again.
LEMMA IssueKeeps ==
    ASSUME LinkOK, NEW c \in Commands, CoreIssues(c)
    PROVE  LinkOK'
<1> USE DEF LinkOK
<1>1. /\ issued[c] < MaxIssues /\ issued' = [issued EXCEPT ![c] = @ + 1] /\ Answer("run.create", c)
      /\ UNCHANGED <<node, session, sequence, outboxes, commands, toCore, greeted, lastSeq,
                     received, refused, done, bounds>>
  BY DEF CoreIssues
<1>2. issued' \in [Commands -> 0..MaxIssues]
  <2>1. MaxIssues \in Nat /\ issued[c] \in 0..MaxIssues BY LinkAssumption DEF LinkTypeOK
  <2>2. issued[c] + 1 \in 0..MaxIssues BY <1>1, <2>1
  <2> QED BY <1>1, <2>2 DEF LinkTypeOK
<1>3. /\ coreSeq' \in Nat /\ toNode' \in Seq(CoreFrames)
      /\ \A i \in 1..Len(chain') : CoreFrameOK(chain[i])'
      /\ \A i \in 1..Len(toNode') : CoreFrameOK(toNode[i])'
  BY <1>1, AnswerFrames
<1>4. LinkTypeOK' BY <1>1, <1>2, <1>3 DEF LinkTypeOK
<1>5. RowsOK' BY <1>1, RowsSame
<1>6. FramesOK' BY <1>1, <1>3, NodeFramesSame DEF FramesOK
<1>7. HandlingOK' BY <1>1 DEF HandlingOK, First
<1>8. NumbersOK' BY <1>1 DEF NumbersOK
<1>9. CommandsOK' BY <1>1, CommandsSame
<1> QED BY <1>4, <1>5, <1>6, <1>7, <1>8, <1>9

-----------------------------------------------------------------------------
(* The invariant, and what it gives *)

\* A Node that has never been connected.
LEMMA InitLink == Init => LinkOK
<1> SUFFICES ASSUME Init PROVE LinkOK OBVIOUS
<1> USE LinkAssumption DEF Init
<1>1. <<>> \in Seq(CoreFrames) /\ <<>> \in Seq(NodeFrames) /\ <<>> \in Seq(Messages) BY EmptySeq
<1>2. LinkTypeOK
  <2>1. 0 \in 0..MaxAttempts /\ 0 \in 0..MaxIssues /\ 0 \in 0..MaxFailures /\ 0 \in 0..MaxCrashes
    OBVIOUS
  <2>2. /\ outbox \in [Messages -> {"none", "pending", "acked", "dead"}]
        /\ attempts \in [Messages -> 0..MaxAttempts]
        /\ runs \in [Commands -> Nat] /\ issued \in [Commands -> 0..MaxIssues]
    BY <2>1
  <2>3. /\ chain \in Seq(CoreFrames) /\ toNode \in Seq(CoreFrames) /\ toCore \in Seq(NodeFrames)
        /\ order \in Seq(Messages)
    BY <1>1
  <2>4. /\ hellos \in Nat /\ timers \in BOOLEAN /\ sequence \in Nat /\ incoming \in Nat
        /\ greeted \in BOOLEAN /\ coreSeq \in Nat /\ lastSeq \in Nat
        /\ failures \in 0..MaxFailures /\ crashes \in 0..MaxCrashes
    BY <2>1
  <2>5. /\ node \in {"up", "down"} /\ socket \in {"none", "connecting", "open", "closing"}
        /\ handling \in {"idle", "snapshot", "creating", "created"}
        /\ inbox \subseteq Commands /\ received \subseteq Messages /\ refused \subseteq Messages
        /\ done \subseteq Commands
    OBVIOUS
  <2> QED BY <2>2, <2>3, <2>4, <2>5 DEF LinkTypeOK
<1>3. RowsOK BY DEF RowsOK, RowOKFor, Sent
<1>4. FramesOK BY DEF FramesOK
<1>5. HandlingOK BY DEF HandlingOK
<1>6. NumbersOK BY DEF NumbersOK
<1>7. CommandsOK BY DEF CommandsOK, OneRunPerCommand, AckedIsDone
<1> QED BY <1>2, <1>3, <1>4, <1>5, <1>6, <1>7 DEF LinkOK

LEMMA StepLink == LinkOK /\ [Next]_vars => LinkOK'
<1> SUFFICES ASSUME LinkOK, [Next]_vars PROVE LinkOK' OBVIOUS
<1>1. CASE UNCHANGED vars
  <2> USE <1>1 DEF vars, LinkOK
  <2>1. LinkTypeOK' BY DEF LinkTypeOK
  <2>2. RowsOK' BY RowsSame
  <2>3. FramesOK' BY NodeFramesSame, CoreFramesSame DEF FramesOK
  <2>4. HandlingOK' BY DEF HandlingOK, First
  <2>5. NumbersOK' BY DEF NumbersOK
  <2>6. CommandsOK' BY CommandsSame
  <2> QED BY <2>1, <2>2, <2>3, <2>4, <2>5, <2>6
<1>2. CASE Next
  BY <1>2, EmitKeeps, FlushKeeps, ConnectingKeeps, SendHelloKeeps, ReceiveKeeps, CommandKeeps, CreateKeeps,
     AnswerKeeps, WelcomedKeeps, CoreKeeps, IssueKeeps
  DEF Next, Connecting, Handle
<1> QED BY <1>1, <1>2

LEMMA LinkInvariant == Spec => []LinkOK
BY InitLink, StepLink, PTL DEF Spec

\* Every variable is of its type.
THEOREM LinkTyped == Spec => []LinkTypeOK
<1>1. LinkOK => LinkTypeOK BY DEF LinkOK
<1> QED BY <1>1, LinkInvariant, PTL

\* However often a command arrives, and wherever the Node died while it created
\* the Run, one Run at most carries the command.
THEOREM CommandsRunOnce == Spec => []OneRunPerCommand
<1>1. LinkOK => OneRunPerCommand BY DEF LinkOK, CommandsOK
<1> QED BY <1>1, LinkInvariant, PTL

\* What the Node acknowledged, it will remember and has done.
THEOREM AcknowledgementsAreTrue == Spec => []AckedIsDone
<1>1. LinkOK => AckedIsDone BY DEF LinkOK, CommandsOK
<1> QED BY <1>1, LinkInvariant, PTL

\* A message leaves the outbox only because Core has it, or rejected it for
\* good, or after the last attempt.
THEOREM OutboxForgetsNothing == Spec => []NothingForgotten
<1>1. LinkOK => NothingForgotten
  <2> SUFFICES ASSUME LinkOK, NEW m \in Sent
               PROVE  \/ outbox[m] = "pending"
                      \/ outbox[m] = "acked" /\ m \in received \cup refused
                      \/ outbox[m] = "dead" /\ attempts[m] >= MaxAttempts
    BY DEF NothingForgotten
  <2>1. order \in Seq(Messages) BY DEF LinkOK, LinkTypeOK
  <2>2. m \in Messages BY <2>1, ElementOfSeq, LenProperties DEF Sent
  <2>3. RowOKFor(m) BY <2>2 DEF LinkOK, RowsOK
  <2>4. outbox[m] \in {"none", "pending", "acked", "dead"} BY <2>2 DEF LinkOK, LinkTypeOK
  <2> QED BY <2>3, <2>4 DEF RowOKFor
<1> QED BY <1>1, LinkInvariant, PTL

\* The frames of a connection are numbered without a gap, from 1 on.
THEOREM NumbersHaveNoGap == Spec => []NumberedWithoutGap
<1>1. LinkOK => NumberedWithoutGap
  <2> SUFFICES ASSUME LinkOK PROVE NumberedWithoutGap OBVIOUS
  <2>1. DOMAIN toCore = 1..Len(toCore) BY LenProperties DEF LinkOK, LinkTypeOK
  <2> QED BY <2>1 DEF LinkOK, NumbersOK, NumberedWithoutGap
<1> QED BY <1>1, LinkInvariant, PTL
=============================================================================
