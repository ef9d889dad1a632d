------------------------- MODULE ConversationProofs -------------------------
(***************************************************************************)
(* What Conversations promises, for any conversations, turns, events,      *)
(* edits and crashes.                                                      *)
(*                                                                         *)
(* The invariant has four parts.  StoreOK: what the tables have in common  *)
(* with the Runs after every statement, so that a process may die there.   *)
(* RunsOK: what the log of a Run looks like.  SendingOK: what holds while  *)
(* sendMessage waits.  QueuesOK: what the two consumers of events have     *)
(* claimed, and what they have yet to apply.                               *)
(***************************************************************************)
EXTENDS Conversations, SequenceTheorems, TLAPS

Statuses == {"absent", "idle", "responding", "error", "archived"}
ConvRec  == [status : Statuses, active : Turns \cup {NoTurn}, title : Nat]
ReplyRec == [status : {"absent"} \cup Open \cup Ended, run : BOOLEAN, text : Seq(Nat)]
ActRec   == [work : {"none", "running", "completed", "failed"},
             approval : {"none", "pending", "completed", "denied"}, error : BOOLEAN]
RunRec   == [status : {"none", "open"} \cup Ended, live : BOOLEAN, log : Seq(EventKinds),
             waiting : BOOLEAN, cancelled : BOOLEAN]
Events   == Turns \X (Nat \ {0})
Tables   == [conv : [Convs -> ConvRec], reply : [Turns -> ReplyRec], act : [Turns -> ActRec]]
DB == [conv : [Convs -> ConvRec], user : SUBSET Turns, reply : [Turns -> ReplyRec],
       act : [Turns -> ActRec], claimed : SUBSET Events, seen : Tables]

Typed ==
    /\ db \in DB
    /\ run \in [Turns -> RunRec]
    /\ chain \in Seq(Events)
    /\ inflight \in Seq([by : Consumers, event : Events])
    /\ pending \subseteq Convs
    /\ pc \in [Turns -> {"idle", "creating", "created", "replaying"}]
    /\ copy \in [Turns -> ConvRec]
    /\ todo \in [Turns -> (Nat \ {0}) \X Nat]
    /\ node \in {"down", "starting", "up"}
    /\ listed \subseteq Convs
    /\ edits \in 0..MaxEdits /\ crashes \in Nat

(* The tables, after every statement *)

\* A reply of which nothing has been said yet has no activities and no Run.
Untouched(d, r, t) ==
    /\ t \notin d.user => d.reply[t].status = "absent"
    /\ d.reply[t].status = "absent" => r[t].status = "none" /\ d.act[t] = NoAct

\* Until the conversation records the turn nothing is written to its reply.  A reply
\* whose Run is gone may still say what it said.
Bare(d, r, t) ==
    /\ d.reply[t].status = "queued" \/ (d.reply[t].status \in Open /\ r[t].status # "none")
    /\ d.conv[ConvOf[t]].active # t
    =>
        /\ d.reply[t].text = <<>> /\ d.act[t] = NoAct
        /\ \A m \in Nat : <<t, m>> \in d.claimed => m = 1

EndsWell(d, r, t) ==
    d.reply[t].status \in Ended =>
        /\ r[t].status \in {"none", d.reply[t].status}
        /\ d.reply[t].status = "completed" => d.reply[t].text = <<0>>

ConvOK(d, c, n) ==
    /\ d.conv[c].active # NoTurn <=> d.conv[c].status = "responding"
    /\ \A t \in Turns : d.conv[c].active = t =>
          ConvOf[t] = c /\ d.reply[t].status \notin {"absent", "queued"}
    /\ d.conv[c].status = "absent" => d.conv[c].title = 0
    /\ d.conv[c].title <= n

StoreOK(d, r, n) ==
    /\ \A t \in Turns : Untouched(d, r, t) /\ Bare(d, r, t) /\ EndsWell(d, r, t)
    /\ \A c \in Convs : ConvOK(d, c, n)

(* The Runs *)

Verdicts == {"allowed", "denied"}

RowOK(r) ==
    /\ r.status = "none" => r.log = <<>> /\ ~r.live
    /\ r.status # "none" => r.log # <<>> /\ r.log[1] = "created"
    /\ \A m \in DOMAIN r.log : r.log[m] \in Ended =>
          m = Len(r.log) /\ ~r.live /\ r.status = r.log[m]
    /\ \A i, j \in DOMAIN r.log : r.log[i] = "asked" /\ r.log[j] = "asked" => i = j
    /\ \A i, j \in DOMAIN r.log : r.log[i] \in Verdicts /\ r.log[j] \in Verdicts => i = j
    /\ \A j \in DOMAIN r.log : r.log[j] \in Verdicts => \E i \in 1..j - 1 : r.log[i] = "asked"
    /\ r.waiting => /\ \E i \in DOMAIN r.log : r.log[i] = "asked"
                    /\ \A i \in DOMAIN r.log : r.log[i] \notin Verdicts

RunsOK ==
    /\ \A t \in Turns :
          /\ RowOK(run[t])
          /\ run[t].waiting => run[t].live
          /\ run[t].live => up
          /\ up /\ run[t].status = "open" => run[t].live
          /\ node = "starting" => run[t].status # "open"
    /\ OneTurnAtATime

(* sendMessage *)

InCreate(t) == pc[t] \in {"creating", "created"}

SendingOK ==
    /\ \A t \in Turns : pc[t] # "idle" => up /\ ConvOf[t] \in pending
    /\ \A s, t \in Turns : pc[s] # "idle" /\ pc[t] # "idle" /\ ConvOf[s] = ConvOf[t] => s = t
    /\ \A t \in Turns : InCreate(t) =>
          /\ t \in db.user
          /\ db.conv[ConvOf[t]].active = NoTurn
          /\ db.conv[ConvOf[t]].status # "absent"
          /\ db.reply[t].status = "queued"
          /\ copy[t].active = NoTurn /\ copy[t].status \notin {"absent", "responding", "archived"}
          /\ copy[t].title <= edits
    /\ \A t \in Turns : pc[t] = "creating" => run[t].status = "none"
    /\ \A t \in Turns : pc[t] = "created" =>
          run[t].live /\ run[t].status = "open" /\ run[t].log = <<"created">> /\ ~run[t].waiting
    /\ \A t \in Turns : pc[t] = "replaying" =>
          /\ todo[t][2] <= Len(run[t].log)
          /\ \A m \in 1..todo[t][1] - 1 : <<t, m>> \in db.claimed
    /\ ~up => pending = {} /\ chain = <<>> /\ inflight = <<>> /\ crashes > 0

(* The events *)

Alive(t) == pc[t] = "created" \/ db.conv[ConvOf[t]].active = t

InChain(e) == \E i \in DOMAIN chain : chain[i] = e

ClaimsOK ==
    \A t \in Turns, m \in Nat : <<t, m>> \in db.claimed =>
        m <= Len(run[t].log) /\ \A k \in 1..m : <<t, k>> \in db.claimed

\* What the chain offers has been emitted, and all before it is claimed or ahead of it.
ChainAt(i) ==
    LET t == chain[i][1]
        n == chain[i][2]
    IN  /\ n <= Len(run[t].log)
        /\ \A m \in 1..n - 1 : <<t, m>> \in db.claimed \/ \E j \in 1..i - 1 : chain[j] = <<t, m>>

ChainOK ==
    /\ \A i \in DOMAIN chain : ChainAt(i)
    /\ \A t \in Turns : run[t].live =>
          \A m \in DOMAIN run[t].log : <<t, m>> \in db.claimed \/ InChain(<<t, m>>)

\* A claimed event that waits: its turn goes on, its consumer stands at it, and what
\* was claimed after it waits too.
InflightAt(i) ==
    LET e   == inflight[i].event
        who == inflight[i].by
    IN  /\ e \in db.claimed /\ Alive(e[1])
        /\ who = NoTurn => chain # <<>> /\ e = Head(chain)
        /\ who # NoTurn => pc[who] = "replaying" /\ e = <<who, todo[who][1]>> /\ todo[who][1] <= todo[who][2]
        /\ \A m \in Nat : m > e[2] /\ <<e[1], m>> \in db.claimed =>
              \E j \in DOMAIN inflight : inflight[j].event = <<e[1], m>>

InflightOK ==
    /\ \A i \in DOMAIN inflight : InflightAt(i)
    /\ \A i, j \in DOMAIN inflight : i < j =>
          /\ inflight[i].by # inflight[j].by
          /\ inflight[i].event[1] = inflight[j].event[1] =>
                inflight[i].event[2] < inflight[j].event[2]

\* A turn that is over has no event left that somebody would still apply.
OverOK ==
    \A t \in Turns : up /\ ~Alive(t) =>
        /\ ~run[t].live
        /\ \A m \in Nat : InChain(<<t, m>>) => <<t, m>> \in db.claimed
        /\ pc[t] = "replaying" => \A m \in 1..todo[t][2] : <<t, m>> \in db.claimed

ActiveOK ==
    /\ up => \A t \in Turns : db.conv[ConvOf[t]].active = t =>
          pc[t] \in {"idle", "replaying"} /\ db.reply[t].status \in Open /\ run[t].status # "none"
    /\ node = "starting" => \A c \in Convs : db.conv[c].active # NoTurn <=> c \in listed

QueuesOK == ClaimsOK /\ ChainOK /\ InflightOK /\ OverOK

ConversationInv ==
    /\ Typed /\ StoreOK(db, run, edits) /\ RunsOK /\ SendingOK /\ QueuesOK /\ ActiveOK
    /\ ReplyFollowsEvents /\ ActivitiesEnd /\ ReadersAgree

-----------------------------------------------------------------------------
(* Statements and plans                                                     *)

USE ConversationAssumption DEF ConversationAssumption

LEMMA SaveIs ==
    ASSUME NEW d \in DB, NEW c \in Convs, NEW x \in ConvRec
    PROVE  /\ Save(d, c, x) \in DB
           /\ Save(d, c, x) = [d EXCEPT !.conv = [d.conv EXCEPT ![c] = x]]
BY DEF Save, DB

LEMMA SaveMessageIs ==
    ASSUME NEW d \in DB, NEW t \in Turns, NEW x \in ReplyRec
    PROVE  /\ SaveMessage(d, t, x) \in DB
           /\ SaveMessage(d, t, x) = [d EXCEPT !.reply = [d.reply EXCEPT ![t] = x]]
BY DEF SaveMessage, DB

LEMMA PublishConvIs ==
    ASSUME NEW d \in DB, NEW c \in Convs
    PROVE  /\ PublishConv(d, c) \in DB
           /\ PublishConv(d, c) = [d EXCEPT !.seen =
                 [conv |-> [d.seen.conv EXCEPT ![c] = d.conv[c]],
                  reply |-> d.seen.reply, act |-> d.seen.act]]
<1>1. d.seen \in Tables /\ d.conv[c] \in ConvRec BY DEF DB
<1>2. [d.seen EXCEPT !.conv[c] = d.conv[c]] =
         [conv |-> [d.seen.conv EXCEPT ![c] = d.conv[c]], reply |-> d.seen.reply, act |-> d.seen.act]
  BY <1>1 DEF Tables
<1>3. [conv |-> [d.seen.conv EXCEPT ![c] = d.conv[c]], reply |-> d.seen.reply, act |-> d.seen.act] \in Tables
  BY <1>1 DEF Tables
<1>4. PublishConv(d, c) = [d EXCEPT !.seen = [d.seen EXCEPT !.conv[c] = d.conv[c]]]
  BY DEF PublishConv, DB
<1> QED BY <1>2, <1>3, <1>4 DEF DB

LEMMA PublishMessageIs ==
    ASSUME NEW d \in DB, NEW t \in Turns
    PROVE  /\ PublishMessage(d, t) \in DB
           /\ PublishMessage(d, t) = [d EXCEPT !.seen =
                 [conv |-> d.seen.conv, reply |-> [d.seen.reply EXCEPT ![t] = d.reply[t]],
                  act |-> d.seen.act]]
<1>1. d.seen \in Tables /\ d.reply[t] \in ReplyRec BY DEF DB
<1>2. [d.seen EXCEPT !.reply[t] = d.reply[t]] =
         [conv |-> d.seen.conv, reply |-> [d.seen.reply EXCEPT ![t] = d.reply[t]], act |-> d.seen.act]
  BY <1>1 DEF Tables
<1>3. [conv |-> d.seen.conv, reply |-> [d.seen.reply EXCEPT ![t] = d.reply[t]], act |-> d.seen.act] \in Tables
  BY <1>1 DEF Tables
<1>4. PublishMessage(d, t) = [d EXCEPT !.seen = [d.seen EXCEPT !.reply[t] = d.reply[t]]]
  BY DEF PublishMessage, DB
<1> QED BY <1>2, <1>3, <1>4 DEF DB

\* The two statements of upsertActivity
LEMMA UpsertIs ==
    ASSUME NEW d \in DB, NEW t \in Turns, NEW kind \in {"work", "approval", "error"}, NEW v,
           [d.act[t] EXCEPT ![kind] = v] \in ActRec
    PROVE  \E a, b \in DB :
              /\ UpsertActivity(d, t, kind, v) = <<a, b>>
              /\ a = [d EXCEPT !.act = [d.act EXCEPT ![t] = [d.act[t] EXCEPT ![kind] = v]]]
              /\ b = [a EXCEPT !.seen =
                        [conv |-> d.seen.conv, reply |-> d.seen.reply,
                         act |-> [d.seen.act EXCEPT ![t] = [d.seen.act[t] EXCEPT ![kind] = v]]]]
<1> DEFINE row == [d.act[t] EXCEPT ![kind] = v]
           a == [d EXCEPT !.act = [d.act EXCEPT ![t] = row]]
           seen == [conv |-> d.seen.conv, reply |-> d.seen.reply,
                    act |-> [d.seen.act EXCEPT ![t] = [d.seen.act[t] EXCEPT ![kind] = v]]]
           b == [a EXCEPT !.seen = seen]
<1>1. d.act[t] \in ActRec /\ d.seen \in Tables /\ d.seen.act[t] \in ActRec BY DEF DB, Tables
<1>2. [d.seen.act[t] EXCEPT ![kind] = v] \in ActRec BY <1>1 DEF ActRec
<1>3. a \in DB BY DEF DB
<1>4. seen \in Tables BY <1>1, <1>2 DEF Tables
<1>5. b \in DB BY <1>3, <1>4 DEF DB
<1>6. [d EXCEPT !.act[t][kind] = v] = a BY <1>1 DEF DB, ActRec
<1>7. [a EXCEPT !.seen.act[t][kind] = v] = b
  <2>1. a.seen = d.seen BY DEF DB
  <2>2. [a EXCEPT !.seen.act[t][kind] = v] = [a EXCEPT !.seen = [a.seen EXCEPT !.act[t][kind] = v]]
    BY <1>3 DEF DB
  <2>3. [d.seen EXCEPT !.act[t][kind] = v] = seen
    <3>1. [d.seen EXCEPT !.act[t][kind] = v]
             = [d.seen EXCEPT !.act = [d.seen.act EXCEPT ![t][kind] = v]] BY <1>1 DEF Tables
    <3>2. [d.seen.act EXCEPT ![t][kind] = v]
             = [d.seen.act EXCEPT ![t] = [d.seen.act[t] EXCEPT ![kind] = v]] BY <1>1 DEF Tables
    <3> QED BY <1>1, <3>1, <3>2 DEF Tables
  <2> QED BY <2>1, <2>2, <2>3
<1>8. UpsertActivity(d, t, kind, v) = <<a, b>> BY <1>6, <1>7 DEF UpsertActivity
<1> QED BY <1>3, <1>5, <1>8

LEMMA AfterTwo ==
    ASSUME NEW d, NEW a, NEW b
    PROVE  After(d, <<a, b>>) = b /\ Short(d, <<a, b>>) = {d, a}
BY DEF After, Short, Last

LEMMA AfterThree ==
    ASSUME NEW d, NEW a, NEW b, NEW c
    PROVE  After(d, <<a, b, c>>) = c /\ Short(d, <<a, b, c>>) = {d, a, b}
BY DEF After, Short, Last

LEMMA AfterFour ==
    ASSUME NEW d, NEW a, NEW b, NEW c, NEW e
    PROVE  After(d, <<a, b, c, e>>) = e /\ Short(d, <<a, b, c, e>>) = {d, a, b, c}
<1>1. 1..3 = {1, 2, 3} OBVIOUS
<1> QED BY <1>1 DEF After, Short, Last

LEMMA AfterNone ==
    ASSUME NEW d
    PROVE  After(d, <<>>) = d /\ Short(d, <<>>) = {d}
BY DEF After, Short

\* One plan after another
LEMMA AfterBoth ==
    ASSUME NEW S, NEW d \in S, NEW p \in Seq(S), NEW q \in Seq(S)
    PROVE  /\ After(d, p \o q) = After(After(d, p), q)
           /\ Short(d, p \o q) \subseteq Short(d, p) \cup {After(d, p)} \cup Short(After(d, p), q)
<1>1. /\ p \o q \in Seq(S) /\ Len(p \o q) = Len(p) + Len(q)
      /\ \A i \in 1..Len(p) + Len(q) : (p \o q)[i] = IF i <= Len(p) THEN p[i] ELSE q[i - Len(p)]
  OBVIOUS
<1>2. Len(p) \in Nat /\ Len(q) \in Nat OBVIOUS
<1>3. After(d, p \o q) = After(After(d, p), q)
  <2>1. CASE q = <<>> BY <2>1 DEF After
  <2>2. CASE q # <<>>
    <3>1. Len(q) > 0 /\ p \o q # <<>> BY <1>1, <1>2, <2>2
    <3>2. (p \o q)[Len(p) + Len(q)] = q[Len(q)] BY <1>1, <1>2, <3>1
    <3> QED BY <1>1, <2>2, <3>1, <3>2 DEF After, Last
  <2> QED BY <2>1, <2>2
<1>4. ASSUME NEW x \in Short(d, p \o q)
      PROVE  x \in Short(d, p) \cup {After(d, p)} \cup Short(After(d, p), q)
  <2>1. CASE x = d BY <2>1 DEF Short
  <2>2. CASE x # d
    <3>0. x \in {(p \o q)[i] : i \in 1..Len(p \o q) - 1} BY <2>2, Zenon DEF Short
    <3>00. PICK i \in 1..Len(p \o q) - 1 : x = (p \o q)[i] BY <3>0, Zenon
    <3>01. Len(p \o q) = Len(p) + Len(q) BY <1>1
    <3>02. i \in 1..Len(p) + Len(q) - 1 BY <1>2, <3>00, <3>01
    <3>1. i \in 1..Len(p) + Len(q) - 1 /\ x = (p \o q)[i] BY <3>00, <3>02
    <3>2. CASE i < Len(p)
      <4>1. x = p[i] /\ i \in 1..Len(p) - 1 BY <1>1, <1>2, <3>1, <3>2
      <4> QED BY <4>1 DEF Short
    <3>3. CASE i = Len(p)
      <4>1. x = p[Len(p)] /\ p # <<>> BY <1>1, <1>2, <3>1, <3>3
      <4> QED BY <4>1 DEF After, Last
    <3>4. CASE i > Len(p)
      <4>1. x = q[i - Len(p)] /\ i - Len(p) \in 1..Len(q) - 1 BY <1>1, <1>2, <3>1, <3>4
      <4> QED BY <4>1 DEF Short
    <3> QED BY <1>2, <3>1, <3>2, <3>3, <3>4
  <2> QED BY <2>1, <2>2
<1> QED BY <1>3, <1>4

\* The tables agree, whatever has been published.
Like(d, e) ==
    d \in DB /\ d.conv = e.conv /\ d.user = e.user /\ d.reply = e.reply
             /\ d.act = e.act /\ d.claimed = e.claimed

\* What the readers of a database know is what it says.
Agree(d) == d.seen = [conv |-> d.conv, reply |-> d.reply, act |-> d.act]

\* A message and a conversation are saved, then published.
TurnPlan(d, t, reply, conversation) ==
    LET d1 == SaveMessage(d, t, reply)
        d2 == Save(d1, ConvOf[t], conversation)
        d3 == PublishMessage(d2, t)
    IN  <<d1, d2, d3, PublishConv(d3, ConvOf[t])>>

LEMMA TurnPlanIs ==
    ASSUME NEW d \in DB, NEW t \in Turns, NEW x \in ReplyRec, NEW y \in ConvRec
    PROVE  \E e, m \in DB :
              /\ TurnPlan(d, t, x, y) \in Seq(DB)
              /\ e = After(d, TurnPlan(d, t, x, y))
              /\ e.conv = [d.conv EXCEPT ![ConvOf[t]] = y]
              /\ e.reply = [d.reply EXCEPT ![t] = x]
              /\ e.user = d.user /\ e.act = d.act /\ e.claimed = d.claimed
              /\ Agree(d) => Agree(e)
              /\ m = SaveMessage(d, t, x)
              /\ m = [d EXCEPT !.reply = [d.reply EXCEPT ![t] = x]]
              /\ \A z \in Short(d, TurnPlan(d, t, x, y)) : z = d \/ z = m \/ Like(z, e)
<1> DEFINE c  == ConvOf[t]
           d1 == SaveMessage(d, t, x)
           d2 == Save(d1, c, y)
           d3 == PublishMessage(d2, t)
           d4 == PublishConv(d3, c)
<1>0. c \in Convs OBVIOUS
<1> HIDE DEF c
<1>1. d1 \in DB /\ d1 = [d EXCEPT !.reply = [d.reply EXCEPT ![t] = x]] BY SaveMessageIs
<1> HIDE DEF d1
<1>2. d2 \in DB /\ d2 = [d1 EXCEPT !.conv = [d1.conv EXCEPT ![c] = y]]
  <2>1. d1 \in DB BY <1>1
  <2> QED BY <1>0, <2>1, SaveIs
<1> HIDE DEF d2
<1>3. /\ d3 \in DB
      /\ d3 = [d2 EXCEPT !.seen = [conv |-> d2.seen.conv,
                 reply |-> [d2.seen.reply EXCEPT ![t] = d2.reply[t]], act |-> d2.seen.act]]
  BY <1>2, PublishMessageIs
<1> HIDE DEF d3
<1>4. /\ d4 \in DB
      /\ d4 = [d3 EXCEPT !.seen = [conv |-> [d3.seen.conv EXCEPT ![c] = d3.conv[c]],
                 reply |-> d3.seen.reply, act |-> d3.seen.act]]
  BY <1>0, <1>3, PublishConvIs
<1> HIDE DEF d4
<1>5. TurnPlan(d, t, x, y) = <<d1, d2, d3, d4>> BY DEF TurnPlan, d1, d2, d3, d4, c
<1>6. After(d, TurnPlan(d, t, x, y)) = d4 /\ Short(d, TurnPlan(d, t, x, y)) = {d, d1, d2, d3}
  BY <1>5, AfterFour
<1>7. TurnPlan(d, t, x, y) \in Seq(DB) BY <1>1, <1>2, <1>3, <1>4, <1>5
<1>8. /\ d2.conv = [d.conv EXCEPT ![c] = y] /\ d2.reply = [d.reply EXCEPT ![t] = x]
      /\ d2.user = d.user /\ d2.act = d.act /\ d2.claimed = d.claimed /\ d2.seen = d.seen
  BY <1>1, <1>2 DEF DB
<1>9. d3.conv = d2.conv /\ d3.reply = d2.reply /\ d3.user = d2.user /\ d3.act = d2.act /\ d3.claimed = d2.claimed
  BY <1>2, <1>3 DEF DB
<1>10. d4.conv = d2.conv /\ d4.reply = d2.reply /\ d4.user = d2.user /\ d4.act = d2.act /\ d4.claimed = d2.claimed
  BY <1>3, <1>4, <1>9 DEF DB
<1>11. Agree(d) => Agree(d4)
  <2> SUFFICES ASSUME Agree(d) PROVE Agree(d4) OBVIOUS
  <2>1. d.seen.conv = d.conv /\ d.seen.reply = d.reply /\ d.seen.act = d.act BY DEF Agree
  <2>2. d2.reply[t] = x /\ d3.conv[c] = y BY <1>0, <1>8, <1>9 DEF DB
  <2>3. d3.seen = [conv |-> d.conv, reply |-> [d.reply EXCEPT ![t] = x], act |-> d.act]
    BY <1>2, <1>3, <1>8, <2>1, <2>2 DEF DB
  <2>4. d4.seen = [conv |-> [d.conv EXCEPT ![c] = y], reply |-> [d.reply EXCEPT ![t] = x], act |-> d.act]
    BY <1>3, <1>4, <2>2, <2>3 DEF DB
  <2> QED BY <1>8, <1>10, <2>4 DEF Agree
<1>12. Like(d2, d4) /\ Like(d3, d4) BY <1>2, <1>3, <1>9, <1>10 DEF Like
<1>13. d1 = SaveMessage(d, t, x) BY DEF d1
<1>14. \A z \in Short(d, TurnPlan(d, t, x, y)) : z = d \/ z = d1 \/ Like(z, d4) BY <1>6, <1>12
<1>15. c = ConvOf[t] BY DEF c
<1>16. /\ d4.conv = [d.conv EXCEPT ![ConvOf[t]] = y] /\ d4.reply = [d.reply EXCEPT ![t] = x]
       /\ d4.user = d.user /\ d4.act = d.act /\ d4.claimed = d.claimed
  BY <1>8, <1>10, <1>15
<1> QED BY <1>1, <1>4, <1>6, <1>7, <1>11, <1>13, <1>14, <1>16, Zenon

LEMMA UpsertPlanIs ==
    ASSUME NEW d \in DB, NEW t \in Turns, NEW kind \in {"work", "approval", "error"}, NEW v,
           [d.act[t] EXCEPT ![kind] = v] \in ActRec
    PROVE  \E e \in DB :
              /\ UpsertActivity(d, t, kind, v) \in Seq(DB)
              /\ e = After(d, UpsertActivity(d, t, kind, v))
              /\ e.act = [d.act EXCEPT ![t] = [d.act[t] EXCEPT ![kind] = v]]
              /\ e.conv = d.conv /\ e.reply = d.reply /\ e.user = d.user /\ e.claimed = d.claimed
              /\ Agree(d) => Agree(e)
              /\ \A z \in Short(d, UpsertActivity(d, t, kind, v)) : z = d \/ Like(z, e)
<1>1. PICK a, b \in DB :
         /\ UpsertActivity(d, t, kind, v) = <<a, b>>
         /\ a = [d EXCEPT !.act = [d.act EXCEPT ![t] = [d.act[t] EXCEPT ![kind] = v]]]
         /\ b = [a EXCEPT !.seen =
                   [conv |-> d.seen.conv, reply |-> d.seen.reply,
                    act |-> [d.seen.act EXCEPT ![t] = [d.seen.act[t] EXCEPT ![kind] = v]]]]
  BY UpsertIs
<1>2. /\ a.act = [d.act EXCEPT ![t] = [d.act[t] EXCEPT ![kind] = v]] /\ a.conv = d.conv
      /\ a.reply = d.reply /\ a.user = d.user /\ a.claimed = d.claimed
  BY <1>1 DEF DB
<1>3. /\ b.act = a.act /\ b.conv = a.conv /\ b.reply = a.reply /\ b.user = a.user /\ b.claimed = a.claimed
      /\ b.seen = [conv |-> d.seen.conv, reply |-> d.seen.reply,
                   act |-> [d.seen.act EXCEPT ![t] = [d.seen.act[t] EXCEPT ![kind] = v]]]
  BY <1>1 DEF DB
<1>4. Agree(d) => Agree(b)
  <2> SUFFICES ASSUME Agree(d) PROVE Agree(b) OBVIOUS
  <2>1. d.seen.conv = d.conv /\ d.seen.reply = d.reply /\ d.seen.act = d.act BY DEF Agree
  <2> QED BY <1>2, <1>3, <2>1 DEF Agree
<1>5. After(d, <<a, b>>) = b /\ Short(d, <<a, b>>) = {d, a} BY AfterTwo
<1>6. Like(a, b) BY <1>1, <1>3 DEF Like
<1>7. <<a, b>> \in Seq(DB) OBVIOUS
<1>8. \A z \in Short(d, <<a, b>>) : z = d \/ Like(z, b) BY <1>5, <1>6
<1> QED BY <1>1, <1>2, <1>3, <1>4, <1>5, <1>7, <1>8, Zenon

\* What finishRun writes
FinalReply(d, t, status) ==
    [d.reply[t] EXCEPT !.status = IF status = "completed" THEN "completed" ELSE "failed",
                       !.text = IF status = "completed" THEN <<0>> ELSE @]
FinalConv(d, c, status) ==
    [d.conv[c] EXCEPT !.active = NoTurn, !.status = IF status = "completed" THEN "idle" ELSE "error"]

Finished(d, t, status, e, m) ==
    /\ e = After(d, FinishPlan(d, t, status))
    /\ e.conv = [d.conv EXCEPT ![ConvOf[t]] = FinalConv(d, ConvOf[t], status)]
    /\ e.reply = [d.reply EXCEPT ![t] = FinalReply(d, t, status)]
    /\ e.user = d.user /\ e.claimed = d.claimed
    /\ \A s \in Turns \ {t} : e.act[s] = d.act[s]
    /\ e.act[t].work # "running"
    /\ Agree(d) => Agree(e)
    /\ m = [d EXCEPT !.reply = e.reply]
    /\ \A z \in Short(d, FinishPlan(d, t, status)) :
          \/ z = d
          \/ z = m
          \/ /\ z \in DB /\ z.conv = e.conv /\ z.reply = e.reply
             /\ z.user = d.user /\ z.claimed = d.claimed
             /\ \A s \in Turns \ {t} : z.act[s] = d.act[s]

LEMMA FinishPlanIs ==
    ASSUME NEW d \in DB, NEW t \in Turns, NEW status
    PROVE  \E e, m \in DB : Finished(d, t, status, e, m)
<1> DEFINE c == ConvOf[t]
           x == FinalReply(d, t, status)
           y == FinalConv(d, c, status)
           first  == TurnPlan(d, t, x, y)
           d4     == After(d, first)
           closed == IF d.act[t].work # "running" THEN <<>>
                     ELSE UpsertActivity(d4, t, "work", IF status = "completed" THEN "completed" ELSE "failed")
           d5     == After(d4, closed)
           failed == IF status = "completed" THEN <<>> ELSE UpsertActivity(d5, t, "error", TRUE)
           d6     == After(d5, failed)
<1>1. c \in Convs OBVIOUS
<1>2. x \in ReplyRec
  <2>1. d.reply[t] \in ReplyRec BY DEF DB
  <2>2. <<0>> \in Seq(Nat) OBVIOUS
  <2> QED BY <2>1, <2>2 DEF FinalReply, ReplyRec, Ended
<1>3. y \in ConvRec
  <2>1. d.conv[c] \in ConvRec BY <1>1 DEF DB
  <2> QED BY <2>1 DEF FinalConv, ConvRec, Statuses
<1>4. FinishPlan(d, t, status) = (first \o closed) \o failed
  <2> DEFINE e1 == SaveMessage(d, t, x)
             e2 == Save(e1, c, y)
             e3 == PublishMessage(e2, t)
             e4 == PublishConv(e3, c)
             closed4 == IF d.act[t].work # "running" THEN <<>>
                        ELSE UpsertActivity(e4, t, "work", IF status = "completed" THEN "completed" ELSE "failed")
             failed4 == IF status = "completed" THEN <<>>
                        ELSE UpsertActivity(After(e4, closed4), t, "error", TRUE)
  <2>1. ASSUME NEW a1, NEW a2, NEW a3, NEW a4 PROVE After(d, <<a1, a2, a3, a4>>) = a4
    <3>1. Len(<<a1, a2, a3, a4>>) = 4 /\ <<a1, a2, a3, a4>>[4] = a4 /\ <<a1, a2, a3, a4>> # <<>> OBVIOUS
    <3> QED BY <3>1, Zenon DEF After, Last
  <2>2. FinishPlan(d, t, status) = (<<e1, e2, e3, e4>> \o closed4) \o failed4
    BY Zenon DEF FinishPlan, FinalReply, FinalConv
  <2>3. first = <<e1, e2, e3, e4>> BY Zenon DEF TurnPlan
  <2> HIDE DEF e1, e2, e3, e4
  <2>4. d4 = e4 BY <2>1, <2>3
  <2>5. closed4 = closed BY <2>4
  <2>6. failed4 = failed BY <2>4, <2>5
  <2> QED BY <2>2, <2>3, <2>5, <2>6, Zenon
<1> HIDE DEF x, y
<1>5. PICK e0, m \in DB :
         /\ first \in Seq(DB)
         /\ e0 = d4
         /\ e0.conv = [d.conv EXCEPT ![c] = y]
         /\ e0.reply = [d.reply EXCEPT ![t] = x]
         /\ e0.user = d.user /\ e0.act = d.act /\ e0.claimed = d.claimed
         /\ Agree(d) => Agree(e0)
         /\ m = [d EXCEPT !.reply = [d.reply EXCEPT ![t] = x]]
         /\ \A z \in Short(d, first) : z = d \/ z = m \/ Like(z, e0)
  <2>1. PICK e, m \in DB :
         /\ TurnPlan(d, t, x, y) \in Seq(DB)
         /\ e = After(d, TurnPlan(d, t, x, y))
         /\ e.conv = [d.conv EXCEPT ![ConvOf[t]] = y]
         /\ e.reply = [d.reply EXCEPT ![t] = x]
         /\ e.user = d.user /\ e.act = d.act /\ e.claimed = d.claimed
         /\ Agree(d) => Agree(e)
         /\ m = SaveMessage(d, t, x)
         /\ m = [d EXCEPT !.reply = [d.reply EXCEPT ![t] = x]]
         /\ \A z \in Short(d, TurnPlan(d, t, x, y)) : z = d \/ z = m \/ Like(z, e)
    BY <1>2, <1>3, TurnPlanIs
  <2> QED BY <2>1
<1> HIDE DEF first, d4
<1>6. d.act[t] \in ActRec /\ d4.act = d.act BY <1>5 DEF DB
<1>7. /\ d5 \in DB /\ closed \in Seq(DB)
      /\ d5.conv = d4.conv /\ d5.reply = d4.reply /\ d5.user = d4.user /\ d5.claimed = d4.claimed
      /\ \A s \in Turns \ {t} : d5.act[s] = d4.act[s]
      /\ d5.act[t] \in ActRec /\ d5.act[t].work # "running"
      /\ Agree(d4) => Agree(d5)
      /\ \A z \in Short(d4, closed) : z = d4 \/ Like(z, d5)
  <2>1. CASE d.act[t].work # "running"
    <3>1. closed = <<>> BY <2>1
    <3>2. d5 = d4 /\ Short(d4, closed) = {d4} BY <3>1, AfterNone
    <3> QED BY <1>5, <1>6, <2>1, <3>1, <3>2
  <2>2. CASE d.act[t].work = "running"
    <3> DEFINE v == IF status = "completed" THEN "completed" ELSE "failed"
    <3>1. closed = UpsertActivity(d4, t, "work", v) BY <2>2
    <3>2. [d4.act[t] EXCEPT !["work"] = v] \in ActRec BY <1>6 DEF ActRec
    <3>3. v # "running" OBVIOUS
    <3> HIDE DEF v, closed, d5
    <3>4. PICK e \in DB :
             /\ UpsertActivity(d4, t, "work", v) \in Seq(DB)
             /\ e = After(d4, UpsertActivity(d4, t, "work", v))
             /\ e.act = [d4.act EXCEPT ![t] = [d4.act[t] EXCEPT !["work"] = v]]
             /\ e.conv = d4.conv /\ e.reply = d4.reply /\ e.user = d4.user /\ e.claimed = d4.claimed
             /\ Agree(d4) => Agree(e)
             /\ \A z \in Short(d4, UpsertActivity(d4, t, "work", v)) : z = d4 \/ Like(z, e)
      BY <1>5, <3>2, UpsertPlanIs
    <3>5. d5 = e BY <3>1, <3>4 DEF d5
    <3>6. d4.act \in [Turns -> ActRec] BY <1>5 DEF DB
    <3>7. e.act[t] = [d4.act[t] EXCEPT !["work"] = v] /\ \A s \in Turns \ {t} : e.act[s] = d4.act[s]
      BY <3>4, <3>6
    <3>8. e.act[t].work # "running" BY <1>6, <3>3, <3>7 DEF ActRec
    <3> QED BY <3>1, <3>2, <3>4, <3>5, <3>7, <3>8
  <2> QED BY <2>1, <2>2
<1> HIDE DEF closed, d5
<1>8. /\ d6 \in DB /\ failed \in Seq(DB)
      /\ d6.conv = d5.conv /\ d6.reply = d5.reply /\ d6.user = d5.user /\ d6.claimed = d5.claimed
      /\ \A s \in Turns \ {t} : d6.act[s] = d5.act[s]
      /\ d6.act[t].work # "running"
      /\ Agree(d5) => Agree(d6)
      /\ \A z \in Short(d5, failed) : z = d5 \/ Like(z, d6)
  <2>1. CASE status = "completed"
    <3>1. failed = <<>> BY <2>1
    <3>2. d6 = d5 /\ Short(d5, failed) = {d5} BY <3>1, AfterNone
    <3> HIDE DEF failed, d6
    <3> QED BY <1>7, <3>1, <3>2
  <2>2. CASE status # "completed"
    <3>1. failed = UpsertActivity(d5, t, "error", TRUE) BY <2>2
    <3>2. [d5.act[t] EXCEPT !["error"] = TRUE] \in ActRec BY <1>7 DEF ActRec
    <3> HIDE DEF failed, d6
    <3>4. PICK e \in DB :
             /\ UpsertActivity(d5, t, "error", TRUE) \in Seq(DB)
             /\ e = After(d5, UpsertActivity(d5, t, "error", TRUE))
             /\ e.act = [d5.act EXCEPT ![t] = [d5.act[t] EXCEPT !["error"] = TRUE]]
             /\ e.conv = d5.conv /\ e.reply = d5.reply /\ e.user = d5.user /\ e.claimed = d5.claimed
             /\ Agree(d5) => Agree(e)
             /\ \A z \in Short(d5, UpsertActivity(d5, t, "error", TRUE)) : z = d5 \/ Like(z, e)
      BY <1>7, <3>2, UpsertPlanIs
    <3>5. d6 = e BY <3>1, <3>4 DEF d6
    <3>6. d5.act \in [Turns -> ActRec] BY <1>7 DEF DB
    <3>7. e.act[t] = [d5.act[t] EXCEPT !["error"] = TRUE] /\ \A s \in Turns \ {t} : e.act[s] = d5.act[s]
      BY <3>4, <3>6
    <3>8. e.act[t].work # "running" BY <1>7, <3>7 DEF ActRec
    <3> QED BY <3>1, <3>4, <3>5, <3>7, <3>8
  <2> QED BY <2>1, <2>2
<1> HIDE DEF failed, d6
<1>9. first \o closed \in Seq(DB) BY <1>5, <1>7
<1>10. /\ After(d, first \o closed) = d5
       /\ Short(d, first \o closed) \subseteq Short(d, first) \cup {d4} \cup Short(d4, closed)
  BY <1>5, <1>7, AfterBoth DEF d4, d5
<1>11. /\ After(d, FinishPlan(d, t, status)) = d6
       /\ Short(d, FinishPlan(d, t, status)) \subseteq
             Short(d, first \o closed) \cup {d5} \cup Short(d5, failed)
  <2> DEFINE p == first \o closed
  <2>1. p \in Seq(DB) BY <1>9
  <2> HIDE DEF p
  <2>2. /\ After(d, p \o failed) = After(After(d, p), failed)
        /\ Short(d, p \o failed) \subseteq Short(d, p) \cup {After(d, p)} \cup Short(After(d, p), failed)
    BY <1>8, <2>1, AfterBoth
  <2> QED BY <1>4, <1>10, <2>2 DEF d6, p
<1>12. /\ d6.conv = [d.conv EXCEPT ![c] = y] /\ d6.reply = [d.reply EXCEPT ![t] = x]
       /\ d6.user = d.user /\ d6.claimed = d.claimed
       /\ \A s \in Turns \ {t} : d6.act[s] = d.act[s]
       /\ Agree(d) => Agree(d6)
       /\ m = [d EXCEPT !.reply = d6.reply]
  BY <1>5, <1>7, <1>8
<1>13. ASSUME NEW z \in Short(d, FinishPlan(d, t, status))
       PROVE  \/ z = d
              \/ z = m
              \/ /\ z \in DB /\ z.conv = d6.conv /\ z.reply = d6.reply
                 /\ z.user = d.user /\ z.claimed = d.claimed
                 /\ \A s \in Turns \ {t} : z.act[s] = d.act[s]
  <2>1. \/ z \in Short(d, first)
        \/ z = d4 \/ z = d5
        \/ z \in Short(d4, closed)
        \/ z \in Short(d5, failed)
    BY <1>10, <1>11
  <2>2. z = d \/ z = m \/ z = d4 \/ Like(z, d4) \/ z = d5 \/ Like(z, d5) \/ Like(z, d6)
    BY <1>5, <1>7, <1>8, <2>1
  <2>3. z = d4 \/ Like(z, d4) => z \in DB /\ z.conv = d4.conv /\ z.reply = d4.reply
          /\ z.user = d4.user /\ z.claimed = d4.claimed /\ z.act = d4.act BY <1>5 DEF Like
  <2>4. z = d5 \/ Like(z, d5) => z \in DB /\ z.conv = d5.conv /\ z.reply = d5.reply
          /\ z.user = d5.user /\ z.claimed = d5.claimed /\ z.act = d5.act BY <1>7 DEF Like
  <2>5. Like(z, d6) => z \in DB /\ z.conv = d6.conv /\ z.reply = d6.reply
          /\ z.user = d6.user /\ z.claimed = d6.claimed /\ z.act = d6.act BY <1>8 DEF Like
  <2>6. CASE z = d \/ z = m BY <2>6
  <2>7. CASE z = d4 \/ Like(z, d4) BY <1>5, <1>7, <1>8, <2>3, <2>7
  <2>8. CASE z = d5 \/ Like(z, d5) BY <1>5, <1>7, <1>8, <2>4, <2>8
  <2>9. CASE Like(z, d6) BY <1>5, <1>7, <1>8, <2>5, <2>9
  <2> QED BY <2>2, <2>6, <2>7, <2>8, <2>9
<1>14. c = ConvOf[t] /\ x = FinalReply(d, t, status) /\ y = FinalConv(d, ConvOf[t], status) BY DEF x, y
<1>15. /\ d6.conv = [d.conv EXCEPT ![ConvOf[t]] = FinalConv(d, ConvOf[t], status)]
       /\ d6.reply = [d.reply EXCEPT ![t] = FinalReply(d, t, status)]
  BY <1>12, <1>14
<1>16. After(d, FinishPlan(d, t, status)) = d6 /\ d6.act[t].work # "running" BY <1>8, <1>11
<1>17. Finished(d, t, status, d6, m) BY <1>12, <1>13, <1>15, <1>16 DEF Finished
<1> QED BY <1>5, <1>8, <1>17

LEMMA ConvPlanIs ==
    ASSUME NEW d \in DB, NEW c \in Convs, NEW y \in ConvRec
    PROVE  LET plan == <<Save(d, c, y), PublishConv(Save(d, c, y), c)>>
           IN  \E e \in DB :
                  /\ e = After(d, plan)
                  /\ e.conv = [d.conv EXCEPT ![c] = y]
                  /\ e.reply = d.reply /\ e.act = d.act /\ e.user = d.user /\ e.claimed = d.claimed
                  /\ Agree(d) => Agree(e)
                  /\ \A z \in Short(d, plan) : z = d \/ Like(z, e)
<1> DEFINE d1 == Save(d, c, y)
           d2 == PublishConv(d1, c)
<1>1. d1 \in DB /\ d1 = [d EXCEPT !.conv = [d.conv EXCEPT ![c] = y]] BY SaveIs
<1> HIDE DEF d1
<1>2. /\ d2 \in DB
      /\ d2 = [d1 EXCEPT !.seen = [conv |-> [d1.seen.conv EXCEPT ![c] = d1.conv[c]],
                 reply |-> d1.seen.reply, act |-> d1.seen.act]]
  <2>1. d1 \in DB BY <1>1
  <2> QED BY <2>1, PublishConvIs
<1> HIDE DEF d2
<1>3. /\ d1.conv = [d.conv EXCEPT ![c] = y] /\ d1.reply = d.reply /\ d1.act = d.act
      /\ d1.user = d.user /\ d1.claimed = d.claimed /\ d1.seen = d.seen
  BY <1>1 DEF DB
<1>4. /\ d2.conv = d1.conv /\ d2.reply = d1.reply /\ d2.act = d1.act /\ d2.user = d1.user
      /\ d2.claimed = d1.claimed
      /\ d2.seen = [conv |-> [d1.seen.conv EXCEPT ![c] = d1.conv[c]],
                    reply |-> d1.seen.reply, act |-> d1.seen.act]
  BY <1>1, <1>2 DEF DB
<1>5. Agree(d) => Agree(d2)
  <2> SUFFICES ASSUME Agree(d) PROVE Agree(d2) OBVIOUS
  <2>1. d.seen.conv = d.conv /\ d.seen.reply = d.reply /\ d.seen.act = d.act BY DEF Agree
  <2>2. d1.conv[c] = y BY <1>3 DEF DB
  <2> QED BY <1>3, <1>4, <2>1, <2>2 DEF Agree
<1>6. After(d, <<d1, d2>>) = d2 /\ Short(d, <<d1, d2>>) = {d, d1} BY AfterTwo
<1>7. Like(d1, d2) BY <1>1, <1>4 DEF Like
<1>8. \A z \in Short(d, <<d1, d2>>) : z = d \/ Like(z, d2) BY <1>6, <1>7
<1>9. <<d1, d2>> = <<Save(d, c, y), PublishConv(Save(d, c, y), c)>> BY DEF d1, d2
<1>10. \E e \in DB :
          /\ e = After(d, <<d1, d2>>)
          /\ e.conv = [d.conv EXCEPT ![c] = y]
          /\ e.reply = d.reply /\ e.act = d.act /\ e.user = d.user /\ e.claimed = d.claimed
          /\ Agree(d) => Agree(e)
          /\ \A z \in Short(d, <<d1, d2>>) : z = d \/ Like(z, e)
  BY <1>2, <1>3, <1>4, <1>5, <1>6, <1>8
<1> QED BY <1>9, <1>10

LEMMA MessagePlanIs ==
    ASSUME NEW d \in DB, NEW t \in Turns, NEW x \in ReplyRec
    PROVE  LET plan == <<SaveMessage(d, t, x), PublishMessage(SaveMessage(d, t, x), t)>>
           IN  \E e \in DB :
                  /\ e = After(d, plan)
                  /\ e.reply = [d.reply EXCEPT ![t] = x]
                  /\ e.conv = d.conv /\ e.act = d.act /\ e.user = d.user /\ e.claimed = d.claimed
                  /\ Agree(d) => Agree(e)
                  /\ \A z \in Short(d, plan) : z = d \/ Like(z, e)
<1> DEFINE d1 == SaveMessage(d, t, x)
           d2 == PublishMessage(d1, t)
<1>1. d1 \in DB /\ d1 = [d EXCEPT !.reply = [d.reply EXCEPT ![t] = x]] BY SaveMessageIs
<1> HIDE DEF d1
<1>2. /\ d2 \in DB
      /\ d2 = [d1 EXCEPT !.seen = [conv |-> d1.seen.conv,
                 reply |-> [d1.seen.reply EXCEPT ![t] = d1.reply[t]], act |-> d1.seen.act]]
  <2>1. d1 \in DB BY <1>1
  <2> QED BY <2>1, PublishMessageIs
<1> HIDE DEF d2
<1>3. /\ d1.reply = [d.reply EXCEPT ![t] = x] /\ d1.conv = d.conv /\ d1.act = d.act
      /\ d1.user = d.user /\ d1.claimed = d.claimed /\ d1.seen = d.seen
  BY <1>1 DEF DB
<1>4. /\ d2.conv = d1.conv /\ d2.reply = d1.reply /\ d2.act = d1.act /\ d2.user = d1.user
      /\ d2.claimed = d1.claimed
      /\ d2.seen = [conv |-> d1.seen.conv,
                    reply |-> [d1.seen.reply EXCEPT ![t] = d1.reply[t]], act |-> d1.seen.act]
  BY <1>1, <1>2 DEF DB
<1>5. Agree(d) => Agree(d2)
  <2> SUFFICES ASSUME Agree(d) PROVE Agree(d2) OBVIOUS
  <2>1. d.seen.conv = d.conv /\ d.seen.reply = d.reply /\ d.seen.act = d.act BY DEF Agree
  <2>2. d1.reply[t] = x BY <1>3 DEF DB
  <2> QED BY <1>3, <1>4, <2>1, <2>2 DEF Agree
<1>6. After(d, <<d1, d2>>) = d2 /\ Short(d, <<d1, d2>>) = {d, d1} BY AfterTwo
<1>7. Like(d1, d2) BY <1>1, <1>4 DEF Like
<1>8. \A z \in Short(d, <<d1, d2>>) : z = d \/ Like(z, d2) BY <1>6, <1>7
<1>9. <<d1, d2>> = <<SaveMessage(d, t, x), PublishMessage(SaveMessage(d, t, x), t)>> BY DEF d1, d2
<1>10. \E e \in DB :
          /\ e = After(d, <<d1, d2>>)
          /\ e.reply = [d.reply EXCEPT ![t] = x]
          /\ e.conv = d.conv /\ e.act = d.act /\ e.user = d.user /\ e.claimed = d.claimed
          /\ Agree(d) => Agree(e)
          /\ \A z \in Short(d, <<d1, d2>>) : z = d \/ Like(z, e)
  BY <1>2, <1>3, <1>4, <1>5, <1>6, <1>8
<1> QED BY <1>9, <1>10

Queued == [status |-> "queued", run |-> FALSE, text |-> <<>>]

LEMMA SendPlanIs ==
    ASSUME db \in DB, NEW t \in Turns
    PROVE  \E e, m \in DB :
              /\ e = After(db, SendPlan(t))
              /\ e.user = db.user \cup {t}
              /\ e.reply = [db.reply EXCEPT ![t] = Queued]
              /\ e.conv = db.conv /\ e.act = db.act /\ e.claimed = db.claimed
              /\ Agree(db) => Agree(e)
              /\ m = [db EXCEPT !.user = db.user \cup {t}]
              /\ \A z \in Short(db, SendPlan(t)) : z = db \/ z = m \/ Like(z, e)
<1> DEFINE d1 == [db EXCEPT !.user = @ \cup {t}]
           d2 == SaveMessage(d1, t, Queued)
           d3 == PublishMessage(d2, t)
<1>1. d1 \in DB /\ d1 = [db EXCEPT !.user = db.user \cup {t}] BY DEF DB
<1>2. Queued \in ReplyRec
  <2>1. <<>> \in Seq(Nat) OBVIOUS
  <2> QED BY <2>1 DEF Queued, ReplyRec, Open
<1>3. /\ d1.reply = db.reply /\ d1.conv = db.conv /\ d1.act = db.act /\ d1.user = db.user \cup {t}
      /\ d1.claimed = db.claimed /\ d1.seen = db.seen
  BY DEF DB
<1> HIDE DEF d1
<1>4. PICK e \in DB :
         /\ e = After(d1, <<d2, d3>>)
         /\ e.reply = [d1.reply EXCEPT ![t] = Queued]
         /\ e.conv = d1.conv /\ e.act = d1.act /\ e.user = d1.user /\ e.claimed = d1.claimed
         /\ Agree(d1) => Agree(e)
         /\ \A z \in Short(d1, <<d2, d3>>) : z = d1 \/ Like(z, e)
  <2>1. d1 \in DB BY <1>1
  <2> QED BY <1>2, <2>1, MessagePlanIs
<1> HIDE DEF d2, d3
<1>5. SendPlan(t) = <<d1, d2, d3>> BY DEF SendPlan, d1, d2, d3, Queued
<1>6. After(db, SendPlan(t)) = d3 /\ Short(db, SendPlan(t)) = {db, d1, d2} BY <1>5, AfterThree
<1>7. After(d1, <<d2, d3>>) = d3 /\ Short(d1, <<d2, d3>>) = {d1, d2} BY AfterTwo
<1>8. Agree(db) => Agree(d1) BY <1>3 DEF Agree
<1>9. \A z \in Short(db, SendPlan(t)) : z = db \/ z = d1 \/ Like(z, e) BY <1>4, <1>6, <1>7
<1>10. /\ e.user = db.user \cup {t} /\ e.reply = [db.reply EXCEPT ![t] = Queued]
       /\ e.conv = db.conv /\ e.act = db.act /\ e.claimed = db.claimed
       /\ e = After(db, SendPlan(t))
  BY <1>3, <1>4, <1>6, <1>7
<1> QED BY <1>1, <1>4, <1>8, <1>9, <1>10

\* What reconciliation writes when the Run is gone
LEMMA LostPlanIs ==
    ASSUME db \in DB, NEW c \in Convs, NEW t \in Turns, db.conv[c].active = t, run[t].status = "none"
    PROVE  \E e, m \in DB :
              /\ e = After(db, ReconcilePlan(c))
              /\ e.conv = [db.conv EXCEPT ![c] = [db.conv[c] EXCEPT !.active = NoTurn, !.status = "error"]]
              /\ e.reply = [db.reply EXCEPT ![t] = [db.reply[t] EXCEPT !.status = "failed"]]
              /\ e.user = db.user /\ e.act = db.act /\ e.claimed = db.claimed
              /\ m = [db EXCEPT !.conv = e.conv]
              /\ \A z \in Short(db, ReconcilePlan(c)) : z = db \/ z = m \/ Like(z, e)
<1> DEFINE y  == [db.conv[c] EXCEPT !.active = NoTurn, !.status = "error"]
           d1 == Save(db, c, y)
           x  == [d1.reply[t] EXCEPT !.status = "failed"]
           d2 == SaveMessage(d1, t, x)
           d3 == PublishConv(d2, c)
<1>1. y \in ConvRec
  <2>1. db.conv[c] \in ConvRec BY DEF DB
  <2> QED BY <2>1 DEF ConvRec, Statuses
<1> HIDE DEF y
<1>2. d1 \in DB /\ d1 = [db EXCEPT !.conv = [db.conv EXCEPT ![c] = y]] BY <1>1, SaveIs
<1>3. /\ d1.conv = [db.conv EXCEPT ![c] = y] /\ d1.reply = db.reply /\ d1.act = db.act
      /\ d1.user = db.user /\ d1.claimed = db.claimed
  BY <1>2 DEF DB
<1>4. x = [db.reply[t] EXCEPT !.status = "failed"] BY <1>3
<1>5. x \in ReplyRec
  <2>1. db.reply[t] \in ReplyRec BY DEF DB
  <2> QED BY <1>4, <2>1 DEF ReplyRec, Ended
<1> HIDE DEF d1, x
<1>6. d2 \in DB /\ d2 = [d1 EXCEPT !.reply = [d1.reply EXCEPT ![t] = x]]
  <2>1. d1 \in DB BY <1>2
  <2> QED BY <1>5, <2>1, SaveMessageIs
<1> HIDE DEF d2
<1>7. /\ d2.conv = [db.conv EXCEPT ![c] = y] /\ d2.reply = [db.reply EXCEPT ![t] = x]
      /\ d2.act = db.act /\ d2.user = db.user /\ d2.claimed = db.claimed
  BY <1>2, <1>3, <1>6 DEF DB
<1>8. /\ d3 \in DB
      /\ d3 = [d2 EXCEPT !.seen = [conv |-> [d2.seen.conv EXCEPT ![c] = d2.conv[c]],
                 reply |-> d2.seen.reply, act |-> d2.seen.act]]
  <2>1. d2 \in DB BY <1>6
  <2> QED BY <2>1, PublishConvIs
<1> HIDE DEF d3
<1>9. /\ d3.conv = d2.conv /\ d3.reply = d2.reply /\ d3.act = d2.act
      /\ d3.user = d2.user /\ d3.claimed = d2.claimed
  BY <1>6, <1>8 DEF DB
<1>10. ReconcilePlan(c) = <<d1, d2, d3>> BY DEF ReconcilePlan, d1, d2, d3, x, y
<1>11. After(db, ReconcilePlan(c)) = d3 /\ Short(db, ReconcilePlan(c)) = {db, d1, d2} BY <1>10, AfterThree
<1>12. Like(d2, d3) BY <1>6, <1>9 DEF Like
<1>13. d1 = [db EXCEPT !.conv = d3.conv] BY <1>2, <1>7, <1>9
<1>14. /\ d3.conv = [db.conv EXCEPT ![c] = [db.conv[c] EXCEPT !.active = NoTurn, !.status = "error"]]
       /\ d3.reply = [db.reply EXCEPT ![t] = [db.reply[t] EXCEPT !.status = "failed"]]
       /\ d3.user = db.user /\ d3.act = db.act /\ d3.claimed = db.claimed
  BY <1>4, <1>7, <1>9 DEF y
<1>15. \A z \in Short(db, ReconcilePlan(c)) : z = db \/ z = d1 \/ Like(z, d3) BY <1>11, <1>12
<1> QED BY <1>2, <1>8, <1>11, <1>13, <1>14, <1>15, Zenon

\* What an event of the engine does to the reply of its turn
Written(d, e, t, n, kind) ==
    /\ e.conv = d.conv /\ e.user = d.user /\ e.claimed = d.claimed
    /\ \A s \in Turns \ {t} : e.reply[s] = d.reply[s] /\ e.act[s] = d.act[s]
    /\ kind = "text"  => e.reply[t] = [d.reply[t] EXCEPT !.status = "streaming", !.text = <<n>>]
    /\ kind = "delta" => e.reply[t] = [d.reply[t] EXCEPT !.status = "streaming", !.text = Append(@, n)]
    /\ kind \notin {"text", "delta"} => e.reply[t] = d.reply[t]
    /\ e.act[t].approval = CASE kind = "asked"   -> "pending"
                             [] kind = "allowed" -> "completed"
                             [] kind = "denied"  -> "denied"
                             [] OTHER            -> d.act[t].approval
    /\ kind = "created" => e.act[t] = d.act[t]

LEMMA NormalizePlanIs ==
    ASSUME db \in DB, NEW t \in Turns, NEW n \in Nat, NEW kind \in EventKinds \ Ended
    PROVE  \E e \in DB :
              /\ e = After(db, NormalizePlan(t, n, kind))
              /\ Written(db, e, t, n, kind)
              /\ Agree(db) => Agree(e)
              /\ \A z \in Short(db, NormalizePlan(t, n, kind)) : z = db \/ Like(z, e)
<1>0. db.reply[t] \in ReplyRec /\ db.act[t] \in ActRec /\ db.act \in [Turns -> ActRec]
      /\ db.reply \in [Turns -> ReplyRec] BY DEF DB
<1>1. ASSUME NEW text \in Seq(Nat), NormalizePlan(t, n, kind) = UpdateAssistant(db, t, text),
             \/ kind = "text" /\ text = <<n>>
             \/ kind = "delta" /\ text = Append(db.reply[t].text, n)
      PROVE  \E e \in DB :
                /\ e = After(db, NormalizePlan(t, n, kind))
                /\ Written(db, e, t, n, kind)
                /\ Agree(db) => Agree(e)
                /\ \A z \in Short(db, NormalizePlan(t, n, kind)) : z = db \/ Like(z, e)
  <2> DEFINE x == [db.reply[t] EXCEPT !.status = "streaming", !.text = text]
             plan == <<SaveMessage(db, t, x), PublishMessage(SaveMessage(db, t, x), t)>>
  <2>1. x \in ReplyRec BY <1>0 DEF ReplyRec, Open
  <2>2. NormalizePlan(t, n, kind) = plan BY <1>1 DEF UpdateAssistant
  <2> HIDE DEF x
  <2>3. PICK e \in DB :
           /\ e = After(db, plan)
           /\ e.reply = [db.reply EXCEPT ![t] = x]
           /\ e.conv = db.conv /\ e.act = db.act /\ e.user = db.user /\ e.claimed = db.claimed
           /\ Agree(db) => Agree(e)
           /\ \A z \in Short(db, plan) : z = db \/ Like(z, e)
    BY <2>1, MessagePlanIs
  <2> HIDE DEF plan
  <2>4. e.reply[t] = x /\ \A s \in Turns \ {t} : e.reply[s] = db.reply[s] BY <1>0, <2>3
  <2>5. Written(db, e, t, n, kind)
    <3>1. CASE kind = "text" BY <1>1, <2>3, <2>4, <3>1 DEF Written, x
    <3>2. CASE kind = "delta" BY <1>0, <1>1, <2>3, <2>4, <3>2 DEF Written, x, ReplyRec
    <3> QED BY <1>1, <3>1, <3>2
  <2> QED BY <2>2, <2>3, <2>5
<1>2. ASSUME NEW k \in {"work", "approval"}, NEW v,
             NormalizePlan(t, n, kind) = UpsertActivity(db, t, k, v),
             \/ k = "work" /\ kind \in {"work", "worked"} /\ v \in {"running", "completed"}
             \/ /\ k = "approval"
                /\ \/ kind = "asked" /\ v = "pending"
                   \/ kind = "allowed" /\ v = "completed"
                   \/ kind = "denied" /\ v = "denied"
      PROVE  \E e \in DB :
                /\ e = After(db, NormalizePlan(t, n, kind))
                /\ Written(db, e, t, n, kind)
                /\ Agree(db) => Agree(e)
                /\ \A z \in Short(db, NormalizePlan(t, n, kind)) : z = db \/ Like(z, e)
  <2>1. [db.act[t] EXCEPT ![k] = v] \in ActRec BY <1>0, <1>2 DEF ActRec
  <2>2. PICK e \in DB :
           /\ e = After(db, UpsertActivity(db, t, k, v))
           /\ e.act = [db.act EXCEPT ![t] = [db.act[t] EXCEPT ![k] = v]]
           /\ e.conv = db.conv /\ e.reply = db.reply /\ e.user = db.user /\ e.claimed = db.claimed
           /\ Agree(db) => Agree(e)
           /\ \A z \in Short(db, UpsertActivity(db, t, k, v)) : z = db \/ Like(z, e)
    BY <2>1, UpsertPlanIs
  <2>3. e.act[t] = [db.act[t] EXCEPT ![k] = v] /\ \A s \in Turns \ {t} : e.act[s] = db.act[s]
    BY <1>0, <2>2
  <2>4. Written(db, e, t, n, kind)
    <3>1. CASE k = "work"
      <4>1. e.act[t].approval = db.act[t].approval BY <1>0, <2>3, <3>1 DEF ActRec
      <4> QED BY <1>2, <2>2, <2>3, <3>1, <4>1 DEF Written
    <3>2. CASE k = "approval"
      <4>1. e.act[t].approval = v BY <1>0, <2>3, <3>2 DEF ActRec
      <4> QED BY <1>2, <2>2, <2>3, <3>2, <4>1 DEF Written
    <3> QED BY <3>1, <3>2
  <2> QED BY <1>2, <2>2, <2>4
<1>3. ASSUME NormalizePlan(t, n, kind) = <<>>, kind \in {"created", "work", "worked"}
      PROVE  \E e \in DB :
                /\ e = After(db, NormalizePlan(t, n, kind))
                /\ Written(db, e, t, n, kind)
                /\ Agree(db) => Agree(e)
                /\ \A z \in Short(db, NormalizePlan(t, n, kind)) : z = db \/ Like(z, e)
  <2>1. Written(db, db, t, n, kind) BY <1>3 DEF Written
  <2> QED BY <1>3, <2>1, AfterNone
<1>4. kind \in {"text", "delta", "work", "worked", "asked", "created", "allowed", "denied"}
  BY DEF EventKinds, Kinds, Ended
<1>5. CASE kind = "text"
  <2>1. <<n>> \in Seq(Nat) OBVIOUS
  <2>2. NormalizePlan(t, n, kind) = UpdateAssistant(db, t, <<n>>) BY <1>5 DEF NormalizePlan
  <2> QED BY <1>1, <1>5, <2>1, <2>2
<1>6. CASE kind = "delta"
  <2>1. Append(db.reply[t].text, n) \in Seq(Nat) BY <1>0 DEF ReplyRec
  <2>2. NormalizePlan(t, n, kind) = UpdateAssistant(db, t, Append(db.reply[t].text, n))
    BY <1>6 DEF NormalizePlan
  <2> QED BY <1>1, <1>6, <2>1, <2>2
<1>7. CASE kind \in {"asked", "allowed", "denied"}
  <2>1. NormalizePlan(t, n, kind) = ApprovalPlan(t, kind) BY <1>7 DEF NormalizePlan
  <2>2. CASE kind = "asked"
    <3>1. NormalizePlan(t, n, kind) = UpsertActivity(db, t, "approval", "pending")
      BY <2>1, <2>2 DEF ApprovalPlan
    <3> QED BY <1>2, <2>2, <3>1
  <2>3. CASE kind = "allowed"
    <3>1. NormalizePlan(t, n, kind) = UpsertActivity(db, t, "approval", "completed")
      BY <2>1, <2>3 DEF ApprovalPlan
    <3> QED BY <1>2, <2>3, <3>1
  <2>4. CASE kind = "denied"
    <3>1. NormalizePlan(t, n, kind) = UpsertActivity(db, t, "approval", "denied")
      BY <2>1, <2>4 DEF ApprovalPlan
    <3> QED BY <1>2, <2>4, <3>1
  <2> QED BY <1>7, <2>2, <2>3, <2>4
<1>8. CASE kind \in {"created", "work", "worked"}
  <2>1. NormalizePlan(t, n, kind) = WorkPlan(t, kind) BY <1>8 DEF NormalizePlan
  <2>2. CASE kind = "work"
    <3>1. NormalizePlan(t, n, kind) = UpsertActivity(db, t, "work", "running")
      BY <2>1, <2>2 DEF WorkPlan
    <3> QED BY <1>2, <2>2, <3>1
  <2>3. CASE kind = "worked" /\ db.act[t].work # "none"
    <3>1. NormalizePlan(t, n, kind) = UpsertActivity(db, t, "work", "completed")
      BY <2>1, <2>3 DEF WorkPlan
    <3> QED BY <1>2, <2>3, <3>1
  <2>4. CASE kind = "created" \/ (kind = "worked" /\ db.act[t].work = "none")
    <3>1. NormalizePlan(t, n, kind) = <<>> BY <2>1, <2>4 DEF WorkPlan
    <3> QED BY <1>3, <1>8, <3>1
  <2> QED BY <1>8, <2>2, <2>3, <2>4
<1> QED BY <1>4, <1>5, <1>6, <1>7, <1>8

-----------------------------------------------------------------------------
(* The tables after one statement: what is to be shown of the turn it is    *)
(* about                                                                    *)

LEMMA OneTurnMoves ==
    ASSUME NEW d \in DB, NEW e \in DB, NEW r, NEW q, NEW n \in Nat, NEW k \in Nat, NEW t \in Turns,
           n <= k, StoreOK(d, r, n),
           \A x \in Convs \ {ConvOf[t]} : e.conv[x] = d.conv[x],
           \A s \in Turns \ {t} :
              /\ e.reply[s] = d.reply[s] /\ e.act[s] = d.act[s] /\ (s \in e.user <=> s \in d.user)
              /\ q[s].status = r[s].status
              /\ \A m \in Nat : <<s, m>> \in e.claimed => <<s, m>> \in d.claimed,
           d.conv[ConvOf[t]].active \in Turns \ {t} => e.conv[ConvOf[t]].active = d.conv[ConvOf[t]].active,
           Untouched(e, q, t), Bare(e, q, t), EndsWell(e, q, t), ConvOK(e, ConvOf[t], k)
    PROVE  StoreOK(e, q, k)
<1>1. ASSUME NEW s \in Turns \ {t}
      PROVE  Untouched(e, q, s) /\ Bare(e, q, s) /\ EndsWell(e, q, s)
  <2>1. Untouched(d, r, s) /\ Bare(d, r, s) /\ EndsWell(d, r, s) BY DEF StoreOK
  <2>2. Untouched(e, q, s) BY <2>1 DEF Untouched
  <2>3. EndsWell(e, q, s) BY <2>1 DEF EndsWell
  <2>4. ConvOf[s] \in Convs OBVIOUS
  <2>5. e.conv[ConvOf[s]].active # s => d.conv[ConvOf[s]].active # s BY <2>4
  <2>6. Bare(e, q, s) BY <2>1, <2>5 DEF Bare
  <2> QED BY <2>2, <2>3, <2>6
<1>2. ASSUME NEW x \in Convs \ {ConvOf[t]}
      PROVE  ConvOK(e, x, k)
  <2>1. ConvOK(d, x, n) /\ e.conv[x] = d.conv[x] BY DEF StoreOK
  <2>2. d.conv[x].title \in Nat BY DEF DB, ConvRec
  <2>3. d.conv[x].title <= k BY <2>1, <2>2 DEF ConvOK
  <2> QED BY <2>1, <2>3 DEF ConvOK
<1> QED BY <1>1, <1>2 DEF StoreOK

LEMMA OneConvMoves ==
    ASSUME NEW d \in DB, NEW e \in DB, NEW r, NEW n \in Nat, NEW k \in Nat, NEW c \in Convs,
           n <= k, StoreOK(d, r, n),
           \A x \in Convs \ {c} : e.conv[x] = d.conv[x],
           e.conv[c].active = d.conv[c].active,
           e.reply = d.reply, e.act = d.act, e.user = d.user, e.claimed = d.claimed,
           ConvOK(e, c, k)
    PROVE  StoreOK(e, r, k)
<1>1. ASSUME NEW s \in Turns PROVE  Untouched(e, r, s) /\ Bare(e, r, s) /\ EndsWell(e, r, s)
  <2>1. Untouched(d, r, s) /\ Bare(d, r, s) /\ EndsWell(d, r, s) BY DEF StoreOK
  <2>2. e.conv[ConvOf[s]].active = d.conv[ConvOf[s]].active OBVIOUS
  <2> QED BY <2>1, <2>2 DEF Untouched, Bare, EndsWell
<1>2. ASSUME NEW x \in Convs \ {c} PROVE ConvOK(e, x, k)
  <2>1. ConvOK(d, x, n) /\ e.conv[x] = d.conv[x] BY DEF StoreOK
  <2>2. d.conv[x].title \in Nat BY DEF DB, ConvRec
  <2>3. d.conv[x].title <= k BY <2>1, <2>2 DEF ConvOK
  <2> QED BY <2>1, <2>3 DEF ConvOK
<1> QED BY <1>1, <1>2 DEF StoreOK

\* What is published does not matter, and of a Run only the status does.
LEMMA StoreAlike ==
    ASSUME NEW d, NEW e, NEW r, NEW q, NEW n, StoreOK(e, r, n), Like(d, e),
           \A s \in Turns : q[s].status = r[s].status
    PROVE  StoreOK(d, q, n)
BY DEF StoreOK, Like, Untouched, Bare, EndsWell, ConvOK

LEMMA InitInv == Init => ConversationInv
<1> SUFFICES ASSUME Init PROVE ConversationInv OBVIOUS
<1> USE DEF Init
<1>0. \A t \in Turns : run[t] = NoRun /\ pc[t] = "idle" /\ db.reply[t] = NoReply /\ db.act[t] = NoAct OBVIOUS
<1>00. \A c \in Convs : db.conv[c] = NoConv OBVIOUS
<1>1. Typed
  <2>1. NoConv \in ConvRec BY DEF NoConv, ConvRec, Statuses
  <2>2. NoReply \in ReplyRec
    <3>1. <<>> \in Seq(Nat) OBVIOUS
    <3> QED BY <3>1 DEF NoReply, ReplyRec
  <2>3. NoAct \in ActRec BY DEF NoAct, ActRec
  <2>4. NoRun \in RunRec
    <3>1. <<>> \in Seq(EventKinds) OBVIOUS
    <3> QED BY <3>1 DEF NoRun, RunRec
  <2>5. db \in DB BY <2>1, <2>2, <2>3 DEF DB, Tables
  <2>6. chain \in Seq(Events) /\ inflight \in Seq([by : Consumers, event : Events]) OBVIOUS
  <2>7. <<1, 0>> \in (Nat \ {0}) \X Nat OBVIOUS
  <2> QED BY <2>1, <2>4, <2>5, <2>6, <2>7 DEF Typed
<1>2. StoreOK(db, run, edits)
  BY <1>0, <1>00 DEF StoreOK, Untouched, Bare, EndsWell, ConvOK, NoRun, NoReply, NoAct, NoConv, Open, Ended
<1>3. RunsOK BY <1>0 DEF RunsOK, RowOK, OneTurnAtATime, NoRun, up
<1>4. SendingOK BY <1>0 DEF SendingOK, InCreate, up
<1>5. QueuesOK BY <1>0, <1>00 DEF QueuesOK, ClaimsOK, ChainOK, ChainAt, InflightOK, InflightAt, OverOK, InChain, NoRun
<1>6. ActiveOK BY <1>00 DEF ActiveOK, NoConv
<1>7. ReplyFollowsEvents /\ ActivitiesEnd
  BY <1>0 DEF ReplyFollowsEvents, Going, ActivitiesEnd, NoReply, Open, Ended
<1>8. ReadersAgree BY DEF ReadersAgree
<1> QED BY <1>1, <1>2, <1>3, <1>4, <1>5, <1>6, <1>7, <1>8 DEF ConversationInv

-----------------------------------------------------------------------------
(* Steps of a Run                                                           *)

LEMMA SaidBefore ==
    ASSUME NEW l \in Seq(EventKinds), NEW kind, NEW n \in 0..Len(l), NEW text
    PROVE  /\ Spells(text, Append(l, kind), n) <=> Spells(text, l, n)
           /\ ApprovalOf(Append(l, kind), n) = ApprovalOf(l, n)
<1>1. \A i \in 1..n : Append(l, kind)[i] = l[i] OBVIOUS
<1>2. Said(Append(l, kind), n) = Said(l, n)
  <2>1. ASSUME NEW i \in 1..n
        PROVE  (\A j \in i + 1..n : Append(l, kind)[j] # "text") <=> (\A j \in i + 1..n : l[j] # "text")
    <3>1. \A j \in i + 1..n : j \in 1..n OBVIOUS
    <3> QED BY <1>1, <3>1
  <2> QED BY <1>1, <2>1 DEF Said
<1>3. \A k : (\E i \in 1..n : Append(l, kind)[i] = k) <=> (\E i \in 1..n : l[i] = k) BY <1>1
<1>4. ApprovalOf(Append(l, kind), n) = ApprovalOf(l, n) BY <1>3 DEF ApprovalOf
<1> QED BY <1>2, <1>4 DEF Spells

\* The reply of a turn is what its events say.
Follows(t) ==
    \E n \in 0..Len(run[t].log) :
        /\ Applied(t) = 1..n
        /\ Spells(db.reply[t].text, run[t].log, n)
        /\ db.act[t].approval = ApprovalOf(run[t].log, n)

LEMMA FollowsIs == ReplyFollowsEvents <=> (up => \A t \in Turns : Going(t) => Follows(t))
BY DEF ReplyFollowsEvents, Follows

\* Nothing a reply depends on changes.
LEMMA FollowsStays ==
    ASSUME NEW t \in Turns, Follows(t), db' \in DB, db \in DB, inflight' = inflight,
           run'[t].log = run[t].log, db'.reply[t].text = db.reply[t].text,
           db'.act[t].approval = db.act[t].approval,
           \A m \in Nat : <<t, m>> \in db'.claimed <=> <<t, m>> \in db.claimed
    PROVE  Follows(t)'
<1>1. Applied(t)' = Applied(t)
  <2>1. \A i \in 1..Len(run[t].log) : i \in Nat OBVIOUS
  <2> QED BY <2>1 DEF Applied
<1> QED BY <1>1 DEF Follows

LEMMA Speaks ==
    ASSUME ConversationInv, up, NEW t \in Turns, NEW kind \in EventKinds, NEW r \in RunRec,
           run' = [run EXCEPT ![t] = r], r.log = Append(run[t].log, kind), r.status = run[t].status,
           run[t].live, pc[t] # "created", r.waiting => r.live, r.status = "open" => r.live,
           RowOK(r), chain' = Append(chain, <<t, Len(run[t].log) + 1>>),
           UNCHANGED <<db, inflight, sendVars, process, bounds>>
    PROVE  ConversationInv'
<1> USE DEF sendVars, process, bounds
<1> DEFINE log == run[t].log
<1>0. /\ Typed /\ StoreOK(db, run, edits) /\ RunsOK /\ SendingOK /\ ClaimsOK /\ ChainOK /\ InflightOK
      /\ OverOK /\ ActiveOK /\ ReplyFollowsEvents /\ ActivitiesEnd /\ ReadersAgree
  BY DEF ConversationInv, QueuesOK
<1>1. /\ run \in [Turns -> RunRec] /\ run[t] \in RunRec /\ log \in Seq(EventKinds) /\ Len(log) \in Nat
      /\ chain \in Seq(Events) /\ db \in DB /\ db' = db /\ up'
  BY <1>0 DEF Typed, RunRec, up
<1>2. run'[t] = r /\ \A s \in Turns \ {t} : run'[s] = run[s] BY <1>1
<1>3. \A s \in Turns : run'[s].status = run[s].status BY <1>2
<1>4. /\ r.log \in Seq(EventKinds) /\ Len(r.log) = Len(log) + 1
      /\ \A i \in 1..Len(log) : r.log[i] = log[i]
  BY <1>1
<1>5. \A s \in Turns : Len(run[s].log) <= Len(run'[s].log) /\ Len(run[s].log) \in Nat /\ Len(run'[s].log) \in Nat
  <2>1. \A s \in Turns : run[s].log \in Seq(EventKinds) BY <1>0 DEF Typed, RunRec
  <2> QED BY <1>1, <1>2, <1>4, <2>1
<1>6. Typed'
  <2>1. run' \in [Turns -> RunRec] BY <1>1
  <2>2. <<t, Len(log) + 1>> \in Events BY <1>1 DEF Events
  <2>3. chain' \in Seq(Events) BY <1>1, <2>2
  <2> QED BY <1>0, <2>1, <2>3 DEF Typed
<1>7. StoreOK(db, run, edits)'
  <2>1. Like(db, db) BY <1>1 DEF Like
  <2>2. StoreOK(db, run', edits) BY <1>0, <1>3, <2>1, StoreAlike
  <2> QED BY <2>2
<1>8. RunsOK'
  <2>1. \A s \in Turns : RowOK(run'[s]) BY <1>0, <1>2 DEF RunsOK
  <2>2. OneTurnAtATime' BY <1>0, <1>3 DEF RunsOK, OneTurnAtATime
  <2>3. \A s \in Turns \ {t} :
           /\ run'[s].waiting => run'[s].live
           /\ run'[s].live => up'
           /\ up' /\ run'[s].status = "open" => run'[s].live
           /\ node' = "starting" => run'[s].status # "open"
    BY <1>0, <1>2 DEF RunsOK, up
  <2>4. /\ run'[t].waiting => run'[t].live
        /\ run'[t].live => up'
        /\ up' /\ run'[t].status = "open" => run'[t].live
        /\ node' = "starting" => run'[t].status # "open"
    BY <1>1, <1>2 DEF up
  <2> QED BY <2>1, <2>2, <2>3, <2>4 DEF RunsOK
<1>9. SendingOK'
  <2>1. \A s \in Turns : pc[s] = "created" => run'[s] = run[s] BY <1>2
  <2>2. ASSUME NEW s \in Turns, pc[s] = "replaying"
        PROVE  todo[s][2] <= Len(run'[s].log)
    <3>1. todo[s][2] \in Nat /\ todo[s][2] <= Len(run[s].log) BY <1>0, <2>2 DEF Typed, SendingOK
    <3> QED BY <1>5, <3>1
  <2> QED BY <1>0, <1>1, <1>3, <2>1, <2>2 DEF SendingOK, InCreate, up
<1>10. ClaimsOK'
  <2> SUFFICES ASSUME NEW s \in Turns, NEW m \in Nat, <<s, m>> \in db.claimed
               PROVE  m <= Len(run'[s].log) /\ \A k \in 1..m : <<s, k>> \in db.claimed
    BY DEF ClaimsOK
  <2>1. m <= Len(run[s].log) /\ \A k \in 1..m : <<s, k>> \in db.claimed BY <1>0 DEF ClaimsOK
  <2> QED BY <1>5, <2>1
<1>11. /\ Len(chain') = Len(chain) + 1 /\ chain'[Len(chain) + 1] = <<t, Len(log) + 1>>
       /\ \A i \in 1..Len(chain) : chain'[i] = chain[i]
       /\ Len(chain) \in Nat
       /\ DOMAIN chain = 1..Len(chain) /\ DOMAIN chain' = 1..Len(chain) + 1
  <2>1. Len(chain) \in Nat /\ DOMAIN chain = 1..Len(chain) BY <1>1
  <2>2. chain' \in Seq(Events) BY <1>6 DEF Typed
  <2>3. Len(chain') = Len(chain) + 1 BY <1>1
  <2>4. DOMAIN chain' = 1..Len(chain) + 1 BY <2>2, <2>3
  <2> QED BY <1>1, <2>1, <2>3, <2>4
<1>12. \A e : InChain(e) => InChain(e)' BY <1>1, <1>11 DEF InChain
<1>13. PICK last \in Nat : last = Len(log) + 1 /\ InChain(<<t, last>>)'
  <2>1. PICK last \in Nat : last = Len(log) + 1 BY <1>1
  <2>2. Len(chain) + 1 \in DOMAIN chain' BY <1>11
  <2>3. chain'[Len(chain) + 1] = <<t, last>> BY <1>11, <2>1
  <2>4. InChain(<<t, last>>)' BY <2>2, <2>3 DEF InChain
  <2> QED BY <2>1, <2>4
<1>14. ChainOK'
  <2>1. ASSUME NEW i \in DOMAIN chain', i <= Len(chain)
        PROVE  ChainAt(i)'
    <3>1. i \in DOMAIN chain /\ chain'[i] = chain[i] BY <1>1, <1>11, <2>1
    <3>2. chain[i] \in Events BY <1>1, <3>1
    <3>3. chain[i][1] \in Turns /\ chain[i][2] \in Nat BY <3>2 DEF Events
    <3>4. ChainAt(i) BY <1>0, <3>1 DEF ChainOK
    <3>5. chain[i][2] <= Len(run'[chain[i][1]].log) BY <1>5, <3>3, <3>4 DEF ChainAt
    <3>6. \A j \in 1..i - 1 : chain'[j] = chain[j] BY <1>11, <2>1, <3>1
    <3> QED BY <3>1, <3>4, <3>5, <3>6 DEF ChainAt
  <2>2. \A m \in 1..Len(log) : <<t, m>> \in db.claimed \/ InChain(<<t, m>>) BY <1>0, <1>1 DEF ChainOK
  <2>3. /\ chain'[Len(chain) + 1][2] <= Len(run'[t].log)
        /\ \A m \in 1..Len(log) : <<t, m>> \in db.claimed \/ \E j \in 1..Len(chain) : chain'[j] = <<t, m>>
    <3>1. \A m \in Nat : InChain(<<t, m>>) => \E j \in 1..Len(chain) : chain'[j] = <<t, m>>
      BY <1>11 DEF InChain
    <3>2. chain'[Len(chain) + 1][2] = Len(log) + 1 /\ Len(run'[t].log) = Len(log) + 1 BY <1>2, <1>4, <1>11
    <3>3. \A m \in 1..Len(log) : m \in Nat OBVIOUS
    <3>4. \A m \in 1..Len(log) : <<t, m>> \in db.claimed \/ \E j \in 1..Len(chain) : chain'[j] = <<t, m>>
      BY <2>2, <3>1, <3>3
    <3>5. Len(log) + 1 <= Len(log) + 1 BY <1>1
    <3>6. chain'[Len(chain) + 1][2] <= Len(run'[t].log) BY <3>2, <3>5
    <3> QED BY <3>4, <3>6
  <2>4. ASSUME NEW s \in Turns, run'[s].live, NEW m \in DOMAIN run'[s].log
        PROVE  <<s, m>> \in db.claimed \/ InChain(<<s, m>>)'
    <3>1. CASE s # t BY <1>0, <1>2, <1>12, <2>4, <3>1 DEF ChainOK
    <3>2. CASE s = t
      <4>1. m \in 1..Len(log) \/ m = last BY <1>1, <1>2, <1>4, <1>13, <2>4, <3>2
      <4>2. CASE m = last BY <1>13, <3>2, <4>2
      <4>3. CASE m \in 1..Len(log)
        <5>1. <<t, m>> \in db.claimed \/ InChain(<<t, m>>) BY <2>2, <4>3
        <5> QED BY <1>12, <3>2, <5>1
      <4> QED BY <4>1, <4>2, <4>3
    <3> QED BY <3>1, <3>2
  <2>5. ASSUME NEW i \in DOMAIN chain', i = Len(chain) + 1
        PROVE  ChainAt(i)'
    <3>1. chain'[i][1] = t /\ chain'[i][2] - 1 = Len(log) /\ i - 1 = Len(chain) BY <1>1, <1>11, <2>5
    <3>2. chain'[i][2] <= Len(run'[t].log) BY <2>3, <2>5
    <3> QED BY <2>3, <3>1, <3>2 DEF ChainAt
  <2>6. \A i \in DOMAIN chain' : i <= Len(chain) \/ i = Len(chain) + 1 BY <1>11
  <2> QED BY <1>1, <2>1, <2>4, <2>5, <2>6 DEF ChainOK
<1>15. Alive(t) BY <1>0 DEF OverOK
<1>16. \A s : Alive(s)' <=> Alive(s) BY DEF Alive
<1>17. InflightOK'
  <2>1. chain # <<>> => chain' # <<>> /\ Head(chain') = Head(chain) BY <1>1, <1>11
  <2>2. ASSUME NEW i \in DOMAIN inflight PROVE InflightAt(i)'
    <3>1. InflightAt(i) BY <1>0 DEF InflightOK
    <3> QED BY <1>16, <2>1, <3>1 DEF InflightAt
  <2> QED BY <1>0, <2>2 DEF InflightOK
<1>18. OverOK'
  <2> SUFFICES ASSUME NEW s \in Turns, ~Alive(s)
               PROVE  /\ ~run'[s].live
                      /\ \A m \in Nat : InChain(<<s, m>>)' => <<s, m>> \in db.claimed
                      /\ pc[s] = "replaying" => \A m \in 1..todo[s][2] : <<s, m>> \in db.claimed
    BY <1>16 DEF OverOK
  <2>1. s # t BY <1>15
  <2>2. ASSUME NEW m \in Nat, InChain(<<s, m>>)' PROVE InChain(<<s, m>>)
    <3>1. PICK i \in DOMAIN chain' : chain'[i] = <<s, m>> BY <2>2 DEF InChain
    <3>2. i # Len(chain) + 1 BY <1>11, <2>1, <3>1
    <3>3. i \in DOMAIN chain /\ chain[i] = <<s, m>> BY <1>11, <3>1, <3>2
    <3> QED BY <3>3 DEF InChain
  <2> QED BY <1>0, <1>1, <1>2, <2>1, <2>2 DEF OverOK
<1>19. ActiveOK' BY <1>0, <1>3 DEF ActiveOK, up
<1>20. ReplyFollowsEvents'
  <2> SUFFICES ASSUME NEW s \in Turns, Going(s)' PROVE Follows(s)'
    BY <1>1 DEF ReplyFollowsEvents, Follows
  <2>0. Going(s) BY <1>1, <1>2 DEF Going
  <2>1. Follows(s) BY <1>0, <1>1, <2>0, FollowsIs
  <2>2. CASE s # t
    <3>1. run'[s].log = run[s].log BY <1>2, <2>2
    <3> QED BY <1>1, <2>1, <3>1, FollowsStays
  <2>3. CASE s = t
    <3>1. PICK n \in 0..Len(log) : /\ Applied(t) = 1..n
                                   /\ Spells(db.reply[t].text, log, n)
                                   /\ db.act[t].approval = ApprovalOf(log, n)
      BY <2>1, <2>3 DEF Follows
    <3>2. <<t, Len(log) + 1>> \notin db.claimed
      <4>1. Len(log) + 1 \in Nat /\ ~(Len(log) + 1 <= Len(log)) BY <1>1
      <4> QED BY <1>0, <4>1 DEF ClaimsOK
    <3>3. Applied(t)' = Applied(t)
      <4>1. 1..Len(run'[t].log) = 1..Len(log) \cup {Len(log) + 1} BY <1>1, <1>2, <1>4
      <4> QED BY <3>2, <4>1 DEF Applied
    <3>4. /\ Spells(db.reply[t].text, r.log, n)
          /\ ApprovalOf(r.log, n) = ApprovalOf(log, n)
      BY <1>1, <3>1, SaidBefore
    <3>5. n \in 0..Len(run'[t].log) BY <1>1, <1>2, <1>4
    <3> QED BY <1>2, <2>3, <3>1, <3>3, <3>4, <3>5 DEF Follows
  <2> QED BY <2>2, <2>3
<1>21. ActivitiesEnd' /\ ReadersAgree' BY <1>0 DEF ActivitiesEnd, ReadersAgree, up
<1> QED BY <1>6, <1>7, <1>8, <1>9, <1>10, <1>14, <1>17, <1>18, <1>19, <1>20, <1>21
        DEF ConversationInv, QueuesOK

\* What a Run that goes on may add to its log
LEMMA LogGrows ==
    ASSUME Typed, NEW t \in Turns, RowOK(run[t]), run[t].live, NEW kind \in EventKinds, NEW r \in RunRec,
           r.log = Append(run[t].log, kind), r.status = run[t].status,
           kind = "asked" => \A i \in DOMAIN run[t].log : run[t].log[i] # "asked",
           kind \in Verdicts => run[t].waiting /\ ~r.waiting,
           kind \in Ended => ~r.live /\ r.status = kind,
           r.waiting => run[t].waiting \/ kind = "asked"
    PROVE  RowOK(r)
<1> DEFINE log == run[t].log
<1>1. log \in Seq(EventKinds) /\ Len(log) \in Nat /\ DOMAIN log = 1..Len(log) BY DEF Typed, RunRec
<1>2. /\ r.log \in Seq(EventKinds) /\ Len(r.log) = Len(log) + 1 /\ DOMAIN r.log = 1..Len(log) + 1
      /\ \A i \in 1..Len(log) : r.log[i] = log[i]
      /\ r.log[Len(log) + 1] = kind
  <2>1. DOMAIN r.log = 1..Len(r.log) BY DEF RunRec
  <2> QED BY <1>1, <2>1
<1>3. \A i \in DOMAIN r.log : i \in DOMAIN log \/ i = Len(log) + 1 BY <1>1, <1>2
<1>4. r.status # "none" /\ log # <<>> /\ log[1] = "created" BY DEF RowOK
<1>5. r.log # <<>> /\ r.log[1] = "created"
  <2>1. 1 \in 1..Len(log) BY <1>1, <1>4
  <2> QED BY <1>2, <1>4, <2>1
<1>6. \A m \in DOMAIN log : log[m] \notin Ended BY DEF RowOK
<1>7. \A m \in DOMAIN r.log : r.log[m] \in Ended => m = Len(r.log) /\ ~r.live /\ r.status = r.log[m]
  BY <1>1, <1>2, <1>3, <1>6
<1>8. \A i, j \in DOMAIN r.log : r.log[i] = "asked" /\ r.log[j] = "asked" => i = j
  <2>1. \A i, j \in DOMAIN log : log[i] = "asked" /\ log[j] = "asked" => i = j BY DEF RowOK
  <2> QED BY <1>1, <1>2, <1>3, <2>1
<1>9. kind \in Verdicts => \A i \in DOMAIN log : log[i] \notin Verdicts BY DEF RowOK
<1>10. \A i, j \in DOMAIN r.log : r.log[i] \in Verdicts /\ r.log[j] \in Verdicts => i = j
  <2>1. \A i, j \in DOMAIN log : log[i] \in Verdicts /\ log[j] \in Verdicts => i = j BY DEF RowOK
  <2> QED BY <1>1, <1>2, <1>3, <1>9, <2>1
<1>11. ASSUME NEW j \in DOMAIN r.log, r.log[j] \in Verdicts
       PROVE  \E i \in 1..j - 1 : r.log[i] = "asked"
  <2>1. CASE j \in DOMAIN log
    <3>1. PICK i \in 1..j - 1 : log[i] = "asked" BY <1>1, <1>2, <1>11, <2>1 DEF RowOK
    <3>2. i \in 1..Len(log) BY <1>1, <2>1
    <3> QED BY <1>2, <3>1, <3>2
  <2>2. CASE j = Len(log) + 1
    <3>1. PICK i \in DOMAIN log : log[i] = "asked" BY <1>2, <1>11, <2>2 DEF RowOK
    <3>2. i \in 1..j - 1 BY <1>1, <2>2
    <3> QED BY <1>1, <1>2, <3>1, <3>2
  <2> QED BY <1>3, <2>1, <2>2
<1>12. ASSUME r.waiting
       PROVE  /\ \E i \in DOMAIN r.log : r.log[i] = "asked"
              /\ \A i \in DOMAIN r.log : r.log[i] \notin Verdicts
  <2>1. kind \notin Verdicts BY <1>12
  <2>2. CASE run[t].waiting
    <3>1. PICK i \in DOMAIN log : log[i] = "asked" BY <2>2 DEF RowOK
    <3>2. i \in DOMAIN r.log /\ r.log[i] = "asked" BY <1>1, <1>2, <3>1
    <3>3. \A k \in DOMAIN log : log[k] \notin Verdicts BY <2>2 DEF RowOK
    <3>4. \A k \in DOMAIN r.log : r.log[k] \notin Verdicts BY <1>1, <1>2, <1>3, <2>1, <3>3
    <3> QED BY <3>2, <3>4
  <2>3. CASE kind = "asked"
    <3>1. Len(log) + 1 \in DOMAIN r.log /\ r.log[Len(log) + 1] = "asked" BY <1>1, <1>2, <2>3
    <3>2. \A k \in DOMAIN log : log[k] \notin Verdicts
      <4> SUFFICES ASSUME NEW k \in DOMAIN log, log[k] \in Verdicts PROVE FALSE OBVIOUS
      <4>1. PICK i \in 1..k - 1 : log[i] = "asked" BY DEF RowOK
      <4>2. i \in DOMAIN log BY <1>1
      <4> QED BY <2>3, <4>1, <4>2
    <3>3. \A k \in DOMAIN r.log : r.log[k] \notin Verdicts BY <1>1, <1>2, <1>3, <2>1, <3>2
    <3> QED BY <3>1, <3>3
  <2> QED BY <1>12, <2>2, <2>3
<1> QED BY <1>4, <1>5, <1>7, <1>8, <1>10, <1>11, <1>12 DEF RowOK

\* The Run speaks, and nothing else changes.
LEMMA SpeakingSteps ==
    ASSUME ConversationInv, NEW t \in Turns
    PROVE  /\ \A kind \in Outputs[t] : EngineEmits(t, kind) => ConversationInv'
           /\ EngineAsks(t) => ConversationInv'
           /\ EndEmitted(t) => ConversationInv'
           /\ \A verdict \in {"allowed", "denied"} : Decide(t, verdict) => ConversationInv'
<1>0. Typed /\ RunsOK /\ RowOK(run[t]) /\ SendingOK BY DEF ConversationInv, RunsOK
<1>1. run \in [Turns -> RunRec] /\ run[t] \in RunRec /\ run[t].log \in Seq(EventKinds) BY <1>0 DEF Typed, RunRec
<1>2. Outputs[t] \subseteq Kinds /\ Kinds \subseteq EventKinds BY DEF EventKinds
<1>3. ASSUME NEW kind \in Outputs[t], EngineEmits(t, kind) PROVE ConversationInv'
  <2> DEFINE r == [run[t] EXCEPT !.log = Append(@, kind)]
  <2>0. kind \in EventKinds /\ kind \notin Ended /\ kind \notin Verdicts /\ kind # "asked"
    BY <1>2, <1>3 DEF Kinds, Ended, Verdicts, EngineEmits
  <2>1. r \in RunRec
    <3>1. Append(run[t].log, kind) \in Seq(EventKinds) BY <1>1, <2>0
    <3> QED BY <1>1, <3>1 DEF RunRec
  <2>2. /\ r.log = Append(run[t].log, kind) /\ r.status = run[t].status /\ r.live = run[t].live
        /\ r.waiting = run[t].waiting
    BY <1>1 DEF RunRec
  <2>3. run' = [run EXCEPT ![t] = r] BY <1>1, <1>3 DEF EngineEmits, Emitted
  <2> HIDE DEF r
  <2>4. run'[t] = r BY <1>1, <2>3
  <2>5. up /\ run[t].status = "open" /\ run[t].live BY <1>0, <1>3 DEF EngineEmits, RunsOK
  <2>6. RowOK(r) BY <1>0, <2>0, <2>1, <2>2, <2>5, LogGrows
  <2>7. /\ chain' = Append(chain, <<t, Len(run[t].log) + 1>>) /\ pc[t] # "created"
        /\ UNCHANGED <<db, inflight, sendVars, process, bounds>>
    BY <1>3 DEF EngineEmits, Emitted
  <2>8. run[t].waiting => run[t].live BY <1>0 DEF RunsOK
  <2> QED BY <2>0, <2>1, <2>2, <2>3, <2>5, <2>6, <2>7, <2>8, Speaks
<1>4. ASSUME EngineAsks(t) PROVE ConversationInv'
  <2> DEFINE r == [run[t] EXCEPT !.log = Append(@, "asked"), !.waiting = ~run[t].cancelled]
  <2>0. "asked" \in EventKinds /\ "asked" \notin Ended /\ "asked" \notin Verdicts
    BY DEF EventKinds, Kinds, Ended, Verdicts
  <2>1. r \in RunRec
    <3>1. Append(run[t].log, "asked") \in Seq(EventKinds) BY <1>1, <2>0
    <3> QED BY <1>1, <3>1 DEF RunRec
  <2>2. r.log = Append(run[t].log, "asked") /\ r.status = run[t].status /\ r.live = run[t].live
    BY <1>1 DEF RunRec
  <2>3. run' = [run EXCEPT ![t] = r] BY <1>1, <1>4 DEF EngineAsks
  <2> HIDE DEF r
  <2>4. run'[t] = r BY <1>1, <2>3
  <2>5. up /\ run[t].status = "open" /\ run[t].live BY <1>0, <1>4 DEF EngineAsks, RunsOK
  <2>6. \A i \in DOMAIN run[t].log : run[t].log[i] # "asked" BY <1>4 DEF EngineAsks
  <2>7. RowOK(r) BY <1>0, <2>0, <2>1, <2>2, <2>5, <2>6, LogGrows
  <2>8. /\ chain' = Append(chain, <<t, Len(run[t].log) + 1>>) /\ pc[t] # "created"
        /\ UNCHANGED <<db, inflight, sendVars, process, bounds>>
    BY <1>4 DEF EngineAsks
  <2> QED BY <2>0, <2>1, <2>2, <2>3, <2>5, <2>7, <2>8, Speaks
<1>5. ASSUME EndEmitted(t) PROVE ConversationInv'
  <2> DEFINE kind == run[t].status
             r == [run[t] EXCEPT !.log = Append(@, kind), !.live = FALSE, !.waiting = FALSE]
  <2>0. kind \in Ended /\ run[t].live /\ up BY <1>5 DEF EndEmitted
  <2>1. kind \in EventKinds /\ kind # "asked" /\ kind \notin Verdicts /\ kind # "open"
    BY <2>0 DEF EventKinds, Ended, Verdicts
  <2>2. r \in RunRec
    <3>1. Append(run[t].log, kind) \in Seq(EventKinds) BY <1>1, <2>1
    <3> QED BY <1>1, <3>1 DEF RunRec
  <2>3. r.log = Append(run[t].log, kind) /\ r.status = run[t].status /\ ~r.live /\ ~r.waiting
    BY <1>1 DEF RunRec
  <2>4. run' = [run EXCEPT ![t] = r] BY <1>1, <1>5 DEF EndEmitted
  <2>5. chain' = Append(chain, <<t, Len(run[t].log) + 1>>)
        /\ UNCHANGED <<db, inflight, sendVars, process, bounds>>
    BY <1>5 DEF EndEmitted
  <2>6. pc[t] # "created" BY <1>0, <2>0 DEF SendingOK, Ended
  <2> PICK k \in EventKinds : k = kind BY <2>1
  <2> HIDE DEF r, kind
  <2>7. run'[t] = r BY <1>1, <2>4
  <2>8. RowOK(r)
    <3>1. r.status = kind BY <2>3 DEF kind
    <3> QED BY <1>0, <2>0, <2>1, <2>2, <2>3, <2>7, <3>1, LogGrows
  <2>9. r.status # "open" BY <2>1, <2>3 DEF kind
  <2> QED BY <2>0, <2>1, <2>2, <2>3, <2>4, <2>5, <2>6, <2>8, <2>9, Speaks
<1>6. ASSUME NEW verdict \in {"allowed", "denied"}, Decide(t, verdict) PROVE ConversationInv'
  <2> DEFINE r == [run[t] EXCEPT !.log = Append(@, verdict), !.waiting = FALSE]
  <2>0. verdict \in EventKinds /\ verdict \notin Ended /\ verdict \in Verdicts /\ verdict # "asked"
    BY DEF EventKinds, Ended, Verdicts
  <2>1. r \in RunRec
    <3>1. Append(run[t].log, verdict) \in Seq(EventKinds) BY <1>1, <2>0
    <3> QED BY <1>1, <3>1 DEF RunRec
  <2>2. r.log = Append(run[t].log, verdict) /\ r.status = run[t].status /\ r.live = run[t].live
        /\ ~r.waiting
    BY <1>1 DEF RunRec
  <2>3. run' = [run EXCEPT ![t] = r] BY <1>1, <1>6 DEF Decide
  <2> HIDE DEF r
  <2>4. run'[t] = r BY <1>1, <2>3
  <2>5. up /\ run[t].waiting /\ pc[t] # "created" BY <1>6 DEF Decide, Quiet
  <2>6. run[t].live BY <1>0, <2>5 DEF RunsOK
  <2>7. RowOK(r) BY <1>0, <2>0, <2>1, <2>2, <2>5, <2>6, LogGrows
  <2>8. /\ chain' = Append(chain, <<t, Len(run[t].log) + 1>>)
        /\ UNCHANGED <<db, inflight, sendVars, process, bounds>>
    BY <1>6 DEF Decide
  <2> QED BY <2>0, <2>1, <2>2, <2>3, <2>5, <2>6, <2>7, <2>8, Speaks
<1> QED BY <1>3, <1>4, <1>5, <1>6

\* The record of a Run changes, and not what it has said.
LEMMA RunMoves ==
    ASSUME ConversationInv, NEW t \in Turns, NEW r \in RunRec, run' = [run EXCEPT ![t] = r],
           r.log = run[t].log, r.live = run[t].live, r.status \in {"open"} \cup Ended,
           run[t].status = "open", pc[t] # "created", up, r.waiting => run[t].waiting,
           UNCHANGED <<db, chain, inflight, sendVars, process, bounds>>
    PROVE  ConversationInv'
<1> USE DEF sendVars, process, bounds
<1>0. /\ Typed /\ StoreOK(db, run, edits) /\ RunsOK /\ SendingOK /\ ClaimsOK /\ ChainOK /\ InflightOK
      /\ OverOK /\ ActiveOK /\ ReplyFollowsEvents /\ ActivitiesEnd /\ ReadersAgree /\ RowOK(run[t])
  BY DEF ConversationInv, QueuesOK, RunsOK
<1>1. run \in [Turns -> RunRec] /\ db \in DB /\ edits \in Nat /\ up' BY <1>0 DEF Typed, up
<1>2. run'[t] = r /\ \A s \in Turns \ {t} : run'[s] = run[s] BY <1>1
<1>3. \A s \in Turns : run'[s].log = run[s].log /\ run'[s].live = run[s].live BY <1>2
<1>4. Typed' BY <1>0, <1>1 DEF Typed
<1>5. StoreOK(db, run, edits)'
  <2>1. Untouched(db, run, t) /\ Bare(db, run, t) /\ EndsWell(db, run, t) /\ ConvOK(db, ConvOf[t], edits)
    BY <1>0 DEF StoreOK
  <2>2. Untouched(db, run', t) /\ Bare(db, run', t) /\ EndsWell(db, run', t)
    BY <2>1 DEF Untouched, Bare, EndsWell, Ended
  <2>3. \A s \in Turns \ {t} : run'[s].status = run[s].status BY <1>2
  <2>4. edits <= edits BY <1>1
  <2>5. ConvOf[t] \in Convs OBVIOUS
  <2>6. StoreOK(db, run', edits) BY <1>0, <1>1, <2>1, <2>2, <2>3, <2>4, <2>5, OneTurnMoves
  <2> QED BY <2>6
<1>6. RunsOK'
  <2>1. ASSUME NEW s \in Turns \ {t}
        PROVE  /\ RowOK(run'[s])
               /\ run'[s].waiting => run'[s].live
               /\ run'[s].live => up'
               /\ up' /\ run'[s].status = "open" => run'[s].live
               /\ node' = "starting" => run'[s].status # "open"
    BY <1>0, <1>2, <2>1 DEF RunsOK, up
  <2>2. /\ run'[t].waiting => run'[t].live
        /\ run'[t].live => up'
        /\ up' /\ run'[t].status = "open" => run'[t].live
        /\ node' = "starting" => run'[t].status # "open"
    BY <1>0, <1>1, <1>2 DEF RunsOK, up
  <2>3. RowOK(run'[t])
    <3>1. \A m \in DOMAIN run[t].log : run[t].log[m] \notin Ended BY <1>0 DEF RowOK, Ended
    <3>2. r.log = run[t].log /\ r.status # "none" /\ run[t].status # "none" BY DEF Ended
    <3>3. RowOK(r) BY <1>0, <3>1, <3>2 DEF RowOK
    <3> QED BY <1>2, <3>3
  <2>4. \A s \in Turns : run'[s].status = "open" => run[s].status = "open" BY <1>2
  <2>5. OneTurnAtATime' BY <1>0, <2>4 DEF RunsOK, OneTurnAtATime
  <2> QED BY <2>1, <2>2, <2>3, <2>5 DEF RunsOK
<1>7. SendingOK'
  <2>1. pc[t] # "creating" /\ pc[t] # "created" BY <1>0 DEF SendingOK
  <2>2. \A s \in Turns : pc[s] \in {"creating", "created"} => run'[s] = run[s] BY <1>2, <2>1
  <2> QED BY <1>0, <1>1, <1>3, <2>2 DEF SendingOK, InCreate, up
<1>8. ClaimsOK' BY <1>0, <1>3 DEF ClaimsOK
<1>9. ChainOK'
  <2>1. \A i \in DOMAIN chain : chain[i][1] \in Turns
    <3>1. chain \in Seq(Events) BY <1>0 DEF Typed
    <3> QED BY <3>1 DEF Events
  <2>2. ASSUME NEW i \in DOMAIN chain PROVE ChainAt(i)'
    <3>1. ChainAt(i) BY <1>0 DEF ChainOK
    <3>2. run'[chain[i][1]].log = run[chain[i][1]].log BY <1>3, <2>1
    <3> QED BY <3>1, <3>2 DEF ChainAt
  <2> QED BY <1>0, <1>3, <2>2 DEF ChainOK, InChain
<1>10. \A s : Alive(s)' <=> Alive(s) BY DEF Alive
<1>11. InflightOK'
  <2>1. ASSUME NEW i \in DOMAIN inflight PROVE InflightAt(i)'
    <3>1. InflightAt(i) BY <1>0 DEF InflightOK
    <3> QED BY <1>10, <3>1 DEF InflightAt
  <2> QED BY <1>0, <2>1 DEF InflightOK
<1>12. OverOK' BY <1>0, <1>1, <1>3, <1>10 DEF OverOK, InChain
<1>13. ActiveOK' BY <1>0, <1>1, <1>2 DEF ActiveOK, Ended, up
<1>14. ReplyFollowsEvents'
  <2> SUFFICES ASSUME NEW s \in Turns, Going(s)' PROVE Follows(s)'
    BY DEF ReplyFollowsEvents, Follows
  <2>1. run[s].status # "none" BY <1>0, <1>3 DEF Going
  <2>2. Follows(s) BY <1>0, <2>1, FollowsIs DEF Going
  <2> QED BY <1>1, <1>3, <2>2, FollowsStays
<1>15. ActivitiesEnd' /\ ReadersAgree' BY <1>0, <1>1 DEF ActivitiesEnd, ReadersAgree, up
<1> QED BY <1>4, <1>5, <1>6, <1>7, <1>8, <1>9, <1>11, <1>12, <1>13, <1>14, <1>15
        DEF ConversationInv, QueuesOK

LEMMA MovingSteps ==
    ASSUME ConversationInv
    PROVE  /\ \A t \in Turns, how \in Ended : RunEnds(t, how) => ConversationInv'
           /\ \A c \in Convs : Cancel(c) => ConversationInv'
<1>0. Typed /\ RunsOK /\ ActiveOK /\ StoreOK(db, run, edits) BY DEF ConversationInv
<1>1. ASSUME NEW t \in Turns, NEW how \in Ended, RunEnds(t, how) PROVE ConversationInv'
  <2> DEFINE r == [run[t] EXCEPT !.status = how]
  <2>1. run[t] \in RunRec /\ run \in [Turns -> RunRec] BY <1>0 DEF Typed
  <2>2. r \in RunRec BY <2>1 DEF RunRec
  <2>3. r.log = run[t].log /\ r.live = run[t].live /\ r.status = how /\ r.waiting = run[t].waiting
    BY <2>1 DEF RunRec
  <2>4. run' = [run EXCEPT ![t] = r] BY <1>1, <2>1 DEF RunEnds
  <2> HIDE DEF r
  <2>5. /\ run[t].status = "open" /\ pc[t] # "created" /\ up
        /\ UNCHANGED <<db, chain, inflight, sendVars, process, bounds>>
    BY <1>1 DEF RunEnds
  <2> QED BY <2>2, <2>3, <2>4, <2>5, RunMoves
<1>2. ASSUME NEW c \in Convs, Cancel(c) PROVE ConversationInv'
  <2>1. db.conv[c].active \in Turns
    <3>1. db.conv[c] \in ConvRec BY <1>0 DEF Typed, DB
    <3> QED BY <1>2, <3>1 DEF Cancel, ConvRec
  <2>2. PICK t \in Turns : t = db.conv[c].active BY <2>1
  <2> DEFINE r == [run[t] EXCEPT !.cancelled = TRUE, !.waiting = FALSE]
  <2>3. run[t] \in RunRec /\ run \in [Turns -> RunRec] BY <1>0 DEF Typed
  <2>4. r \in RunRec BY <2>3 DEF RunRec
  <2>5. r.log = run[t].log /\ r.live = run[t].live /\ r.status = run[t].status /\ ~r.waiting
    BY <2>3 DEF RunRec
  <2>6. run' = [run EXCEPT ![t] = r] BY <1>2, <2>2, <2>3 DEF Cancel
  <2>7. run[t].status = "open" BY <1>2, <2>2 DEF Cancel
  <2> HIDE DEF r
  <2>8. /\ up /\ UNCHANGED <<db, chain, inflight, sendVars, process, bounds>>
        /\ pc[t] # "created"
    BY <1>2 DEF Cancel, Quiet
  <2> QED BY <2>4, <2>5, <2>6, <2>7, <2>8, RunMoves
<1> QED BY <1>1, <1>2

-----------------------------------------------------------------------------
(* The consumers of events                                                  *)

\* What one more event says
LEMMA SaidNext ==
    ASSUME NEW l \in Seq(EventKinds), NEW n \in Nat, n < Len(l), NEW text \in Seq(Nat), Spells(text, l, n)
    PROVE  /\ l[n + 1] = "text" => Spells(<<n + 1>>, l, n + 1)
           /\ l[n + 1] = "delta" => Spells(Append(text, n + 1), l, n + 1)
           /\ l[n + 1] \notin {"text", "delta"} => Spells(text, l, n + 1)
<1>0. Len(l) \in Nat /\ 1..n + 1 = 1..n \cup {n + 1} OBVIOUS
<1>1. CASE l[n + 1] = "text"
  <2>1. ASSUME NEW i \in 1..n PROVE i \notin Said(l, n + 1)
    <3>1. n + 1 \in i + 1..n + 1 OBVIOUS
    <3> QED BY <1>1, <3>1 DEF Said
  <2>2. n + 1 \in Said(l, n + 1)
    <3>1. (n + 1) + 1..n + 1 = {} OBVIOUS
    <3> QED BY <1>1, <3>1 DEF Said
  <2>3. Said(l, n + 1) = {n + 1} BY <1>0, <2>1, <2>2 DEF Said
  <2>4. DOMAIN <<n + 1>> = {1} /\ <<n + 1>>[1] = n + 1 OBVIOUS
  <2> QED BY <1>1, <2>3, <2>4 DEF Spells
<1>2. CASE l[n + 1] = "delta"
  <2>1. ASSUME NEW i \in 1..n PROVE i \in Said(l, n + 1) <=> i \in Said(l, n)
    <3>1. i \in 1..n + 1 /\ l[n + 1] # "text" BY <1>2
    <3>2. /\ n + 1 \in i + 1..n + 1
          /\ \A j \in i + 1..n : j \in i + 1..n + 1
          /\ \A j \in i + 1..n + 1 : j \in i + 1..n \/ j = n + 1
      OBVIOUS
    <3>3. (\A j \in i + 1..n + 1 : l[j] # "text") <=> (\A j \in i + 1..n : l[j] # "text") BY <3>1, <3>2
    <3> QED BY <3>1, <3>3 DEF Said
  <2>2. n + 1 \in Said(l, n + 1)
    <3>1. (n + 1) + 1..n + 1 = {} OBVIOUS
    <3> QED BY <1>2, <3>1 DEF Said
  <2>3. Said(l, n + 1) = Said(l, n) \cup {n + 1} BY <1>0, <2>1, <2>2 DEF Said
  <2> DEFINE longer == Append(text, n + 1)
  <2>4. /\ Len(text) \in Nat /\ DOMAIN text = 1..Len(text)
        /\ DOMAIN longer = 1..Len(text) + 1 /\ longer[Len(text) + 1] = n + 1
        /\ \A i \in 1..Len(text) : longer[i] = text[i]
    <3>1. longer \in Seq(Nat) /\ Len(longer) = Len(text) + 1 OBVIOUS
    <3>2. DOMAIN longer = 1..Len(longer) BY <3>1
    <3> QED BY <3>1, <3>2
  <2>5. \A i \in 1..Len(text) : text[i] \in 1..n BY <2>4 DEF Spells, Said
  <2> HIDE DEF longer
  <2>6. \A i \in DOMAIN longer : i \in 1..Len(text) \/ i = Len(text) + 1 BY <2>4
  <2>7. {longer[i] : i \in DOMAIN longer} = {text[i] : i \in DOMAIN text} \cup {n + 1}
    <3>1. Len(text) + 1 \in DOMAIN longer BY <2>4
    <3>2. \A i \in 1..Len(text) : i \in DOMAIN longer BY <2>4
    <3> QED BY <2>4, <2>6, <3>1, <3>2
  <2>8. \A i, j \in DOMAIN longer : i < j => longer[i] < longer[j]
    <3> SUFFICES ASSUME NEW i \in DOMAIN longer, NEW j \in DOMAIN longer, i < j
                 PROVE longer[i] < longer[j] OBVIOUS
    <3>1. i \in 1..Len(text) BY <2>4
    <3>2. CASE j = Len(text) + 1 BY <2>4, <2>5, <3>1, <3>2
    <3>3. CASE j \in 1..Len(text) BY <2>4, <3>1, <3>3 DEF Spells
    <3> QED BY <2>6, <3>2, <3>3
  <2> QED BY <1>2, <2>3, <2>7, <2>8 DEF Spells, longer
<1>3. CASE l[n + 1] \notin {"text", "delta"}
  <2>1. ASSUME NEW i \in 1..n PROVE i \in Said(l, n + 1) <=> i \in Said(l, n)
    <3>1. i \in 1..n + 1 /\ l[n + 1] # "text" BY <1>3
    <3>2. /\ n + 1 \in i + 1..n + 1
          /\ \A j \in i + 1..n : j \in i + 1..n + 1
          /\ \A j \in i + 1..n + 1 : j \in i + 1..n \/ j = n + 1
      OBVIOUS
    <3>3. (\A j \in i + 1..n + 1 : l[j] # "text") <=> (\A j \in i + 1..n : l[j] # "text") BY <3>1, <3>2
    <3> QED BY <3>1, <3>3 DEF Said
  <2>2. Said(l, n + 1) = Said(l, n) BY <1>0, <1>3, <2>1 DEF Said
  <2> QED BY <1>3, <2>2 DEF Spells
<1> QED BY <1>1, <1>2, <1>3

LEMMA ApprovalNext ==
    ASSUME NEW r \in RunRec, RowOK(r), NEW n \in Nat, n < Len(r.log)
    PROVE  ApprovalOf(r.log, n + 1) =
              CASE r.log[n + 1] = "asked"   -> "pending"
                [] r.log[n + 1] = "allowed" -> "completed"
                [] r.log[n + 1] = "denied"  -> "denied"
                [] OTHER                    -> ApprovalOf(r.log, n)
<1> DEFINE l == r.log
           said(k, kind) == \E i \in 1..k : l[i] = kind
<1>0. l \in Seq(EventKinds) /\ Len(l) \in Nat /\ DOMAIN l = 1..Len(l) BY DEF RunRec
<1>1. 1..n + 1 = 1..n \cup {n + 1} /\ \A i \in 1..n + 1 : i \in DOMAIN l BY <1>0
<1>2. \A kind : said(n + 1, kind) <=> said(n, kind) \/ l[n + 1] = kind BY <1>1
<1>3. CASE l[n + 1] = "asked"
  <2>1. ASSUME NEW j \in 1..n, l[j] \in Verdicts PROVE FALSE
    <3>1. PICK i \in 1..j - 1 : l[i] = "asked" BY <1>1, <2>1 DEF RowOK
    <3>2. i \in DOMAIN l /\ n + 1 \in DOMAIN l /\ i # n + 1 BY <1>1
    <3> QED BY <1>3, <3>1, <3>2 DEF RowOK
  <2>2. ~said(n + 1, "allowed") /\ ~said(n + 1, "denied") /\ said(n + 1, "asked")
    BY <1>2, <1>3, <2>1 DEF Verdicts
  <2> QED BY <1>3, <2>2 DEF ApprovalOf
<1>4. CASE l[n + 1] = "allowed" BY <1>2, <1>4 DEF ApprovalOf
<1>5. CASE l[n + 1] = "denied"
  <2>1. ASSUME NEW j \in 1..n, l[j] = "allowed" PROVE FALSE
    <3>1. j \in DOMAIN l /\ n + 1 \in DOMAIN l /\ j # n + 1 BY <1>1
    <3> QED BY <1>5, <2>1, <3>1 DEF RowOK, Verdicts
  <2>2. ~said(n + 1, "allowed") /\ said(n + 1, "denied") BY <1>2, <1>5, <2>1
  <2> QED BY <1>5, <2>2 DEF ApprovalOf
<1>6. CASE l[n + 1] \notin {"asked", "allowed", "denied"}
  <2>1. \A kind \in {"asked", "allowed", "denied"} : said(n + 1, kind) <=> said(n, kind) BY <1>2, <1>6
  <2> QED BY <1>6, <2>1 DEF ApprovalOf
<1> QED BY <1>3, <1>4, <1>5, <1>6

\* A consumer that leaves a claimed event behind
LEMMA AdvanceOK ==
    ASSUME Typed, ChainOK, SendingOK, NEW who \in Consumers, Offered(who),
           EventFor(who) \in db.claimed, Advance(who), run' = run, db'.claimed = db.claimed
    PROVE  /\ chain' \in Seq(Events) /\ todo' \in [Turns -> (Nat \ {0}) \X Nat]
           /\ ChainOK' /\ \A e : InChain(e)' => InChain(e)
           /\ pc' = pc /\ copy' = copy /\ pending' = pending
           /\ \A t \in Turns : todo'[t][2] = todo[t][2]
           /\ \A t \in Turns \ {who} : todo'[t] = todo[t]
           /\ who # NoTurn => chain' = chain
           /\ \A t \in Turns : pc[t] = "replaying" =>
                 \A m \in 1..todo'[t][1] - 1 : <<t, m>> \in db.claimed
<1>0. chain \in Seq(Events) /\ todo \in [Turns -> (Nat \ {0}) \X Nat] BY DEF Typed
<1>1. CASE who = NoTurn
  <2>1. chain # <<>> /\ EventFor(who) = Head(chain) /\ chain' = Tail(chain) /\ UNCHANGED sendVars
    BY <1>1 DEF Offered, EventFor, Advance
  <2>2. /\ chain' \in Seq(Events) /\ Len(chain) \in Nat /\ Len(chain') = Len(chain) - 1
        /\ DOMAIN chain = 1..Len(chain) /\ DOMAIN chain' = 1..Len(chain) - 1
        /\ \A i \in 1..Len(chain) - 1 : chain'[i] = chain[i + 1]
        /\ chain[1] \in db.claimed
    BY <1>0, <2>1
  <2>3. ASSUME NEW e, InChain(e)' PROVE InChain(e)
    <3>1. PICK i \in 1..Len(chain) - 1 : chain'[i] = e BY <2>2, <2>3 DEF InChain
    <3>2. i + 1 \in DOMAIN chain /\ chain[i + 1] = e BY <2>2, <3>1
    <3> QED BY <3>2 DEF InChain
  <2>4. ASSUME NEW e, InChain(e) PROVE e \in db.claimed \/ InChain(e)'
    <3>1. PICK i \in 1..Len(chain) : chain[i] = e BY <2>2, <2>4 DEF InChain
    <3>2. CASE i = 1 BY <2>2, <3>1, <3>2
    <3>3. CASE i # 1
      <4>1. i - 1 \in 1..Len(chain) - 1 /\ (i - 1) + 1 = i BY <2>2, <3>1, <3>3
      <4>2. chain'[i - 1] = e BY <2>2, <3>1, <4>1
      <4> QED BY <2>2, <4>1, <4>2 DEF InChain
    <3> QED BY <3>2, <3>3
  <2>5. ASSUME NEW i \in DOMAIN chain' PROVE ChainAt(i)'
    <3>1. i + 1 \in DOMAIN chain /\ chain'[i] = chain[i + 1] BY <2>2
    <3>2. ChainAt(i + 1) BY <3>1 DEF ChainOK
    <3> DEFINE t == chain[i + 1][1]
               n == chain[i + 1][2]
    <3>3. n <= Len(run[t].log) BY <3>2 DEF ChainAt
    <3>4. ASSUME NEW m \in 1..n - 1, <<t, m>> \notin db.claimed
          PROVE  \E j \in 1..i - 1 : chain'[j] = <<t, m>>
      <4>1. PICK j \in 1..(i + 1) - 1 : chain[j] = <<t, m>> BY <3>2, <3>4 DEF ChainAt
      <4>2. j # 1 BY <2>2, <3>4, <4>1
      <4>3. j - 1 \in 1..i - 1 /\ j - 1 \in 1..Len(chain) - 1 /\ (j - 1) + 1 = j BY <2>2, <4>1, <4>2
      <4>4. chain'[j - 1] = <<t, m>> BY <2>2, <4>1, <4>3
      <4> QED BY <4>3, <4>4
    <3> QED BY <3>1, <3>3, <3>4 DEF ChainAt
  <2>6. ChainOK'
    <3>1. ASSUME NEW t \in Turns, run[t].live, NEW m \in DOMAIN run[t].log
          PROVE  <<t, m>> \in db.claimed \/ InChain(<<t, m>>)'
      BY <2>4, <3>1 DEF ChainOK
    <3> QED BY <2>5, <3>1 DEF ChainOK
  <2>7. NoTurn \notin Turns OBVIOUS
  <2> QED BY <1>0, <1>1, <2>1, <2>2, <2>3, <2>6, <2>7 DEF sendVars, SendingOK
<1>2. CASE who \in Turns
  <2>1. who # NoTurn BY <1>2
  <2>2. /\ todo' = [todo EXCEPT ![who][1] = @ + 1]
        /\ UNCHANGED <<chain, pending, pc, copy>>
        /\ pc[who] = "replaying" /\ <<who, todo[who][1]>> \in db.claimed
    BY <2>1 DEF Advance, Offered, EventFor
  <2>3. todo[who] \in (Nat \ {0}) \X Nat BY <1>0, <1>2
  <2>4. /\ todo'[who] = <<todo[who][1] + 1, todo[who][2]>>
        /\ \A t \in Turns \ {who} : todo'[t] = todo[t]
        /\ DOMAIN todo' = Turns
    <3>1. PICK a \in Nat \ {0}, b \in Nat : todo[who] = <<a, b>> BY <2>3
    <3>2. todo'[who] = [todo[who] EXCEPT ![1] = @ + 1] BY <1>0, <1>2, <2>2
    <3>3. [<<a, b>> EXCEPT ![1] = @ + 1] = <<a + 1, b>> OBVIOUS
    <3>4. todo'[who] = <<todo[who][1] + 1, todo[who][2]>> BY <3>1, <3>2, <3>3
    <3> QED BY <1>0, <1>2, <2>2, <3>4
  <2>5. todo' \in [Turns -> (Nat \ {0}) \X Nat]
    <3>1. todo' = [t \in Turns |-> todo'[t]] BY <2>2, <1>0
    <3>2. <<todo[who][1] + 1, todo[who][2]>> \in (Nat \ {0}) \X Nat BY <2>3
    <3>3. \A t \in Turns : todo'[t] \in (Nat \ {0}) \X Nat BY <1>0, <2>4, <3>2
    <3> QED BY <3>1, <3>3
  <2>6. ChainOK' /\ \A e : InChain(e)' => InChain(e)
    <3>1. \A e : InChain(e)' <=> InChain(e) BY <2>2 DEF InChain
    <3>2. ASSUME NEW i \in DOMAIN chain PROVE ChainAt(i)'
      <4>1. ChainAt(i) BY DEF ChainOK
      <4> QED BY <2>2, <4>1 DEF ChainAt
    <3>3. ASSUME NEW t \in Turns, run[t].live, NEW m \in DOMAIN run[t].log
          PROVE  <<t, m>> \in db.claimed \/ InChain(<<t, m>>)'
      BY <3>1, <3>3 DEF ChainOK
    <3> QED BY <2>2, <3>1, <3>2, <3>3 DEF ChainOK
  <2>7. ASSUME NEW t \in Turns, pc[t] = "replaying", NEW m \in 1..todo'[t][1] - 1
        PROVE  <<t, m>> \in db.claimed
    <3>1. \A k \in 1..todo[t][1] - 1 : <<t, k>> \in db.claimed BY <2>7 DEF SendingOK
    <3>2. CASE t # who BY <2>4, <2>7, <3>1, <3>2
    <3>3. CASE t = who
      <4>1. m \in 1..todo[who][1] - 1 \/ m = todo[who][1] BY <2>3, <2>4, <2>7, <3>3
      <4> QED BY <2>2, <3>1, <3>3, <4>1
    <3> QED BY <3>2, <3>3
  <2>8. \A t \in Turns : todo'[t][2] = todo[t][2] BY <2>4
  <2> QED BY <1>0, <2>1, <2>2, <2>4, <2>5, <2>6, <2>7, <2>8
<1> QED BY <1>1, <1>2 DEF Consumers

LEMMA InflightTyped ==
    ASSUME Typed, NEW i \in DOMAIN inflight
    PROVE  /\ inflight[i].by \in Consumers /\ inflight[i].event \in Events
           /\ inflight[i].event[1] \in Turns /\ inflight[i].event[2] \in Nat \ {0}
           /\ inflight[i].event = <<inflight[i].event[1], inflight[i].event[2]>>
<1>1. inflight \in Seq([by : Consumers, event : Events]) BY DEF Typed
<1>2. inflight[i] \in [by : Consumers, event : Events]
  <2>1. i \in 1..Len(inflight) BY <1>1
  <2> QED BY <1>1, <2>1, ElementOfSeq
<1> QED BY <1>2 DEF Events

LEMMA ChainTyped ==
    ASSUME Typed, NEW i \in DOMAIN chain
    PROVE  /\ chain[i] \in Events /\ chain[i][1] \in Turns /\ chain[i][2] \in Nat \ {0}
           /\ chain[i] = <<chain[i][1], chain[i][2]>>
<1>1. chain \in Seq(Events) BY DEF Typed
<1>2. chain[i] \in Events
  <2>1. i \in 1..Len(chain) BY <1>1
  <2> QED BY <1>1, <2>1
<1> QED BY <1>2 DEF Events

\* Claims only grow, and the log stays.
LEMMA ChainStays ==
    ASSUME Typed, ChainOK, chain' = chain, db.claimed \subseteq db'.claimed,
           \A t \in Turns : run'[t].log = run[t].log /\ (run'[t].live => run[t].live)
    PROVE  ChainOK' /\ \A e : InChain(e)' <=> InChain(e)
<1>1. ASSUME NEW i \in DOMAIN chain PROVE ChainAt(i)'
  <2>1. ChainAt(i) BY DEF ChainOK
  <2>2. chain[i][1] \in Turns BY ChainTyped
  <2> QED BY <2>1, <2>2 DEF ChainAt
<1>2. \A e : InChain(e)' <=> InChain(e) BY DEF InChain
<1>3. ASSUME NEW t \in Turns, run'[t].live, NEW m \in DOMAIN run'[t].log
      PROVE  <<t, m>> \in db'.claimed \/ InChain(<<t, m>>)'
  <2>1. <<t, m>> \in db.claimed \/ InChain(<<t, m>>) BY <1>3 DEF ChainOK
  <2> QED BY <1>2, <2>1
<1> QED BY <1>1, <1>2, <1>3 DEF ChainOK

LEMMA SkipStep ==
    ASSUME ConversationInv, NEW who \in Consumers, SkipEvent(who)
    PROVE  ConversationInv'
<1> USE DEF process, bounds
<1>0. /\ Typed /\ StoreOK(db, run, edits) /\ RunsOK /\ SendingOK /\ ClaimsOK /\ ChainOK /\ InflightOK
      /\ OverOK /\ ActiveOK /\ ReplyFollowsEvents /\ ActivitiesEnd /\ ReadersAgree
  BY DEF ConversationInv, QueuesOK
<1>1. /\ up /\ ~Busy(who) /\ Offered(who) /\ EventFor(who) \in db.claimed /\ Advance(who)
      /\ UNCHANGED <<db, run, inflight, process, bounds>>
  BY DEF SkipEvent
<1>2. /\ chain' \in Seq(Events) /\ todo' \in [Turns -> (Nat \ {0}) \X Nat]
      /\ ChainOK' /\ \A e : InChain(e)' => InChain(e)
      /\ pc' = pc /\ copy' = copy /\ pending' = pending
      /\ \A t \in Turns : todo'[t][2] = todo[t][2]
      /\ \A t \in Turns \ {who} : todo'[t] = todo[t]
      /\ who # NoTurn => chain' = chain
      /\ \A t \in Turns : pc[t] = "replaying" =>
            \A m \in 1..todo'[t][1] - 1 : <<t, m>> \in db.claimed
  BY <1>0, <1>1, AdvanceOK
<1>3. Typed' BY <1>0, <1>1, <1>2 DEF Typed
<1>4. StoreOK(db, run, edits)' /\ RunsOK' /\ ClaimsOK' /\ ActivitiesEnd' /\ ReadersAgree' /\ ReplyFollowsEvents'
  <2>1. StoreOK(db, run, edits)' BY <1>0, <1>1
  <2>2. RunsOK' BY <1>0, <1>1 DEF RunsOK, OneTurnAtATime, up
  <2>3. ClaimsOK' /\ ActivitiesEnd' /\ ReadersAgree' BY <1>0, <1>1 DEF ClaimsOK, ActivitiesEnd, ReadersAgree, up
  <2>4. ReplyFollowsEvents' BY <1>0, <1>1 DEF ReplyFollowsEvents, Going, Applied, up
  <2> QED BY <2>1, <2>2, <2>3, <2>4
<1>5. SendingOK'
  <2>1. /\ \A t \in Turns : pc'[t] # "idle" => up' /\ ConvOf[t] \in pending'
        /\ \A s, t \in Turns : pc'[s] # "idle" /\ pc'[t] # "idle" /\ ConvOf[s] = ConvOf[t] => s = t
        /\ \A t \in Turns : InCreate(t)' =>
              /\ t \in db.user
              /\ db.conv[ConvOf[t]].active = NoTurn
              /\ db.conv[ConvOf[t]].status # "absent"
              /\ db.reply[t].status = "queued"
              /\ copy[t].active = NoTurn /\ copy[t].status \notin {"absent", "responding", "archived"}
              /\ copy[t].title <= edits
    BY <1>0, <1>1, <1>2 DEF SendingOK, InCreate, up
  <2>2. /\ \A t \in Turns : pc'[t] = "creating" => run'[t].status = "none"
        /\ \A t \in Turns : pc'[t] = "created" =>
              run'[t].live /\ run'[t].status = "open" /\ run'[t].log = <<"created">> /\ ~run'[t].waiting
    BY <1>0, <1>1, <1>2 DEF SendingOK
  <2>3. \A t \in Turns : pc'[t] = "replaying" =>
           /\ todo'[t][2] <= Len(run'[t].log)
           /\ \A m \in 1..todo'[t][1] - 1 : <<t, m>> \in db'.claimed
    BY <1>0, <1>1, <1>2 DEF SendingOK
  <2>4. up' BY <1>1 DEF up
  <2> QED BY <1>1, <1>2, <2>1, <2>2, <2>3, <2>4 DEF SendingOK
<1>6. \A s : Alive(s)' <=> Alive(s) BY <1>1, <1>2 DEF Alive
<1>7. InflightOK'
  <2>1. ASSUME NEW i \in DOMAIN inflight PROVE InflightAt(i)'
    <3>1. InflightAt(i) BY <1>0 DEF InflightOK
    <3>2. inflight[i].by # who /\ inflight[i].by \in Consumers BY <1>0, <1>1, InflightTyped DEF Busy
    <3>3. inflight[i].by = NoTurn => chain' = chain BY <1>2, <3>2
    <3>4. inflight[i].by # NoTurn => todo'[inflight[i].by] = todo[inflight[i].by]
      BY <1>2, <3>2 DEF Consumers
    <3> QED BY <1>1, <1>2, <1>6, <3>1, <3>3, <3>4 DEF InflightAt
  <2> QED BY <1>0, <1>1, <2>1 DEF InflightOK
<1>8. OverOK' BY <1>0, <1>1, <1>2, <1>6 DEF OverOK, up
<1>9. ActiveOK' BY <1>0, <1>1, <1>2 DEF ActiveOK, up
<1> QED BY <1>2, <1>3, <1>4, <1>5, <1>7, <1>8, <1>9 DEF ConversationInv, QueuesOK

LEMMA ReturnStep ==
    ASSUME ConversationInv, NEW t \in Turns, SendReturns(t)
    PROVE  ConversationInv'
<1> USE DEF process, bounds
<1>0. /\ Typed /\ StoreOK(db, run, edits) /\ RunsOK /\ SendingOK /\ ClaimsOK /\ ChainOK /\ InflightOK
      /\ OverOK /\ ActiveOK /\ ReplyFollowsEvents /\ ActivitiesEnd /\ ReadersAgree
  BY DEF ConversationInv, QueuesOK
<1>1. /\ pc[t] = "replaying" /\ ~(todo[t][1] <= todo[t][2])
      /\ pc' = [pc EXCEPT ![t] = "idle"] /\ pending' = pending \ {ConvOf[t]}
      /\ copy' = [copy EXCEPT ![t] = NoConv] /\ todo' = [todo EXCEPT ![t] = <<1, 0>>]
      /\ UNCHANGED <<db, run, chain, inflight, process, bounds>>
  <2>1. todo[t] \in (Nat \ {0}) \X Nat BY <1>0 DEF Typed
  <2> QED BY <2>1 DEF SendReturns, EndSend
<1>2. /\ pc'[t] = "idle" /\ \A s \in Turns \ {t} : pc'[s] = pc[s] /\ copy'[s] = copy[s] /\ todo'[s] = todo[s]
  BY <1>0, <1>1 DEF Typed
<1>3. Typed'
  <2>1. NoConv \in ConvRec BY DEF NoConv, ConvRec, Statuses
  <2>2. <<1, 0>> \in (Nat \ {0}) \X Nat OBVIOUS
  <2> QED BY <1>0, <1>1, <2>1, <2>2 DEF Typed
<1>4. StoreOK(db, run, edits)' /\ RunsOK' /\ ClaimsOK' /\ ActivitiesEnd' /\ ReadersAgree' /\ ReplyFollowsEvents'
  <2>1. StoreOK(db, run, edits)' BY <1>0, <1>1
  <2>2. RunsOK' BY <1>0, <1>1 DEF RunsOK, OneTurnAtATime, up
  <2>3. ClaimsOK' /\ ActivitiesEnd' /\ ReadersAgree' BY <1>0, <1>1 DEF ClaimsOK, ActivitiesEnd, ReadersAgree, up
  <2>4. ReplyFollowsEvents' BY <1>0, <1>1 DEF ReplyFollowsEvents, Going, Applied, up
  <2> QED BY <2>1, <2>2, <2>3, <2>4
<1>5. SendingOK'
  <2>1. \A s \in Turns : pc'[s] # "idle" => s # t /\ pc[s] = pc'[s] /\ ConvOf[s] # ConvOf[t]
    BY <1>0, <1>1, <1>2 DEF SendingOK
  <2>2. up /\ up' BY <1>0, <1>1 DEF SendingOK, up
  <2> QED BY <1>0, <1>1, <1>2, <2>1, <2>2 DEF SendingOK, InCreate
<1>6. \A s \in Turns : Alive(s)' <=> Alive(s) BY <1>1, <1>2 DEF Alive
<1>7. ChainOK' BY <1>0, <1>1, ChainStays
<1>8. InflightOK'
  <2>1. ASSUME NEW i \in DOMAIN inflight PROVE InflightAt(i)'
    <3>1. InflightAt(i) BY <1>0 DEF InflightOK
    <3>2. inflight[i].by \in Consumers /\ inflight[i].event[1] \in Turns BY <1>0, InflightTyped
    <3>3. inflight[i].by # t
      <4>1. t # NoTurn OBVIOUS
      <4> QED BY <1>1, <3>1, <4>1 DEF InflightAt
    <3>4. inflight[i].by # NoTurn => /\ todo'[inflight[i].by] = todo[inflight[i].by]
                                     /\ pc'[inflight[i].by] = pc[inflight[i].by]
      BY <1>2, <3>2, <3>3 DEF Consumers
    <3> QED BY <1>1, <1>6, <3>1, <3>2, <3>4 DEF InflightAt
  <2> QED BY <1>0, <1>1, <2>1 DEF InflightOK
<1>9. OverOK' BY <1>0, <1>1, <1>2, <1>6 DEF OverOK, InChain, up
<1>10. ActiveOK' BY <1>0, <1>1, <1>2 DEF ActiveOK, up
<1> QED BY <1>3, <1>4, <1>5, <1>7, <1>8, <1>9, <1>10 DEF ConversationInv, QueuesOK

\* What a consumer is about to claim: the first event of its turn that nobody has.
LEMMA NextEvent ==
    ASSUME ConversationInv, up, NEW who \in Consumers, Offered(who), EventFor(who) \notin db.claimed
    PROVE  \E t \in Turns, m \in Nat \ {0} :
              /\ EventFor(who) = <<t, m>> /\ <<t, m>> \in Events /\ Alive(t)
              /\ m <= Len(run[t].log)
              /\ \A k \in 1..m - 1 : <<t, k>> \in db.claimed
              /\ \A k \in Nat : <<t, k>> \in db.claimed => k < m
<1>0. Typed /\ ChainOK /\ SendingOK /\ OverOK /\ ClaimsOK BY DEF ConversationInv, QueuesOK
<1>1. ASSUME NEW t \in Turns, NEW m \in Nat \ {0}, EventFor(who) = <<t, m>>
      PROVE  \A k \in Nat : <<t, k>> \in db.claimed => k < m
  <2> SUFFICES ASSUME NEW k \in Nat, <<t, k>> \in db.claimed, ~(k < m) PROVE FALSE OBVIOUS
  <2>1. m \in 1..k OBVIOUS
  <2> QED BY <1>0, <1>1, <2>1 DEF ClaimsOK
<1>2. CASE who = NoTurn
  <2>1. chain # <<>> /\ EventFor(who) = Head(chain) BY <1>2 DEF Offered, EventFor
  <2>2. chain \in Seq(Events) BY <1>0 DEF Typed
  <2>3. 1 \in DOMAIN chain /\ EventFor(who) = chain[1] BY <2>1, <2>2
  <2>4. chain[1] \in Events /\ chain[1][1] \in Turns /\ chain[1][2] \in Nat \ {0}
        /\ chain[1] = <<chain[1][1], chain[1][2]>>
    BY <1>0, <2>3, ChainTyped
  <2>5. PICK t \in Turns, m \in Nat \ {0} : t = chain[1][1] /\ m = chain[1][2] /\ chain[1] = <<t, m>>
    BY <2>4
  <2>6. ChainAt(1) BY <1>0, <2>3 DEF ChainOK
  <2>7. m <= Len(run[t].log) /\ \A k \in 1..m - 1 : <<t, k>> \in db.claimed BY <2>5, <2>6 DEF ChainAt
  <2>8. Alive(t)
    <3>1. InChain(<<t, m>>) BY <2>3, <2>5 DEF InChain
    <3>2. <<t, m>> \notin db.claimed BY <2>3, <2>5
    <3> QED BY <1>0, <3>1, <3>2 DEF OverOK
  <2>9. EventFor(who) = <<t, m>> /\ <<t, m>> \in Events BY <2>3, <2>4, <2>5
  <2> QED BY <1>1, <2>7, <2>8, <2>9
<1>3. CASE who # NoTurn
  <2>1. who \in Turns /\ pc[who] = "replaying" /\ todo[who][1] <= todo[who][2] BY <1>3 DEF Offered, Consumers
  <2>2. todo[who] \in (Nat \ {0}) \X Nat BY <1>0, <2>1 DEF Typed
  <2>3. PICK m \in Nat \ {0} : m = todo[who][1] /\ EventFor(who) = <<who, m>> BY <1>3, <2>2 DEF EventFor
  <2>4. todo[who][2] \in Nat BY <2>2
  <2>5. todo[who][2] <= Len(run[who].log) BY <1>0, <2>1 DEF SendingOK
  <2>6. Len(run[who].log) \in Nat
    <3>1. run[who].log \in Seq(EventKinds) BY <1>0, <2>1 DEF Typed, RunRec
    <3> QED BY <3>1
  <2>7. m <= Len(run[who].log) BY <2>1, <2>3, <2>4, <2>5, <2>6
  <2>8. \A k \in 1..m - 1 : <<who, k>> \in db.claimed BY <1>0, <2>1, <2>3 DEF SendingOK
  <2>9. Alive(who)
    <3>1. m \in 1..todo[who][2] BY <2>1, <2>3, <2>4
    <3> QED BY <1>0, <2>1, <2>3, <3>1 DEF OverOK
  <2>10. <<who, m>> \in Events BY <2>1 DEF Events
  <2> QED BY <1>1, <2>1, <2>3, <2>7, <2>8, <2>9, <2>10
<1> QED BY <1>2, <1>3

LEMMA ClaimStep ==
    ASSUME ConversationInv, NEW who \in Consumers, ClaimEvent(who)
    PROVE  ConversationInv'
<1> USE DEF sendVars, process, bounds
<1>0. /\ Typed /\ StoreOK(db, run, edits) /\ RunsOK /\ SendingOK /\ ClaimsOK /\ ChainOK /\ InflightOK
      /\ OverOK /\ ActiveOK /\ ReplyFollowsEvents /\ ActivitiesEnd /\ ReadersAgree
  BY DEF ConversationInv, QueuesOK
<1>1. /\ up /\ ~Busy(who) /\ Offered(who) /\ EventFor(who) \notin db.claimed
      /\ db' = [db EXCEPT !.claimed = @ \cup {EventFor(who)}]
      /\ inflight' = Append(inflight, [by |-> who, event |-> EventFor(who)])
      /\ UNCHANGED <<run, chain, sendVars, process, bounds>>
  BY DEF ClaimEvent, Claim
<1>2. PICK t \in Turns, m \in Nat \ {0} :
         /\ EventFor(who) = <<t, m>> /\ <<t, m>> \in Events /\ Alive(t)
         /\ m <= Len(run[t].log)
         /\ \A k \in 1..m - 1 : <<t, k>> \in db.claimed
         /\ \A k \in Nat : <<t, k>> \in db.claimed => k < m
  BY <1>1, NextEvent
<1>3. /\ db \in DB /\ db' \in DB
      /\ db'.conv = db.conv /\ db'.user = db.user /\ db'.reply = db.reply /\ db'.act = db.act
      /\ db'.seen = db.seen /\ db'.claimed = db.claimed \cup {<<t, m>>}
      /\ <<t, m>> \notin db.claimed
  BY <1>0, <1>1, <1>2 DEF Typed, DB
<1>4. /\ inflight \in Seq([by : Consumers, event : Events]) /\ Len(inflight) \in Nat
      /\ inflight' \in Seq([by : Consumers, event : Events])
      /\ DOMAIN inflight = 1..Len(inflight) /\ DOMAIN inflight' = 1..Len(inflight) + 1
      /\ \A i \in 1..Len(inflight) : inflight'[i] = inflight[i]
      /\ inflight'[Len(inflight) + 1] = [by |-> who, event |-> <<t, m>>]
  <2>1. inflight \in Seq([by : Consumers, event : Events]) BY <1>0 DEF Typed
  <2>2. [by |-> who, event |-> <<t, m>>] \in [by : Consumers, event : Events] BY <1>2
  <2>3. inflight' \in Seq([by : Consumers, event : Events]) /\ Len(inflight') = Len(inflight) + 1
    BY <1>1, <1>2, <2>1, <2>2
  <2>4. DOMAIN inflight' = 1..Len(inflight') BY <2>3
  <2> QED BY <1>1, <1>2, <2>1, <2>3, <2>4
<1>5. Typed' BY <1>0, <1>1, <1>3, <1>4 DEF Typed
<1>6. StoreOK(db, run, edits)'
  <2>1. Untouched(db, run, t) /\ Bare(db, run, t) /\ EndsWell(db, run, t) /\ ConvOK(db, ConvOf[t], edits)
    BY <1>0 DEF StoreOK
  <2>2. Untouched(db', run, t) /\ EndsWell(db', run, t) /\ ConvOK(db', ConvOf[t], edits)
    BY <1>3, <2>1 DEF Untouched, EndsWell, ConvOK
  <2>3. Bare(db', run, t)
    <3>1. db.conv[ConvOf[t]].active # t => m = 1
      <4> SUFFICES ASSUME db.conv[ConvOf[t]].active # t PROVE m = 1 OBVIOUS
      <4>1. pc[t] = "created" BY <1>2 DEF Alive
      <4>2. run[t].log = <<"created">> BY <1>0, <4>1 DEF SendingOK
      <4>3. Len(<<"created">>) = 1 OBVIOUS
      <4> QED BY <1>2, <4>2, <4>3
    <3> QED BY <1>3, <2>1, <3>1 DEF Bare
  <2>4. \A s \in Turns \ {t}, k \in Nat : <<s, k>> \in db'.claimed => <<s, k>> \in db.claimed BY <1>3
  <2>5. edits \in Nat /\ edits <= edits BY <1>0 DEF Typed
  <2>6. StoreOK(db', run, edits) BY <1>0, <1>3, <2>2, <2>3, <2>4, <2>5, OneTurnMoves
  <2> QED BY <1>1, <2>6
<1>7. RunsOK' BY <1>0, <1>1 DEF RunsOK, OneTurnAtATime, up
<1>8. SendingOK'
  <2>1. \A e : e \in db.claimed => e \in db'.claimed BY <1>3
  <2>2. ASSUME NEW s \in Turns, pc'[s] = "replaying"
        PROVE  /\ todo'[s][2] <= Len(run'[s].log)
               /\ \A k \in 1..todo'[s][1] - 1 : <<s, k>> \in db'.claimed
    BY <1>0, <1>1, <2>1, <2>2 DEF SendingOK
  <2>3. \A s \in Turns : InCreate(s)' <=> InCreate(s) BY <1>1 DEF InCreate
  <2> QED BY <1>0, <1>1, <1>3, <2>2, <2>3 DEF SendingOK, up
<1>9. ClaimsOK'
  <2> SUFFICES ASSUME NEW s \in Turns, NEW k \in Nat, <<s, k>> \in db'.claimed
               PROVE  k <= Len(run'[s].log) /\ \A i \in 1..k : <<s, i>> \in db'.claimed
    BY DEF ClaimsOK
  <2>1. CASE <<s, k>> \in db.claimed BY <1>0, <1>1, <1>3, <2>1 DEF ClaimsOK
  <2>2. CASE s = t /\ k = m
    <3>1. \A i \in 1..m : i = m \/ i \in 1..m - 1 OBVIOUS
    <3> QED BY <1>1, <1>2, <1>3, <2>2, <3>1
  <2> QED BY <1>3, <2>1, <2>2
<1>10. ChainOK' /\ \A e : InChain(e)' <=> InChain(e) BY <1>0, <1>1, <1>3, ChainStays
<1>11. \A s : Alive(s)' <=> Alive(s) BY <1>1, <1>3 DEF Alive
<1>12. InflightOK'
  <2>1. ASSUME NEW i \in 1..Len(inflight) PROVE InflightAt(i)'
    <3>1. InflightAt(i) BY <1>0, <1>4 DEF InflightOK
    <3>2. inflight'[i] = inflight[i] BY <1>4
    <3>3. inflight[i].event[1] \in Turns BY <1>0, <1>4, InflightTyped
    <3>4. ASSUME NEW k \in Nat, k > inflight[i].event[2], <<inflight[i].event[1], k>> \in db'.claimed
          PROVE  \E j \in DOMAIN inflight' : inflight'[j].event = <<inflight[i].event[1], k>>
      <4>1. CASE <<inflight[i].event[1], k>> \in db.claimed
        <5>1. PICK j \in DOMAIN inflight : inflight[j].event = <<inflight[i].event[1], k>>
          BY <3>1, <3>4, <4>1 DEF InflightAt
        <5>2. j \in DOMAIN inflight' /\ inflight'[j] = inflight[j] BY <1>4
        <5> QED BY <5>1, <5>2
      <4>2. CASE <<inflight[i].event[1], k>> = <<t, m>>
        <5>1. Len(inflight) + 1 \in DOMAIN inflight' /\ inflight'[Len(inflight) + 1].event = <<t, m>> BY <1>4
        <5> QED BY <4>2, <5>1
      <4> QED BY <1>3, <3>4, <4>1, <4>2
    <3>5. inflight[i].event \in db'.claimed BY <1>3, <3>1 DEF InflightAt
    <3> QED BY <1>1, <1>11, <3>1, <3>2, <3>4, <3>5 DEF InflightAt
  <2>2. ASSUME NEW i, i = Len(inflight) + 1 PROVE InflightAt(i)'
    <3>1. inflight'[i].by = who /\ inflight'[i].event = <<t, m>> BY <1>4, <2>2
    <3>2. ASSUME NEW k \in Nat, k > m, <<t, k>> \in db'.claimed PROVE FALSE
      <4>1. <<t, k>> \in db.claimed BY <1>3, <3>2
      <4> QED BY <1>2, <3>2, <4>1
    <3>3. who = NoTurn => chain # <<>> /\ <<t, m>> = Head(chain) BY <1>1, <1>2 DEF Offered, EventFor
    <3>4. who # NoTurn => pc[who] = "replaying" /\ <<t, m>> = <<who, todo[who][1]>>
                          /\ todo[who][1] <= todo[who][2]
      BY <1>1, <1>2 DEF Offered, EventFor
    <3>5. <<t, m>> \in db'.claimed /\ Alive(t)' BY <1>2, <1>3, <1>11
    <3>6. <<t, m>>[1] = t /\ <<t, m>>[2] = m OBVIOUS
    <3>7. \A k \in Nat : ~(k > m /\ <<t, k>> \in db'.claimed) BY <3>2
    <3>8. chain' = chain /\ pc' = pc /\ todo' = todo BY <1>1
    <3>9. /\ inflight'[i].by = NoTurn => chain' # <<>> /\ inflight'[i].event = Head(chain')
          /\ inflight'[i].by # NoTurn =>
                /\ pc'[inflight'[i].by] = "replaying"
                /\ inflight'[i].event = <<inflight'[i].by, todo'[inflight'[i].by][1]>>
                /\ todo'[inflight'[i].by][1] <= todo'[inflight'[i].by][2]
      BY <3>1, <3>3, <3>4, <3>8
    <3> QED BY <3>1, <3>5, <3>6, <3>7, <3>9 DEF InflightAt
  <2>3. ASSUME NEW i \in DOMAIN inflight', NEW j \in DOMAIN inflight', i < j
        PROVE  /\ inflight'[i].by # inflight'[j].by
               /\ inflight'[i].event[1] = inflight'[j].event[1] =>
                     inflight'[i].event[2] < inflight'[j].event[2]
    <3>1. i \in DOMAIN inflight /\ inflight'[i] = inflight[i] BY <1>4, <2>3
    <3>2. CASE j \in DOMAIN inflight
      <4>1. inflight'[j] = inflight[j] BY <1>4, <3>2
      <4> QED BY <1>0, <2>3, <3>1, <3>2, <4>1 DEF InflightOK
    <3>3. CASE j = Len(inflight) + 1
      <4>1. inflight'[j].by = who /\ inflight'[j].event = <<t, m>> BY <1>4, <3>3
      <4>2. inflight[i].by # who BY <1>1, <3>1 DEF Busy
      <4>3. inflight[i].event \in db.claimed BY <1>0, <3>1 DEF InflightOK, InflightAt
      <4>4. /\ inflight[i].event[2] \in Nat
            /\ inflight[i].event = <<inflight[i].event[1], inflight[i].event[2]>>
        BY <1>0, <3>1, InflightTyped
      <4>5. inflight[i].event[1] = t => inflight[i].event[2] < m BY <1>2, <4>3, <4>4
      <4>6. <<t, m>>[1] = t /\ <<t, m>>[2] = m OBVIOUS
      <4> QED BY <3>1, <4>1, <4>2, <4>5, <4>6
    <3> QED BY <1>4, <3>2, <3>3
  <2>4. \A i \in DOMAIN inflight' : i \in 1..Len(inflight) \/ i = Len(inflight) + 1 BY <1>4
  <2>5. \A i \in DOMAIN inflight' : InflightAt(i)' BY <2>1, <2>2, <2>4
  <2> QED BY <2>3, <2>5 DEF InflightOK
<1>13. OverOK' BY <1>0, <1>1, <1>3, <1>10, <1>11 DEF OverOK, up
<1>14. ActiveOK' BY <1>0, <1>1, <1>3 DEF ActiveOK, up
<1>15. ReplyFollowsEvents'
  <2> SUFFICES ASSUME NEW s \in Turns, Going(s)' PROVE Follows(s)'
    BY DEF ReplyFollowsEvents, Follows
  <2>1. Follows(s) BY <1>0, <1>1, <1>3, FollowsIs DEF Going
  <2>2. ASSUME NEW i \in Nat PROVE i \in Applied(s)' <=> i \in Applied(s)
    <3>1. CASE <<s, i>> = <<t, m>>
      <4>1. i \notin Applied(s) BY <1>3, <3>1 DEF Applied
      <4>2. Len(inflight) + 1 \in DOMAIN inflight' /\ inflight'[Len(inflight) + 1].event = <<s, i>>
        BY <1>4, <3>1
      <4>3. i \notin Applied(s)' BY <4>2 DEF Applied
      <4> QED BY <4>1, <4>3
    <3>2. CASE <<s, i>> # <<t, m>>
      <4>1. <<s, i>> \in db'.claimed <=> <<s, i>> \in db.claimed BY <1>3, <3>2
      <4>2. (\A k \in DOMAIN inflight' : inflight'[k].event # <<s, i>>)
              <=> (\A k \in DOMAIN inflight : inflight[k].event # <<s, i>>)
        <5>1. \A k \in DOMAIN inflight : k \in DOMAIN inflight' /\ inflight'[k] = inflight[k] BY <1>4
        <5>2. \A k \in DOMAIN inflight' : k \in DOMAIN inflight \/ inflight'[k].event = <<t, m>> BY <1>4
        <5> QED BY <3>2, <5>1, <5>2
      <4> QED BY <1>1, <4>1, <4>2 DEF Applied
    <3> QED BY <3>1, <3>2
  <2>3. Applied(s)' = Applied(s)
    <3>1. \A i \in Applied(s) : i \in Nat BY DEF Applied
    <3>2. \A i \in Applied(s)' : i \in Nat BY DEF Applied
    <3> QED BY <2>2, <3>1, <3>2
  <2> QED BY <1>1, <1>3, <2>1, <2>3 DEF Follows
<1>16. ActivitiesEnd' /\ ReadersAgree' BY <1>0, <1>1, <1>3 DEF ActivitiesEnd, ReadersAgree, up
<1> QED BY <1>5, <1>6, <1>7, <1>8, <1>9, <1>10, <1>12, <1>13, <1>14, <1>15, <1>16
        DEF ConversationInv, QueuesOK

\* The event that is applied next: all before it has been applied, nothing after it.
LEMMA Arrives ==
    ASSUME ConversationInv, inflight # <<>>
    PROVE  \E t \in Turns, m \in Nat \ {0}, who \in Consumers :
              /\ Head(inflight).event = <<t, m>> /\ Head(inflight).by = who
              /\ inflight[1].event = <<t, m>> /\ inflight[1].by = who
              /\ Offered(who) /\ EventFor(who) = <<t, m>> /\ <<t, m>> \in db.claimed /\ Alive(t)
              /\ m <= Len(run[t].log)
              /\ Applied(t) = 1..m - 1
              /\ \A i \in 2..Len(inflight) :
                    /\ inflight[i].by # who
                    /\ inflight[i].event[1] = t => inflight[i].event[2] > m
<1>0. Typed /\ ChainOK /\ InflightOK /\ ClaimsOK BY DEF ConversationInv, QueuesOK
<1>1. inflight \in Seq([by : Consumers, event : Events]) BY <1>0 DEF Typed
<1>2. Len(inflight) \in Nat /\ 1 \in DOMAIN inflight /\ DOMAIN inflight = 1..Len(inflight)
      /\ Head(inflight) = inflight[1]
  BY <1>1
<1>3. /\ inflight[1].by \in Consumers
      /\ inflight[1].event[1] \in Turns /\ inflight[1].event[2] \in Nat \ {0}
      /\ inflight[1].event = <<inflight[1].event[1], inflight[1].event[2]>>
  BY <1>0, <1>2, InflightTyped
<1>4. PICK t \in Turns, m \in Nat \ {0}, who \in Consumers :
         /\ inflight[1].by = who /\ inflight[1].event = <<t, m>>
         /\ inflight[1].event[1] = t /\ inflight[1].event[2] = m
  BY <1>3
<1>5. InflightAt(1) BY <1>0, <1>2 DEF InflightOK
<1>6. /\ <<t, m>> \in db.claimed /\ Alive(t)
      /\ who = NoTurn => chain # <<>> /\ <<t, m>> = Head(chain)
      /\ who # NoTurn => pc[who] = "replaying" /\ <<t, m>> = <<who, todo[who][1]>> /\ todo[who][1] <= todo[who][2]
      /\ \A k \in Nat : k > m /\ <<t, k>> \in db.claimed =>
            \E j \in DOMAIN inflight : inflight[j].event = <<t, k>>
  BY <1>4, <1>5 DEF InflightAt
<1>7. Offered(who) /\ EventFor(who) = <<t, m>> BY <1>6 DEF Offered, EventFor
<1>8. m <= Len(run[t].log) /\ \A k \in 1..m : <<t, k>> \in db.claimed BY <1>0, <1>6 DEF ClaimsOK
<1>9. ASSUME NEW i \in 2..Len(inflight)
      PROVE  /\ inflight[i].by # who
             /\ inflight[i].event[1] = t => inflight[i].event[2] > m
  <2>1. i \in DOMAIN inflight /\ 1 < i BY <1>2
  <2>2. /\ inflight[1].by # inflight[i].by
        /\ inflight[1].event[1] = inflight[i].event[1] => inflight[1].event[2] < inflight[i].event[2]
    BY <1>0, <1>2, <2>1 DEF InflightOK
  <2>3. inflight[i].event[2] \in Nat BY <1>0, <2>1, InflightTyped
  <2> QED BY <1>4, <2>2, <2>3
<1>10. Len(run[t].log) \in Nat
  <2>1. run[t].log \in Seq(EventKinds) BY <1>0 DEF Typed, RunRec
  <2> QED BY <2>1
<1>11. ASSUME NEW k \in 1..Len(run[t].log) PROVE k \in Applied(t) <=> k < m
  <2>1. CASE k < m
    <3>1. <<t, k>> \in db.claimed BY <1>8, <2>1
    <3>2. ASSUME NEW j \in DOMAIN inflight, inflight[j].event = <<t, k>> PROVE FALSE
      <4>1. inflight[j].event[1] = t /\ inflight[j].event[2] = k BY <3>2
      <4>2. j = 1 \/ j \in 2..Len(inflight) BY <1>2
      <4>3. k = m \/ k > m BY <1>4, <1>9, <4>1, <4>2
      <4> QED BY <2>1, <4>3
    <3> QED BY <2>1, <3>1, <3>2 DEF Applied
  <2>2. CASE k = m
    <3>1. k \notin Applied(t) BY <1>2, <1>4, <2>2 DEF Applied
    <3> QED BY <2>2, <3>1
  <2>3. CASE k > m
    <3>1. k \in Nat OBVIOUS
    <3>2. <<t, k>> \in db.claimed => \E j \in DOMAIN inflight : inflight[j].event = <<t, k>>
      BY <1>6, <2>3, <3>1
    <3>3. k \notin Applied(t) BY <3>2 DEF Applied
    <3> QED BY <2>3, <3>3
  <2> QED BY <2>1, <2>2, <2>3
<1>12. Applied(t) = 1..m - 1
  <2>1. \A k \in Applied(t) : k \in 1..Len(run[t].log) BY DEF Applied
  <2>2. \A k \in 1..m - 1 : k \in 1..Len(run[t].log) /\ k < m BY <1>8, <1>10
  <2>3. \A k \in 1..Len(run[t].log) : k < m => k \in 1..m - 1 OBVIOUS
  <2> QED BY <1>11, <2>1, <2>2, <2>3
<1> QED BY <1>2, <1>4, <1>6, <1>7, <1>8, <1>9, <1>12

\* What applying it does to the queues
Drained ==
    /\ run' = run /\ db'.claimed = db.claimed
    /\ inflight' = Tail(inflight) /\ Advance(Head(inflight).by)

LEMMA Drains ==
    ASSUME ConversationInv, up, inflight # <<>>, Drained,
           NEW t \in Turns, NEW m \in Nat \ {0}, Head(inflight).event = <<t, m>>,
           \A s \in Turns : Alive(s) /\ (\E i \in 2..Len(inflight) : inflight[i].event[1] = s) => Alive(s)'
    PROVE  /\ inflight' \in Seq([by : Consumers, event : Events])
           /\ InflightOK'
           /\ Applied(t)' = 1..m
           /\ \A s \in Turns \ {t} : Applied(s)' = Applied(s)
<1>0. /\ Typed /\ ChainOK /\ SendingOK /\ InflightOK /\ ClaimsOK
  BY DEF ConversationInv, QueuesOK
<1>1. PICK who \in Consumers :
         /\ Head(inflight).by = who
         /\ inflight[1].event = <<t, m>> /\ inflight[1].by = who
         /\ Offered(who) /\ EventFor(who) = <<t, m>> /\ <<t, m>> \in db.claimed
         /\ m <= Len(run[t].log)
         /\ Applied(t) = 1..m - 1
         /\ \A i \in 2..Len(inflight) :
               /\ inflight[i].by # who
               /\ inflight[i].event[1] = t => inflight[i].event[2] > m
  <2>1. PICK s \in Turns, k \in Nat \ {0}, who \in Consumers :
         /\ Head(inflight).event = <<s, k>> /\ Head(inflight).by = who
         /\ inflight[1].event = <<s, k>> /\ inflight[1].by = who
         /\ Offered(who) /\ EventFor(who) = <<s, k>> /\ <<s, k>> \in db.claimed /\ Alive(s)
         /\ k <= Len(run[s].log)
         /\ Applied(s) = 1..k - 1
         /\ \A i \in 2..Len(inflight) :
               /\ inflight[i].by # who
               /\ inflight[i].event[1] = s => inflight[i].event[2] > k
    BY Arrives
  <2>2. s = t /\ k = m BY <2>1
  <2> QED BY <2>1, <2>2
<1>2. inflight \in Seq([by : Consumers, event : Events]) /\ Len(inflight) \in Nat
      /\ DOMAIN inflight = 1..Len(inflight)
  BY <1>0 DEF Typed
<1>3. /\ inflight' \in Seq([by : Consumers, event : Events])
      /\ DOMAIN inflight' = 1..Len(inflight) - 1
      /\ \A i \in 1..Len(inflight) - 1 : inflight'[i] = inflight[i + 1]
  <2>1. inflight' \in Seq([by : Consumers, event : Events]) /\ Len(inflight') = Len(inflight) - 1
    BY <1>2 DEF Drained
  <2>2. DOMAIN inflight' = 1..Len(inflight') BY <2>1
  <2> QED BY <1>2, <2>1, <2>2 DEF Drained
<1>4. /\ \A s \in Turns \ {who} : todo'[s] = todo[s]
      /\ who # NoTurn => chain' = chain
      /\ pc' = pc
  BY <1>0, <1>1, AdvanceOK DEF Drained
<1>5. ASSUME NEW i \in DOMAIN inflight' PROVE i + 1 \in DOMAIN inflight /\ i + 1 \in 2..Len(inflight)
                                              /\ inflight'[i] = inflight[i + 1]
  BY <1>2, <1>3
<1>6. ASSUME NEW i \in 2..Len(inflight) PROVE i - 1 \in DOMAIN inflight' /\ inflight'[i - 1] = inflight[i]
  <2>1. i - 1 \in 1..Len(inflight) - 1 /\ (i - 1) + 1 = i BY <1>2
  <2> QED BY <1>3, <2>1
<1>7. ASSUME NEW i \in DOMAIN inflight' PROVE InflightAt(i)'
  <2>1. i + 1 \in DOMAIN inflight /\ i + 1 \in 2..Len(inflight) /\ inflight'[i] = inflight[i + 1] BY <1>5
  <2>2. InflightAt(i + 1) BY <1>0, <2>1 DEF InflightOK
  <2>3. PICK s \in Turns, n \in Nat, by \in Consumers :
           /\ inflight[i + 1].by = by /\ inflight[i + 1].event = <<s, n>>
           /\ inflight[i + 1].event[1] = s /\ inflight[i + 1].event[2] = n
    BY <1>0, <2>1, InflightTyped
  <2>4. /\ <<s, n>> \in db.claimed /\ Alive(s)
        /\ by = NoTurn => chain # <<>> /\ <<s, n>> = Head(chain)
        /\ by # NoTurn => pc[by] = "replaying" /\ <<s, n>> = <<by, todo[by][1]>> /\ todo[by][1] <= todo[by][2]
        /\ \A k \in Nat : k > n /\ <<s, k>> \in db.claimed =>
              \E j \in DOMAIN inflight : inflight[j].event = <<s, k>>
    BY <2>2, <2>3 DEF InflightAt
  <2>5. <<s, n>> \in db'.claimed /\ Alive(s)' BY <2>1, <2>3, <2>4 DEF Drained
  <2>6. by # who BY <1>1, <2>1, <2>3
  <2>7. by = NoTurn => chain' # <<>> /\ <<s, n>> = Head(chain') BY <1>4, <2>4, <2>6
  <2>8. by # NoTurn => pc'[by] = "replaying" /\ <<s, n>> = <<by, todo'[by][1]>> /\ todo'[by][1] <= todo'[by][2]
    BY <1>4, <2>4, <2>6 DEF Consumers
  <2>9. ASSUME NEW k \in Nat, k > n, <<s, k>> \in db'.claimed
        PROVE  \E j \in DOMAIN inflight' : inflight'[j].event = <<s, k>>
    <3>1. PICK j \in DOMAIN inflight : inflight[j].event = <<s, k>> BY <2>4, <2>9 DEF Drained
    <3>2. j # 1
      <4> SUFFICES ASSUME j = 1 PROVE FALSE OBVIOUS
      <4>1. s = t /\ k = m BY <1>1, <3>1
      <4>2. n > m BY <1>1, <2>1, <2>3, <4>1
      <4> QED BY <2>9, <4>1, <4>2
    <3>3. j \in 2..Len(inflight) BY <1>2, <3>2
    <3> QED BY <1>6, <3>1, <3>3
  <2>10. inflight'[i].by = by /\ inflight'[i].event = <<s, n>> BY <2>1, <2>3
  <2>11. <<s, n>>[1] = s /\ <<s, n>>[2] = n OBVIOUS
  <2>12. \A k \in Nat : k > n /\ <<s, k>> \in db'.claimed =>
            \E j \in DOMAIN inflight' : inflight'[j].event = <<s, k>>
    BY <2>9
  <2>13. /\ inflight'[i].by = NoTurn => chain' # <<>> /\ inflight'[i].event = Head(chain')
         /\ inflight'[i].by # NoTurn =>
               /\ pc'[inflight'[i].by] = "replaying"
               /\ inflight'[i].event = <<inflight'[i].by, todo'[inflight'[i].by][1]>>
               /\ todo'[inflight'[i].by][1] <= todo'[inflight'[i].by][2]
    BY <2>7, <2>8, <2>10
  <2> QED BY <2>5, <2>10, <2>11, <2>12, <2>13 DEF InflightAt
<1>8. ASSUME NEW i \in DOMAIN inflight', NEW j \in DOMAIN inflight', i < j
      PROVE  /\ inflight'[i].by # inflight'[j].by
             /\ inflight'[i].event[1] = inflight'[j].event[1] =>
                   inflight'[i].event[2] < inflight'[j].event[2]
  <2>1. i + 1 \in DOMAIN inflight /\ j + 1 \in DOMAIN inflight
        /\ inflight'[i] = inflight[i + 1] /\ inflight'[j] = inflight[j + 1]
    BY <1>5
  <2>2. i + 1 < j + 1 BY <1>3, <1>8
  <2> QED BY <1>0, <2>1, <2>2 DEF InflightOK
<1>9. ASSUME NEW s \in Turns, NEW k \in Nat, <<s, k>> # <<t, m>>
      PROVE  (\A i \in DOMAIN inflight' : inflight'[i].event # <<s, k>>)
                <=> (\A i \in DOMAIN inflight : inflight[i].event # <<s, k>>)
  <2>1. \A i \in DOMAIN inflight : i = 1 \/ i \in 2..Len(inflight) BY <1>2
  <2>2. inflight[1].event # <<s, k>> BY <1>1, <1>9
  <2>3. ASSUME NEW i \in DOMAIN inflight, inflight[i].event = <<s, k>>
        PROVE  \E j \in DOMAIN inflight' : inflight'[j].event = <<s, k>>
    <3>1. i \in 2..Len(inflight) BY <2>1, <2>2, <2>3
    <3> QED BY <1>6, <2>3, <3>1
  <2>4. ASSUME NEW i \in DOMAIN inflight', inflight'[i].event = <<s, k>>
        PROVE  \E j \in DOMAIN inflight : inflight[j].event = <<s, k>>
    <3>1. i + 1 \in DOMAIN inflight /\ inflight'[i] = inflight[i + 1] BY <1>5
    <3> QED BY <2>4, <3>1
  <2> QED BY <2>3, <2>4
<1>10. \A s \in Turns \ {t} : Applied(s)' = Applied(s)
  <2> SUFFICES ASSUME NEW s \in Turns \ {t} PROVE Applied(s)' = Applied(s) OBVIOUS
  <2>1. \A i \in 1..Len(run[s].log) : i \in Nat /\ <<s, i>> # <<t, m>> OBVIOUS
  <2> QED BY <1>9, <2>1 DEF Applied, Drained
<1>11. Applied(t)' = 1..m
  <2>1. Len(run[t].log) \in Nat
    <3>1. run[t].log \in Seq(EventKinds) BY <1>0 DEF Typed, RunRec
    <3> QED BY <3>1
  <2>2. ASSUME NEW k \in 1..Len(run[t].log), k # m PROVE k \in Applied(t)' <=> k \in Applied(t)
    <3>1. <<t, k>> # <<t, m>> /\ k \in Nat BY <2>2
    <3>2. (\A i \in DOMAIN inflight' : inflight'[i].event # <<t, k>>)
            <=> (\A i \in DOMAIN inflight : inflight[i].event # <<t, k>>)
      BY <1>9, <3>1
    <3> QED BY <3>2 DEF Applied, Drained
  <2>3. m \in Applied(t)'
    <3>1. ASSUME NEW i \in DOMAIN inflight', inflight'[i].event = <<t, m>> PROVE FALSE
      <4>1. i + 1 \in 2..Len(inflight) /\ inflight[i + 1].event = <<t, m>> BY <1>5, <3>1
      <4>2. inflight[i + 1].event[1] = t /\ inflight[i + 1].event[2] = m BY <4>1
      <4>3. m > m BY <1>1, <4>1, <4>2
      <4> QED BY <4>3
    <3>2. m \in 1..Len(run[t].log) BY <1>1, <2>1
    <3> QED BY <1>1, <3>1, <3>2 DEF Applied, Drained
  <2>4. \A k \in Applied(t)' : k \in 1..Len(run[t].log) BY DEF Applied, Drained
  <2>5. \A k \in 1..m : k \in 1..Len(run[t].log) /\ (k = m \/ k \in 1..m - 1) BY <1>1, <2>1
  <2>6. \A k \in 1..m - 1 : k \in 1..m OBVIOUS
  <2>7. m \in 1..m OBVIOUS
  <2> QED BY <1>1, <2>2, <2>3, <2>4, <2>5, <2>6, <2>7
<1>12. InflightOK' BY <1>7, <1>8 DEF InflightOK
<1> QED BY <1>3, <1>10, <1>11, <1>12

-----------------------------------------------------------------------------
(* The tables after the statements that apply an event                      *)

\* finishRun, after its first statement and after its second
LEMMA FinishStore ==
    ASSUME db \in DB, edits \in Nat, StoreOK(db, run, edits), NEW t \in Turns,
           db.conv[ConvOf[t]].active = t, run[t].status \in Ended, NEW e \in DB,
           \/ e.conv = db.conv
           \/ e.conv = [db.conv EXCEPT ![ConvOf[t]] = FinalConv(db, ConvOf[t], run[t].status)],
           e.reply = [db.reply EXCEPT ![t] = FinalReply(db, t, run[t].status)],
           e.user = db.user, e.claimed = db.claimed, \A s \in Turns \ {t} : e.act[s] = db.act[s]
    PROVE  StoreOK(e, run, edits)
<1> DEFINE c == ConvOf[t]
           status == run[t].status
<1>0. c \in Convs /\ t # NoTurn /\ NoTurn \notin Turns OBVIOUS
<1>1. db.conv[c] \in ConvRec /\ db.reply[t] \in ReplyRec BY <1>0 DEF DB
<1>2. /\ e.reply[t] = FinalReply(db, t, status) /\ \A s \in Turns \ {t} : e.reply[s] = db.reply[s]
  BY DEF DB
<1>3. /\ \A x \in Convs \ {c} : e.conv[x] = db.conv[x]
      /\ e.conv[c] = db.conv[c] \/ e.conv[c] = FinalConv(db, c, status)
  BY <1>0 DEF DB
<1>4. /\ e.reply[t].status = status
      /\ status = "completed" => e.reply[t].text = <<0>>
  BY <1>1, <1>2 DEF FinalReply, ReplyRec, Ended
<1>5. e.conv[c].active \in {t, NoTurn} /\ e.conv[c].title = db.conv[c].title
      /\ (e.conv[c].active # NoTurn <=> e.conv[c].status = "responding")
      /\ e.conv[c].status # "absent"
  <2>1. ConvOK(db, c, edits) BY <1>0 DEF StoreOK
  <2>2. db.conv[c].status = "responding" BY <1>0, <2>1 DEF ConvOK
  <2>3. /\ FinalConv(db, c, status).active = NoTurn
        /\ FinalConv(db, c, status).status \in {"idle", "error"}
        /\ FinalConv(db, c, status).title = db.conv[c].title
    BY <1>1 DEF FinalConv, ConvRec
  <2> QED BY <1>0, <1>3, <2>2, <2>3
<1>6. Untouched(db, run, t) /\ ConvOK(db, c, edits) BY <1>0 DEF StoreOK
<1>7. Untouched(e, run, t)
  <2>1. db.reply[t].status # "absent" BY <1>6 DEF ConvOK
  <2> QED BY <1>4, <1>6, <2>1 DEF Untouched, Ended
<1>8. Bare(e, run, t) BY <1>4 DEF Bare, Open, Ended
<1>9. EndsWell(e, run, t) BY <1>4 DEF EndsWell
<1>10. ConvOK(e, c, edits)
  <2>1. \A s \in Turns : e.conv[c].active = s => ConvOf[s] = c /\ e.reply[s].status \notin {"absent", "queued"}
    BY <1>0, <1>4, <1>5 DEF Ended
  <2> QED BY <1>5, <1>6, <2>1 DEF ConvOK
<1>11. edits <= edits OBVIOUS
<1> QED BY <1>0, <1>2, <1>3, <1>7, <1>8, <1>9, <1>10, <1>11, OneTurnMoves

\* Tables that a process which dies may leave
Left(z) == z \in DB /\ StoreOK(z, run, edits) /\ z.claimed = db.claimed

LEMMA FinishStops ==
    ASSUME db \in DB, edits \in Nat, StoreOK(db, run, edits), NEW t \in Turns,
           db.conv[ConvOf[t]].active = t, run[t].status \in Ended
    PROVE  \E e \in DB :
              /\ e = After(db, FinishPlan(db, t, run[t].status))
              /\ e.conv = [db.conv EXCEPT ![ConvOf[t]] = FinalConv(db, ConvOf[t], run[t].status)]
              /\ e.reply = [db.reply EXCEPT ![t] = FinalReply(db, t, run[t].status)]
              /\ e.user = db.user /\ e.claimed = db.claimed
              /\ \A s \in Turns \ {t} : e.act[s] = db.act[s]
              /\ e.act[t].work # "running"
              /\ Agree(db) => Agree(e)
              /\ StoreOK(e, run, edits)
              /\ \A z \in Short(db, FinishPlan(db, t, run[t].status)) : Left(z)
<1>0. PICK status : status = run[t].status OBVIOUS
<1>1. PICK e, m \in DB : Finished(db, t, status, e, m) BY FinishPlanIs
<1>11. /\ e = After(db, FinishPlan(db, t, status))
       /\ e.conv = [db.conv EXCEPT ![ConvOf[t]] = FinalConv(db, ConvOf[t], status)]
       /\ e.reply = [db.reply EXCEPT ![t] = FinalReply(db, t, status)]
       /\ e.user = db.user /\ e.claimed = db.claimed
       /\ \A s \in Turns \ {t} : e.act[s] = db.act[s]
       /\ e.act[t].work # "running"
       /\ Agree(db) => Agree(e)
       /\ m = [db EXCEPT !.reply = e.reply]
       /\ \A z \in Short(db, FinishPlan(db, t, status)) :
             \/ z = db
             \/ z = m
             \/ /\ z \in DB /\ z.conv = e.conv /\ z.reply = e.reply
                /\ z.user = db.user /\ z.claimed = db.claimed
                /\ \A s \in Turns \ {t} : z.act[s] = db.act[s]
  BY <1>1 DEF Finished
<1>2. StoreOK(e, run, edits) BY <1>0, <1>11, FinishStore
<1>3. StoreOK(m, run, edits)
  <2>1. /\ m.conv = db.conv /\ m.user = db.user /\ m.claimed = db.claimed /\ m.act = db.act
        /\ m.reply = [db.reply EXCEPT ![t] = FinalReply(db, t, status)]
    BY <1>11 DEF DB
  <2>2. m \in DB BY <1>1
  <2> QED BY <1>0, <2>1, <2>2, FinishStore
<1>4. ASSUME NEW z \in Short(db, FinishPlan(db, t, status)) PROVE Left(z)
  <2>1. CASE z = db BY <2>1 DEF Left
  <2>2. CASE z = m
    <3>1. m.claimed = db.claimed BY <1>11 DEF DB
    <3> QED BY <1>1, <1>3, <2>2, <3>1 DEF Left
  <2>3. CASE /\ z \in DB /\ z.conv = e.conv /\ z.reply = e.reply
             /\ z.user = db.user /\ z.claimed = db.claimed
             /\ \A s \in Turns \ {t} : z.act[s] = db.act[s]
    <3>1. /\ z.conv = [db.conv EXCEPT ![ConvOf[t]] = FinalConv(db, ConvOf[t], status)]
          /\ z.reply = [db.reply EXCEPT ![t] = FinalReply(db, t, status)]
      BY <1>11, <2>3
    <3>2. StoreOK(z, run, edits) BY <1>0, <2>3, <3>1, FinishStore
    <3> QED BY <2>3, <3>2 DEF Left
  <2> QED BY <1>11, <2>1, <2>2, <2>3
<1> QED BY <1>0, <1>11, <1>2, <1>4, Zenon

\* An event of the engine
LEMMA WrittenStore ==
    ASSUME db \in DB, edits \in Nat, StoreOK(db, run, edits), NEW t \in Turns, NEW n \in Nat,
           NEW kind \in EventKinds \ Ended, NEW e \in DB, Written(db, e, t, n, kind),
           db.reply[t].status \in Open, db.conv[ConvOf[t]].active = t \/ kind = "created"
    PROVE  StoreOK(e, run, edits) /\ e.reply[t].status \in Open
<1>0. ConvOf[t] \in Convs OBVIOUS
<1>1. db.reply[t] \in ReplyRec BY DEF DB
<1>2. /\ e.reply[t].status \in Open
      /\ db.reply[t].status # "queued" => e.reply[t].status # "queued"
      /\ kind = "created" => e.reply[t] = db.reply[t] /\ e.act[t] = db.act[t]
  <2>1. CASE kind = "text" BY <1>1, <2>1 DEF Written, ReplyRec, Open
  <2>2. CASE kind = "delta" BY <1>1, <2>2 DEF Written, ReplyRec, Open
  <2>3. CASE kind \notin {"text", "delta"} BY <2>3 DEF Written
  <2> QED BY <2>1, <2>2, <2>3
<1>3. /\ e.conv = db.conv /\ e.user = db.user /\ e.claimed = db.claimed
      /\ \A s \in Turns \ {t} : e.reply[s] = db.reply[s] /\ e.act[s] = db.act[s]
  BY DEF Written
<1>4. Untouched(db, run, t) /\ Bare(db, run, t) /\ ConvOK(db, ConvOf[t], edits) BY <1>0 DEF StoreOK
<1>5. Untouched(e, run, t) BY <1>2, <1>3, <1>4 DEF Untouched, Open
<1>6. Bare(e, run, t) BY <1>2, <1>3, <1>4 DEF Bare
<1>7. EndsWell(e, run, t) BY <1>2 DEF EndsWell, Open, Ended
<1>8. ConvOK(e, ConvOf[t], edits)
  <2>1. \A s \in Turns : db.reply[s].status \notin {"absent", "queued"} => e.reply[s].status \notin {"absent", "queued"}
    BY <1>2, <1>3 DEF Open
  <2> QED BY <1>3, <1>4, <2>1 DEF ConvOK
<1>9. edits <= edits OBVIOUS
<1> QED BY <1>0, <1>2, <1>3, <1>5, <1>6, <1>7, <1>8, <1>9, OneTurnMoves

\* What an applied event leaves to be shown
LEMMA AppliesOK ==
    ASSUME ConversationInv, up, inflight # <<>>, Drained, UNCHANGED <<process, bounds>>,
           NEW t \in Turns, NEW m \in Nat \ {0}, Head(inflight).event = <<t, m>>,
           db' \in DB, StoreOK(db, run, edits)', Agree(db)', db'.user = db.user,
           \A c \in Convs : \/ db'.conv[c] = db.conv[c]
                           \/ (db.conv[c].active = t /\ db'.conv[c].active = NoTurn),
           \A s \in Turns \ {t} : db'.reply[s] = db.reply[s] /\ db'.act[s] = db.act[s],
           pc[t] = "created" => db'.reply[t] = db.reply[t],
           Alive(t)' \/ (~run[t].live /\ m = Len(run[t].log)),
           db'.conv[ConvOf[t]].active = t => db'.reply[t].status \in Open,
           db'.reply[t].status \in Open =>
              /\ Spells(db'.reply[t].text, run[t].log, m)
              /\ db'.act[t].approval = ApprovalOf(run[t].log, m),
           db'.reply[t].status \in Ended => db'.act[t].work # "running"
    PROVE  ConversationInv'
<1>0. /\ Typed /\ RunsOK /\ SendingOK /\ ClaimsOK /\ ChainOK /\ InflightOK
      /\ OverOK /\ ActiveOK /\ ReplyFollowsEvents /\ ActivitiesEnd /\ StoreOK(db, run, edits)
  BY DEF ConversationInv, QueuesOK
<1>1. PICK who \in Consumers :
         /\ Head(inflight).by = who /\ Offered(who) /\ EventFor(who) = <<t, m>> /\ <<t, m>> \in db.claimed
         /\ Alive(t) /\ m <= Len(run[t].log)
         /\ \A i \in 2..Len(inflight) : inflight[i].event[1] = t => inflight[i].event[2] > m
  <2>1. PICK s \in Turns, k \in Nat \ {0}, who \in Consumers :
         /\ Head(inflight).event = <<s, k>> /\ Head(inflight).by = who
         /\ inflight[1].event = <<s, k>> /\ inflight[1].by = who
         /\ Offered(who) /\ EventFor(who) = <<s, k>> /\ <<s, k>> \in db.claimed /\ Alive(s)
         /\ k <= Len(run[s].log)
         /\ Applied(s) = 1..k - 1
         /\ \A i \in 2..Len(inflight) :
               /\ inflight[i].by # who
               /\ inflight[i].event[1] = s => inflight[i].event[2] > k
    BY Arrives
  <2>2. s = t /\ k = m BY <2>1
  <2> QED BY <2>1, <2>2
<1>2. run' = run /\ db'.claimed = db.claimed /\ Advance(who) BY <1>1 DEF Drained
<1>3. /\ chain' \in Seq(Events) /\ todo' \in [Turns -> (Nat \ {0}) \X Nat]
      /\ ChainOK' /\ \A e : InChain(e)' => InChain(e)
      /\ pc' = pc /\ copy' = copy /\ pending' = pending
      /\ \A s \in Turns : todo'[s][2] = todo[s][2]
      /\ \A s \in Turns \ {who} : todo'[s] = todo[s]
      /\ who # NoTurn => chain' = chain
      /\ \A s \in Turns : pc[s] = "replaying" =>
            \A k \in 1..todo'[s][1] - 1 : <<s, k>> \in db.claimed
  BY <1>0, <1>1, <1>2, AdvanceOK
<1>4. /\ node' = node /\ listed' = listed /\ edits' = edits /\ crashes' = crashes BY DEF process, bounds
<1>5. up' BY <1>4 DEF up
<1>6. ASSUME NEW s \in Turns \ {t}
      PROVE  /\ Alive(s)' <=> Alive(s)
             /\ db'.conv[ConvOf[s]].active = s <=> db.conv[ConvOf[s]].active = s
  <2>1. ConvOf[s] \in Convs /\ s # NoTurn OBVIOUS
  <2>2. db'.conv[ConvOf[s]].active = s <=> db.conv[ConvOf[s]].active = s BY <2>1
  <2> QED BY <1>3, <2>2 DEF Alive
<1>7. \A i \in 2..Len(inflight) : inflight[i].event[1] = t => Alive(t)'
  <2> SUFFICES ASSUME NEW i \in 2..Len(inflight), inflight[i].event[1] = t, m = Len(run[t].log) PROVE FALSE
    OBVIOUS
  <2>1. inflight[i].event[2] > m BY <1>1
  <2>2. i \in DOMAIN inflight
    <3>1. inflight \in Seq([by : Consumers, event : Events]) BY <1>0 DEF Typed
    <3> QED BY <3>1
  <2>3. PICK n \in Nat \ {0} : inflight[i].event = <<t, n>> /\ n = inflight[i].event[2] BY <1>0, <2>2, InflightTyped
  <2>4. <<t, n>> \in db.claimed
    <3>1. InflightAt(i) BY <1>0, <2>2 DEF InflightOK
    <3> QED BY <2>3, <3>1 DEF InflightAt
  <2>5. n <= Len(run[t].log) BY <1>0, <2>4 DEF ClaimsOK
  <2> QED BY <2>1, <2>3, <2>5
<1>8. /\ inflight' \in Seq([by : Consumers, event : Events])
      /\ InflightOK'
      /\ Applied(t)' = 1..m
      /\ \A s \in Turns \ {t} : Applied(s)' = Applied(s)
  <2>1. \A s \in Turns : Alive(s) /\ (\E i \in 2..Len(inflight) : inflight[i].event[1] = s) => Alive(s)'
    BY <1>6, <1>7
  <2> QED BY <2>1, Drains
<1>9. Typed' BY <1>0, <1>2, <1>3, <1>4, <1>8 DEF Typed
<1>10. RunsOK' BY <1>0, <1>2, <1>4 DEF RunsOK, OneTurnAtATime, up
<1>11. SendingOK'
  <2>1. ASSUME NEW s \in Turns, InCreate(s)'
        PROVE  /\ s \in db'.user
               /\ db'.conv[ConvOf[s]].active = NoTurn
               /\ db'.conv[ConvOf[s]].status # "absent"
               /\ db'.reply[s].status = "queued"
               /\ copy'[s].active = NoTurn /\ copy'[s].status \notin {"absent", "responding", "archived"}
               /\ copy'[s].title <= edits'
    <3>1. InCreate(s) BY <1>3, <2>1 DEF InCreate
    <3>2. /\ s \in db.user
          /\ db.conv[ConvOf[s]].active = NoTurn
          /\ db.conv[ConvOf[s]].status # "absent"
          /\ db.reply[s].status = "queued"
          /\ copy[s].active = NoTurn /\ copy[s].status \notin {"absent", "responding", "archived"}
          /\ copy[s].title <= edits
      BY <1>0, <3>1 DEF SendingOK
    <3>3. ConvOf[s] \in Convs /\ t # NoTurn OBVIOUS
    <3>4. db'.conv[ConvOf[s]] = db.conv[ConvOf[s]] BY <3>2, <3>3
    <3>5. s = t => pc[t] = "created"
      <4> SUFFICES ASSUME s = t PROVE pc[t] = "created" OBVIOUS
      <4>1. pc[t] = "created" \/ db.conv[ConvOf[t]].active = t BY <1>1 DEF Alive
      <4> QED BY <3>2, <3>3, <4>1
    <3>6. db'.reply[s] = db.reply[s] BY <3>5
    <3> QED BY <1>3, <1>4, <3>2, <3>4, <3>6
  <2>2. /\ \A s \in Turns : pc'[s] # "idle" => up' /\ ConvOf[s] \in pending'
        /\ \A r, s \in Turns : pc'[r] # "idle" /\ pc'[s] # "idle" /\ ConvOf[r] = ConvOf[s] => r = s
        /\ \A s \in Turns : pc'[s] = "creating" => run'[s].status = "none"
        /\ \A s \in Turns : pc'[s] = "created" =>
              run'[s].live /\ run'[s].status = "open" /\ run'[s].log = <<"created">> /\ ~run'[s].waiting
    BY <1>0, <1>2, <1>3, <1>5 DEF SendingOK
  <2>3. \A s \in Turns : pc'[s] = "replaying" =>
           /\ todo'[s][2] <= Len(run'[s].log)
           /\ \A k \in 1..todo'[s][1] - 1 : <<s, k>> \in db'.claimed
    BY <1>0, <1>2, <1>3 DEF SendingOK
  <2> QED BY <1>5, <2>1, <2>2, <2>3 DEF SendingOK
<1>12. ClaimsOK' BY <1>0, <1>2 DEF ClaimsOK
<1>13. OverOK'
  <2> SUFFICES ASSUME NEW s \in Turns, ~Alive(s)'
               PROVE  /\ ~run[s].live
                      /\ \A k \in Nat : InChain(<<s, k>>)' => <<s, k>> \in db.claimed
                      /\ pc[s] = "replaying" => \A k \in 1..todo'[s][2] : <<s, k>> \in db.claimed
    BY <1>2, <1>3 DEF OverOK
  <2>1. CASE s # t
    <3>1. ~Alive(s) BY <1>6, <2>1
    <3> QED BY <1>0, <1>3, <3>1 DEF OverOK
  <2>2. CASE s = t
    <3>1. ~run[t].live /\ m = Len(run[t].log) BY <2>2
    <3>2. \A k \in Nat \ {0} : k <= m => <<t, k>> \in db.claimed
      <4>1. \A k \in Nat \ {0} : k <= m => k \in 1..m OBVIOUS
      <4> QED BY <1>0, <1>1, <4>1 DEF ClaimsOK
    <3>3. ASSUME NEW k \in Nat, InChain(<<t, k>>) PROVE <<t, k>> \in db.claimed
      <4>1. PICK i \in DOMAIN chain : chain[i] = <<t, k>> BY <3>3 DEF InChain
      <4>2. chain[i][1] = t /\ chain[i][2] = k BY <4>1
      <4>3. k \in Nat \ {0} BY <1>0, <4>1, <4>2, ChainTyped
      <4>4. k <= Len(run[t].log) BY <1>0, <4>1, <4>2 DEF ChainOK, ChainAt
      <4> QED BY <3>1, <3>2, <4>3, <4>4
    <3>4. ASSUME pc[t] = "replaying", NEW k \in 1..todo'[t][2] PROVE <<t, k>> \in db.claimed
      <4>1. todo[t][2] \in Nat /\ todo'[t][2] = todo[t][2] /\ todo[t][2] <= m
        BY <1>0, <1>3, <3>1, <3>4 DEF Typed, SendingOK
      <4>2. k \in Nat \ {0} /\ k <= m BY <4>1
      <4> QED BY <3>2, <4>2
    <3> QED BY <1>3, <2>2, <3>1, <3>3, <3>4
  <2> QED BY <2>1, <2>2
<1>14. ActiveOK'
  <2>1. ASSUME NEW s \in Turns, db'.conv[ConvOf[s]].active = s
        PROVE  pc'[s] \in {"idle", "replaying"} /\ db'.reply[s].status \in Open /\ run'[s].status # "none"
    <3>1. CASE s # t BY <1>0, <1>2, <1>3, <1>6, <2>1, <3>1 DEF ActiveOK
    <3>2. CASE s = t
      <4>1. db'.reply[s].status \in Open BY <2>1, <3>2
      <4>2. ConvOf[t] \in Convs /\ t # NoTurn OBVIOUS
      <4>3. db.conv[ConvOf[t]].active = t BY <2>1, <3>2, <4>2
      <4> QED BY <1>0, <1>2, <1>3, <3>2, <4>1, <4>3 DEF ActiveOK
    <3> QED BY <3>1, <3>2
  <2> QED BY <1>4, <2>1 DEF ActiveOK, up
<1>15. ReplyFollowsEvents'
  <2> SUFFICES ASSUME NEW s \in Turns, Going(s)' PROVE Follows(s)'
    BY DEF ReplyFollowsEvents, Follows
  <2>1. CASE s # t
    <3>1. db'.reply[s] = db.reply[s] /\ db'.act[s] = db.act[s] /\ Applied(s)' = Applied(s) BY <1>8, <2>1
    <3>2. Follows(s) BY <1>0, <1>2, <3>1, FollowsIs DEF Going
    <3> QED BY <1>2, <3>1, <3>2 DEF Follows
  <2>2. CASE s = t
    <3>1. m \in 0..Len(run[t].log)
      <4>1. run[t].log \in Seq(EventKinds) BY <1>0 DEF Typed, RunRec
      <4> QED BY <1>1, <4>1
    <3> QED BY <1>2, <1>8, <2>2, <3>1 DEF Follows, Going
  <2> QED BY <2>1, <2>2
<1>16. ActivitiesEnd'
  <2> SUFFICES ASSUME crashes = 0, NEW s \in Turns, db'.reply[s].status \in Ended
               PROVE  db'.act[s].work # "running"
    BY <1>4 DEF ActivitiesEnd
  <2> QED BY <1>0 DEF ActivitiesEnd
<1>17. ReadersAgree' BY DEF ReadersAgree, Agree
<1> QED BY <1>3, <1>8, <1>9, <1>10, <1>11, <1>12, <1>13, <1>14, <1>15, <1>16, <1>17
        DEF ConversationInv, QueuesOK

LEMMA ApplyStep ==
    ASSUME ConversationInv, ApplyEvent
    PROVE  ConversationInv'
<1>0. /\ Typed /\ StoreOK(db, run, edits) /\ RunsOK /\ SendingOK /\ ActiveOK /\ ReplyFollowsEvents /\ ReadersAgree
  BY DEF ConversationInv
<1>1. /\ up /\ inflight # <<>> /\ UNCHANGED <<process, bounds>>
      /\ run' = run /\ inflight' = Tail(inflight) /\ Advance(Head(inflight).by)
      /\ db' = After(db, ApplyPlan(Head(inflight).event))
  BY DEF ApplyEvent
<1>2. PICK t \in Turns, m \in Nat \ {0} :
         /\ Head(inflight).event = <<t, m>> /\ Alive(t)
         /\ m <= Len(run[t].log) /\ Applied(t) = 1..m - 1
  BY <1>1, Arrives
<1>3. /\ db \in DB /\ edits \in Nat /\ run[t] \in RunRec /\ run[t].log \in Seq(EventKinds) /\ RowOK(run[t])
      /\ Len(run[t].log) \in Nat /\ DOMAIN run[t].log = 1..Len(run[t].log) /\ m \in DOMAIN run[t].log
  <2>1. run[t] \in RunRec /\ db \in DB /\ edits \in Nat /\ RowOK(run[t]) BY <1>0 DEF Typed, RunsOK
  <2>2. run[t].log \in Seq(EventKinds) BY <2>1 DEF RunRec
  <2> QED BY <1>2, <2>1, <2>2
<1>4. PICK kind \in EventKinds : kind = run[t].log[m] BY <1>3
<1>5. ApplyPlan(<<t, m>>) = IF kind \in Ended THEN FinishPlan(db, t, run[t].status) ELSE NormalizePlan(t, m, kind)
  BY <1>4 DEF ApplyPlan
<1>6. Agree(db) BY <1>0, <1>1 DEF ReadersAgree, Agree
<1>7. ConvOf[t] \in Convs /\ t # NoTurn OBVIOUS
<1>8. CASE kind \in Ended
  <2>1. m = Len(run[t].log) /\ ~run[t].live /\ run[t].status = kind BY <1>3, <1>4, <1>8 DEF RowOK
  <2>2. pc[t] # "created" BY <1>0, <2>1 DEF SendingOK
  <2>3. db.conv[ConvOf[t]].active = t BY <1>2, <2>2 DEF Alive
  <2>4. PICK e \in DB :
           /\ e = After(db, FinishPlan(db, t, run[t].status))
           /\ e.conv = [db.conv EXCEPT ![ConvOf[t]] = FinalConv(db, ConvOf[t], run[t].status)]
           /\ e.reply = [db.reply EXCEPT ![t] = FinalReply(db, t, run[t].status)]
           /\ e.user = db.user /\ e.claimed = db.claimed
           /\ \A s \in Turns \ {t} : e.act[s] = db.act[s]
           /\ e.act[t].work # "running"
           /\ Agree(db) => Agree(e)
           /\ StoreOK(e, run, edits)
           /\ \A z \in Short(db, FinishPlan(db, t, run[t].status)) : Left(z)
    BY <1>0, <1>3, <1>8, <2>1, <2>3, FinishStops
  <2>5. db' = e BY <1>1, <1>2, <1>5, <1>8, <2>4
  <2>6. /\ \A s \in Turns \ {t} : e.reply[s] = db.reply[s]
        /\ e.reply[t].status = kind
    <3>1. db.reply[t] \in ReplyRec BY <1>3 DEF DB
    <3>2. e.reply[t] = FinalReply(db, t, run[t].status) BY <1>3, <2>4 DEF DB
    <3>3. e.reply[t].status = kind BY <1>8, <2>1, <3>1, <3>2 DEF FinalReply, ReplyRec, Ended
    <3>4. \A s \in Turns \ {t} : e.reply[s] = db.reply[s] BY <1>3, <2>4 DEF DB
    <3> QED BY <3>3, <3>4
  <2>7. /\ \A c \in Convs \ {ConvOf[t]} : e.conv[c] = db.conv[c]
        /\ e.conv[ConvOf[t]].active = NoTurn
    <3>1. db.conv[ConvOf[t]] \in ConvRec BY <1>3, <1>7 DEF DB
    <3>2. e.conv[ConvOf[t]] = FinalConv(db, ConvOf[t], run[t].status) BY <1>3, <1>7, <2>4 DEF DB
    <3>3. e.conv[ConvOf[t]].active = NoTurn BY <3>1, <3>2 DEF FinalConv, ConvRec
    <3>4. \A c \in Convs \ {ConvOf[t]} : e.conv[c] = db.conv[c] BY <1>3, <2>4 DEF DB
    <3> QED BY <3>3, <3>4
  <2>8. Drained BY <1>1, <2>4, <2>5 DEF Drained
  <2>9. \A c \in Convs : \/ db'.conv[c] = db.conv[c]
                         \/ (db.conv[c].active = t /\ db'.conv[c].active = NoTurn)
    BY <2>3, <2>5, <2>7
  <2>10. StoreOK(db, run, edits)'
    <3>1. run' = run /\ edits' = edits BY <1>1 DEF bounds
    <3>2. StoreOK(db', run, edits) BY <2>4, <2>5
    <3> QED BY <3>1, <3>2
  <2>11. Agree(db)' BY <1>6, <2>4, <2>5
  <2>12. /\ db' \in DB /\ db'.user = db.user
         /\ \A s \in Turns \ {t} : db'.reply[s] = db.reply[s] /\ db'.act[s] = db.act[s]
         /\ db'.conv[ConvOf[t]].active # t
         /\ db'.reply[t].status \notin Open
         /\ db'.act[t].work # "running"
    BY <1>7, <1>8, <2>4, <2>5, <2>6, <2>7 DEF Open, Ended
  <2> QED BY <1>1, <1>2, <2>1, <2>2, <2>8, <2>9, <2>10, <2>11, <2>12, AppliesOK
<1>9. CASE kind \notin Ended
  <2>1. PICK e \in DB :
           /\ e = After(db, NormalizePlan(t, m, kind))
           /\ Written(db, e, t, m, kind)
           /\ Agree(db) => Agree(e)
           /\ \A z \in Short(db, NormalizePlan(t, m, kind)) : z = db \/ Like(z, e)
    BY <1>3, <1>9, NormalizePlanIs
  <2>2. db' = e BY <1>1, <1>2, <1>5, <1>9, <2>1
  <2>3. /\ db.reply[t].status \in Open
        /\ db.conv[ConvOf[t]].active = t \/ kind = "created"
        /\ pc[t] = "created" => kind = "created"
    <3>1. CASE pc[t] = "created"
      <4>1. db.reply[t].status = "queued" /\ run[t].log = <<"created">>
        BY <1>0, <3>1 DEF SendingOK, InCreate
      <4>2. m = 1 BY <1>3, <4>1
      <4>3. kind = "created" BY <1>4, <4>1, <4>2
      <4> QED BY <4>1, <4>3 DEF Open
    <3>2. CASE pc[t] # "created"
      <4>1. db.conv[ConvOf[t]].active = t BY <1>2, <3>2 DEF Alive
      <4> QED BY <1>0, <1>1, <3>2, <4>1 DEF ActiveOK
    <3> QED BY <3>1, <3>2
  <2>4. StoreOK(e, run, edits) /\ e.reply[t].status \in Open
    BY <1>0, <1>3, <1>9, <2>1, <2>3, WrittenStore
  <2>5. /\ e.conv = db.conv /\ e.user = db.user /\ e.claimed = db.claimed
        /\ \A s \in Turns \ {t} : e.reply[s] = db.reply[s] /\ e.act[s] = db.act[s]
        /\ kind = "created" => e.reply[t] = db.reply[t]
    BY <2>1 DEF Written
  <2>6. Drained BY <1>1, <2>2, <2>5 DEF Drained
  <2>7. StoreOK(db, run, edits)'
    <3>1. run' = run /\ edits' = edits BY <1>1 DEF bounds
    <3>2. StoreOK(db', run, edits) BY <2>2, <2>4
    <3> QED BY <3>1, <3>2
  <2>8. Agree(db)' BY <1>6, <2>1, <2>2
  <2>9. Alive(t)'
    <3>1. NoTurn \in Consumers /\ pc' = pc
      <4>1. Head(inflight).by \in Turns \/ Head(inflight).by = NoTurn \/ pc' = pc BY <1>1 DEF Advance
      <4> QED BY <1>1 DEF Advance, sendVars, Consumers
    <3> QED BY <1>2, <2>2, <2>5, <3>1 DEF Alive
  <2>31. run[t].status # "none" BY <1>0, <1>2, <1>3 DEF RunsOK, RowOK
  <2>10. /\ Spells(e.reply[t].text, run[t].log, m)
         /\ e.act[t].approval = ApprovalOf(run[t].log, m)
    <3>1. PICK n \in 0..Len(run[t].log) :
             /\ Applied(t) = 1..n
             /\ Spells(db.reply[t].text, run[t].log, n)
             /\ db.act[t].approval = ApprovalOf(run[t].log, n)
      BY <1>0, <1>1, <2>3, <2>31, FollowsIs DEF Follows, Going
    <3>2. n = m - 1
      <4>1. 1..n = 1..m - 1 BY <1>2, <3>1
      <4>2. \A a, b \in Nat : 1..a = 1..b => a = b
        <5> SUFFICES ASSUME NEW a \in Nat, NEW b \in Nat, a < b PROVE 1..a # 1..b OBVIOUS
        <5>1. b \in 1..b /\ b \notin 1..a OBVIOUS
        <5> QED BY <5>1
      <4>3. n \in Nat /\ m - 1 \in Nat BY <1>3
      <4> QED BY <4>1, <4>2, <4>3
    <3>3. n \in Nat /\ n < Len(run[t].log) /\ n + 1 = m BY <1>2, <1>3, <3>2
    <3>4. db.reply[t] \in ReplyRec /\ db.reply[t].text \in Seq(Nat) BY <1>3 DEF DB, ReplyRec
    <3>5. /\ run[t].log[m] = "text" => Spells(<<m>>, run[t].log, m)
          /\ run[t].log[m] = "delta" => Spells(Append(db.reply[t].text, m), run[t].log, m)
          /\ run[t].log[m] \notin {"text", "delta"} => Spells(db.reply[t].text, run[t].log, m)
      BY <1>3, <3>1, <3>3, <3>4, SaidNext
    <3>6. Spells(e.reply[t].text, run[t].log, m)
      <4>1. CASE kind = "text"
        <5>1. e.reply[t].text = <<m>> BY <2>1, <3>4, <4>1 DEF Written, ReplyRec
        <5> QED BY <1>4, <3>5, <4>1, <5>1
      <4>2. CASE kind = "delta"
        <5>1. e.reply[t].text = Append(db.reply[t].text, m) BY <2>1, <3>4, <4>2 DEF Written, ReplyRec
        <5> QED BY <1>4, <3>5, <4>2, <5>1
      <4>3. CASE kind \notin {"text", "delta"}
        <5>1. e.reply[t] = db.reply[t] BY <2>1, <4>3 DEF Written
        <5> QED BY <1>4, <3>5, <4>3, <5>1
      <4> QED BY <4>1, <4>2, <4>3
    <3>7. ApprovalOf(run[t].log, m) =
             CASE kind = "asked"   -> "pending"
               [] kind = "allowed" -> "completed"
               [] kind = "denied"  -> "denied"
               [] OTHER            -> ApprovalOf(run[t].log, n)
      BY <1>3, <1>4, <3>3, ApprovalNext
    <3>8. e.act[t].approval = ApprovalOf(run[t].log, m) BY <2>1, <3>1, <3>7 DEF Written
    <3> QED BY <3>6, <3>8
  <2>11. /\ db' \in DB /\ db'.user = db.user
         /\ \A s \in Turns \ {t} : db'.reply[s] = db.reply[s] /\ db'.act[s] = db.act[s]
         /\ pc[t] = "created" => db'.reply[t] = db.reply[t]
         /\ db'.reply[t].status \in Open /\ db'.reply[t].status \notin Ended
         /\ Spells(db'.reply[t].text, run[t].log, m)
         /\ db'.act[t].approval = ApprovalOf(run[t].log, m)
         /\ \A c \in Convs : db'.conv[c] = db.conv[c]
    BY <2>2, <2>3, <2>4, <2>5, <2>10 DEF Open, Ended
  <2> QED BY <1>1, <1>2, <2>6, <2>7, <2>8, <2>9, <2>11, AppliesOK
<1> QED BY <1>8, <1>9

-----------------------------------------------------------------------------
(* sendMessage                                                              *)

\* A turn that has no Run yet
LEMMA NothingYet ==
    ASSUME Typed, ClaimsOK, ChainOK, NEW t \in Turns, RowOK(run[t]), run[t].status = "none"
    PROVE  /\ run[t].log = <<>> /\ ~run[t].live
           /\ \A m \in Nat : <<t, m>> \notin db.claimed
           /\ \A i \in DOMAIN chain : chain[i][1] # t
           /\ Applied(t) = {}
<1>1. run[t].log = <<>> /\ ~run[t].live BY DEF RowOK
<1>2. Len(run[t].log) = 0 BY <1>1
<1>3. \A m \in Nat : <<t, m>> \notin db.claimed
  <2> SUFFICES ASSUME NEW m \in Nat, <<t, m>> \in db.claimed PROVE FALSE OBVIOUS
  <2>1. m <= 0 BY <1>2 DEF ClaimsOK
  <2>2. <<t, m>> \in Events
    <3>1. db.claimed \subseteq Events BY DEF Typed, DB
    <3> QED BY <3>1
  <2> QED BY <2>1, <2>2 DEF Events
<1>4. \A i \in DOMAIN chain : chain[i][1] # t
  <2> SUFFICES ASSUME NEW i \in DOMAIN chain, chain[i][1] = t PROVE FALSE OBVIOUS
  <2>1. ChainAt(i) BY DEF ChainOK
  <2>2. chain[i][2] <= 0 BY <1>2, <2>1 DEF ChainAt
  <2> QED BY <2>2, ChainTyped
<1>5. Applied(t) = {} BY <1>2 DEF Applied
<1> QED BY <1>1, <1>3, <1>4, <1>5

\* A turn whose message waits for its Run is alone in its conversation.
LEMMA Alone ==
    ASSUME ConversationInv, NEW t \in Turns, InCreate(t), NEW s \in Turns, ConvOf[s] = ConvOf[t],
           Alive(s) \/ run[s].live
    PROVE  s = t
<1>0. SendingOK /\ OverOK /\ RunsOK BY DEF ConversationInv, QueuesOK
<1>1. pc[t] # "idle" /\ db.conv[ConvOf[t]].active = NoTurn /\ up BY <1>0 DEF SendingOK, InCreate
<1>2. Alive(s) BY <1>0, <1>1 DEF OverOK
<1>3. NoTurn \notin Turns OBVIOUS
<1>4. pc[s] = "created" BY <1>1, <1>2, <1>3 DEF Alive
<1> QED BY <1>0, <1>1, <1>4 DEF SendingOK

\* Until the conversation records the turn, nothing has been written to its reply.
LEMMA StillBare ==
    ASSUME Typed, StoreOK(db, run, edits), SendingOK, NEW t \in Turns, InCreate(t)
    PROVE  /\ db.reply[t].text = <<>> /\ db.act[t] = NoAct /\ t # NoTurn /\ ConvOf[t] \in Convs
           /\ \A m \in Nat : <<t, m>> \in db.claimed => m = 1
<1>1. t # NoTurn /\ NoTurn \notin Turns /\ ConvOf[t] \in Convs OBVIOUS
<1>2. db.reply[t].status = "queued" /\ db.conv[ConvOf[t]].active = NoTurn BY DEF SendingOK
<1>3. db.reply[t].status \in Open /\ db.conv[ConvOf[t]].active # t BY <1>1, <1>2 DEF Open
<1>4. Bare(db, run, t) BY DEF StoreOK
<1> QED BY <1>1, <1>2, <1>3, <1>4 DEF Bare

LEMMA StoredStep ==
    ASSUME ConversationInv, NEW t \in Turns, RunStored(t)
    PROVE  ConversationInv'
<1> USE DEF process, bounds
<1>0. /\ Typed /\ StoreOK(db, run, edits) /\ RunsOK /\ SendingOK /\ ClaimsOK /\ ChainOK /\ InflightOK
      /\ OverOK /\ ActiveOK /\ ReplyFollowsEvents /\ ActivitiesEnd /\ ReadersAgree
  BY DEF ConversationInv, QueuesOK
<1> DEFINE r == [NoRun EXCEPT !.status = "open", !.live = TRUE, !.log = <<"created">>]
<1>1. /\ pc[t] = "creating" /\ run' = [run EXCEPT ![t] = r] /\ chain' = Append(chain, <<t, 1>>)
      /\ pc' = [pc EXCEPT ![t] = "created"]
      /\ UNCHANGED <<db, inflight, pending, copy, todo, process, bounds>>
  BY DEF RunStored
<1>2. /\ r \in RunRec /\ r.status = "open" /\ r.live /\ r.log = <<"created">> /\ ~r.waiting
      /\ Len(r.log) = 1 /\ DOMAIN r.log = 1..1 /\ r.log[1] = "created" /\ r.log # <<>>
  <2>1. <<"created">> \in Seq(EventKinds) BY DEF EventKinds
  <2>2. NoRun \in RunRec /\ ~NoRun.waiting
    <3>1. <<>> \in Seq(EventKinds) OBVIOUS
    <3> QED BY <3>1 DEF NoRun, RunRec
  <2>3. r \in RunRec BY <2>1, <2>2 DEF RunRec
  <2>4. r.status = "open" /\ r.live /\ r.log = <<"created">> /\ ~r.waiting BY <2>2 DEF RunRec
  <2>5. /\ Len(<<"created">>) = 1 /\ DOMAIN <<"created">> = 1..1
        /\ <<"created">>[1] = "created" /\ <<"created">> # <<>>
    OBVIOUS
  <2> QED BY <2>3, <2>4, <2>5
<1> HIDE DEF r
<1>3. /\ up /\ up' /\ InCreate(t) /\ run[t].status = "none" /\ RowOK(run[t])
      /\ db.reply[t].status = "queued" /\ db.conv[ConvOf[t]].active = NoTurn
  BY <1>0, <1>1 DEF SendingOK, InCreate, RunsOK, up
<1>4. /\ run'[t] = r /\ \A s \in Turns \ {t} : run'[s] = run[s]
      /\ pc'[t] = "created" /\ \A s \in Turns \ {t} : pc'[s] = pc[s]
  BY <1>0, <1>1 DEF Typed
<1>5. /\ run[t].log = <<>> /\ ~run[t].live
      /\ \A m \in Nat : <<t, m>> \notin db.claimed
      /\ \A i \in DOMAIN chain : chain[i][1] # t
      /\ Applied(t) = {}
  BY <1>0, <1>3, NothingYet
<1>6. Typed'
  <2>1. run' \in [Turns -> RunRec] /\ pc' \in [Turns -> {"idle", "creating", "created", "replaying"}]
    BY <1>0, <1>1, <1>2 DEF Typed
  <2>2. <<t, 1>> \in Events BY DEF Events
  <2>3. chain' \in Seq(Events) BY <1>0, <1>1, <2>2 DEF Typed
  <2> QED BY <1>0, <1>1, <2>1, <2>3 DEF Typed
<1>7. StoreOK(db, run, edits)'
  <2>1. Untouched(db, run, t) /\ Bare(db, run, t) /\ ConvOK(db, ConvOf[t], edits) BY <1>0 DEF StoreOK
  <2>2. Untouched(db, run', t) /\ Bare(db, run', t) /\ EndsWell(db, run', t)
    BY <1>3, <2>1 DEF Untouched, Bare, EndsWell, Ended
  <2>3. db \in DB /\ edits \in Nat /\ edits <= edits BY <1>0 DEF Typed
  <2>4. \A s \in Turns \ {t} : run'[s].status = run[s].status BY <1>4
  <2>5. ConvOf[t] \in Convs OBVIOUS
  <2>6. StoreOK(db, run', edits) BY <1>0, <2>1, <2>2, <2>3, <2>4, <2>5, OneTurnMoves
  <2> QED BY <1>1, <2>6
<1>8. RunsOK'
  <2>1. RowOK(r) BY <1>2 DEF RowOK, Ended, Verdicts
  <2>2. ASSUME NEW s \in Turns \ {t}, ConvOf[s] = ConvOf[t], run'[s].status = "open" PROVE FALSE
    <3>1. run[s].live BY <1>0, <1>3, <1>4, <2>2 DEF RunsOK
    <3> QED BY <1>3, <2>2, <3>1, Alone
  <2>3. OneTurnAtATime'
    <3> SUFFICES ASSUME NEW a \in Turns, NEW b \in Turns, ConvOf[a] = ConvOf[b],
                        run'[a].status = "open", run'[b].status = "open"
                 PROVE  a = b
      BY DEF OneTurnAtATime
    <3>1. CASE a = t BY <2>2, <3>1
    <3>2. CASE b = t BY <2>2, <3>2
    <3>3. CASE a # t /\ b # t BY <1>0, <1>4, <3>3 DEF RunsOK, OneTurnAtATime
    <3> QED BY <3>1, <3>2, <3>3
  <2>4. \A s \in Turns \ {t} :
           /\ RowOK(run'[s])
           /\ run'[s].waiting => run'[s].live
           /\ run'[s].live => up'
           /\ up' /\ run'[s].status = "open" => run'[s].live
           /\ node' = "starting" => run'[s].status # "open"
    BY <1>0, <1>1, <1>3, <1>4 DEF RunsOK
  <2>5. /\ RowOK(run'[t])
        /\ run'[t].waiting => run'[t].live
        /\ run'[t].live => up'
        /\ up' /\ run'[t].status = "open" => run'[t].live
        /\ node' = "starting" => run'[t].status # "open"
    BY <1>2, <1>3, <1>4, <2>1 DEF up
  <2> QED BY <2>3, <2>4, <2>5 DEF RunsOK
<1>9. SendingOK'
  <2>1. \A s \in Turns : InCreate(s)' <=> InCreate(s) BY <1>3, <1>4 DEF InCreate
  <2>2. \A s \in Turns : pc'[s] # "idle" <=> pc[s] # "idle" BY <1>1, <1>4
  <2>3. \A s \in Turns : pc'[s] = "creating" => s # t /\ run'[s] = run[s] /\ pc[s] = "creating" BY <1>4
  <2>4. \A s \in Turns : pc'[s] = "created" =>
           run'[s].live /\ run'[s].status = "open" /\ run'[s].log = <<"created">> /\ ~run'[s].waiting
    BY <1>0, <1>2, <1>4 DEF SendingOK
  <2>5. \A s \in Turns : pc'[s] = "replaying" => s # t /\ run'[s] = run[s] /\ pc[s] = "replaying" BY <1>4
  <2> QED BY <1>0, <1>1, <1>3, <2>1, <2>2, <2>3, <2>4, <2>5 DEF SendingOK
<1>10. ClaimsOK'
  <2> SUFFICES ASSUME NEW s \in Turns, NEW m \in Nat, <<s, m>> \in db.claimed
               PROVE  m <= Len(run'[s].log) /\ \A k \in 1..m : <<s, k>> \in db.claimed
    BY <1>1 DEF ClaimsOK
  <2>1. s # t BY <1>5
  <2> QED BY <1>0, <1>4, <2>1 DEF ClaimsOK
<1>11. /\ chain \in Seq(Events) /\ Len(chain) \in Nat
       /\ Len(chain') = Len(chain) + 1 /\ chain'[Len(chain) + 1] = <<t, 1>>
       /\ \A i \in 1..Len(chain) : chain'[i] = chain[i]
       /\ DOMAIN chain = 1..Len(chain) /\ DOMAIN chain' = 1..Len(chain) + 1
  <2>1. chain \in Seq(Events) /\ Len(chain) \in Nat /\ DOMAIN chain = 1..Len(chain) BY <1>0 DEF Typed
  <2>2. chain' \in Seq(Events) BY <1>6 DEF Typed
  <2>3. Len(chain') = Len(chain) + 1 BY <1>1, <2>1
  <2>4. DOMAIN chain' = 1..Len(chain) + 1 BY <2>2, <2>3
  <2> QED BY <1>1, <2>1, <2>3, <2>4
<1>12. \A e : InChain(e) => InChain(e)' BY <1>11 DEF InChain
<1>13. InChain(<<t, 1>>)'
  <2>1. Len(chain) + 1 \in DOMAIN chain' BY <1>11
  <2> QED BY <1>11, <2>1 DEF InChain
<1>14. ChainOK'
  <2>1. ASSUME NEW i \in DOMAIN chain', i # Len(chain) + 1 PROVE ChainAt(i)'
    <3>1. i \in DOMAIN chain /\ chain'[i] = chain[i] /\ \A j \in 1..i - 1 : chain'[j] = chain[j]
      BY <1>11, <2>1
    <3>2. ChainAt(i) BY <1>0, <3>1 DEF ChainOK
    <3>3. run'[chain[i][1]] = run[chain[i][1]] BY <1>0, <1>4, <1>5, <3>1, ChainTyped
    <3> QED BY <1>1, <3>1, <3>2, <3>3 DEF ChainAt
  <2>2. ASSUME NEW i \in DOMAIN chain', i = Len(chain) + 1 PROVE ChainAt(i)'
    <3>1. chain'[i][1] = t /\ chain'[i][2] = 1 BY <1>11, <2>2
    <3>2. 1 <= Len(run'[t].log)
      <4>1. Len(run'[t].log) = 1 BY <1>2, <1>4
      <4> QED BY <4>1
    <3>3. 1..1 - 1 = {} OBVIOUS
    <3> QED BY <3>1, <3>2, <3>3 DEF ChainAt
  <2>3. ASSUME NEW s \in Turns, run'[s].live, NEW m \in DOMAIN run'[s].log
        PROVE  <<s, m>> \in db'.claimed \/ InChain(<<s, m>>)'
    <3>1. CASE s # t BY <1>0, <1>1, <1>4, <1>12, <2>3, <3>1 DEF ChainOK
    <3>2. CASE s = t
      <4>1. m = 1 BY <1>2, <1>4, <2>3, <3>2
      <4> QED BY <1>13, <3>2, <4>1
    <3> QED BY <3>1, <3>2
  <2> QED BY <2>1, <2>2, <2>3 DEF ChainOK
<1>15. \A s \in Turns \ {t} : Alive(s)' <=> Alive(s) BY <1>1, <1>4 DEF Alive
<1>16. Alive(t)' BY <1>4 DEF Alive
<1>17. InflightOK'
  <2>1. chain # <<>> => chain' # <<>> /\ Head(chain') = Head(chain)
    <3>1. chain # <<>> => 1 \in 1..Len(chain) BY <1>11
    <3>2. chain # <<>> => Head(chain) = chain[1] BY <1>11
    <3>3. chain' \in Seq(Events) BY <1>6 DEF Typed
    <3>4. chain' # <<>> /\ Head(chain') = chain'[1] BY <1>11, <3>3
    <3> QED BY <1>11, <3>1, <3>2, <3>4
  <2>2. ASSUME NEW i \in DOMAIN inflight PROVE InflightAt(i)'
    <3>1. InflightAt(i) BY <1>0 DEF InflightOK
    <3>2. /\ inflight[i].by \in Consumers /\ inflight[i].event[1] \in Turns /\ inflight[i].event[2] \in Nat
          /\ inflight[i].event = <<inflight[i].event[1], inflight[i].event[2]>>
      BY <1>0, InflightTyped
    <3>3. inflight[i].event[1] # t BY <1>5, <3>1, <3>2 DEF InflightAt
    <3>4. inflight[i].by # NoTurn => pc'[inflight[i].by] = "replaying"
      BY <1>1, <1>4, <3>1, <3>2 DEF InflightAt, Consumers
    <3> QED BY <1>1, <1>15, <2>1, <3>1, <3>2, <3>3, <3>4 DEF InflightAt
  <2> QED BY <1>0, <1>1, <2>2 DEF InflightOK
<1>18. OverOK'
  <2> SUFFICES ASSUME NEW s \in Turns, ~Alive(s)'
               PROVE  /\ ~run'[s].live
                      /\ \A m \in Nat : InChain(<<s, m>>)' => <<s, m>> \in db.claimed
                      /\ pc'[s] = "replaying" => \A m \in 1..todo[s][2] : <<s, m>> \in db.claimed
    BY <1>1 DEF OverOK
  <2>1. s # t /\ ~Alive(s) BY <1>15, <1>16
  <2>2. ASSUME NEW m \in Nat, InChain(<<s, m>>)' PROVE InChain(<<s, m>>)
    <3>1. PICK i \in DOMAIN chain' : chain'[i] = <<s, m>> BY <2>2 DEF InChain
    <3>2. i # Len(chain) + 1 BY <1>11, <2>1, <3>1
    <3>3. i \in DOMAIN chain /\ chain[i] = <<s, m>> BY <1>11, <3>1, <3>2
    <3> QED BY <3>3 DEF InChain
  <2> QED BY <1>0, <1>3, <1>4, <2>1, <2>2 DEF OverOK
<1>19. ActiveOK'
  <2>1. NoTurn \notin Turns OBVIOUS
  <2>2. \A s \in Turns : db.conv[ConvOf[s]].active = s => s # t BY <1>3, <2>1
  <2> QED BY <1>0, <1>1, <1>3, <1>4, <2>2 DEF ActiveOK, up
<1>20. ReplyFollowsEvents'
  <2> SUFFICES ASSUME NEW s \in Turns, Going(s)' PROVE Follows(s)'
    BY <1>1 DEF ReplyFollowsEvents, Follows
  <2>2. CASE s # t
    <3>1. run'[s] = run[s] BY <1>4, <2>2
    <3>2. db \in DB BY <1>0 DEF Typed
    <3>3. Follows(s) BY <1>0, <1>1, <1>3, <3>1, FollowsIs DEF Going
    <3> QED BY <1>1, <3>1, <3>2, <3>3, FollowsStays
  <2>3. CASE s = t
    <3>1. db.reply[t].text = <<>> /\ db.act[t].approval = "none" BY <1>0, <1>3, StillBare DEF NoAct
    <3>2. 0 \in 0..Len(r.log) /\ 1..0 = {} BY <1>2
    <3>3. Spells(<<>>, r.log, 0)
      <4>1. DOMAIN <<>> = {} OBVIOUS
      <4> QED BY <3>2, <4>1 DEF Spells, Said
    <3>4. ApprovalOf(r.log, 0) = "none" BY <3>2 DEF ApprovalOf
    <3>6. Applied(t)' = {} BY <1>1, <1>5 DEF Applied
    <3> QED BY <1>1, <1>4, <2>3, <3>1, <3>2, <3>3, <3>4, <3>6 DEF Follows
  <2> QED BY <2>2, <2>3
<1>21. ActivitiesEnd' /\ ReadersAgree' BY <1>0, <1>1, <1>3 DEF ActivitiesEnd, ReadersAgree
<1> QED BY <1>6, <1>7, <1>8, <1>9, <1>10, <1>14, <1>17, <1>18, <1>19, <1>20, <1>21
        DEF ConversationInv, QueuesOK

LEMMA SendStep ==
    ASSUME ConversationInv, NEW t \in Turns, Send(t)
    PROVE  ConversationInv'
<1> USE DEF process, bounds
<1>0. /\ Typed /\ StoreOK(db, run, edits) /\ RunsOK /\ SendingOK /\ ClaimsOK /\ ChainOK /\ InflightOK
      /\ OverOK /\ ActiveOK /\ ReplyFollowsEvents /\ ActivitiesEnd /\ ReadersAgree
  BY DEF ConversationInv, QueuesOK
<1>1. /\ up /\ chain = <<>> /\ inflight = <<>> /\ pc[t] = "idle" /\ t \notin db.user
      /\ db.conv[ConvOf[t]].status \notin {"absent", "archived"}
      /\ db.conv[ConvOf[t]].active = NoTurn /\ ConvOf[t] \notin pending
      /\ db' = After(db, SendPlan(t)) /\ pending' = pending \cup {ConvOf[t]}
      /\ pc' = [pc EXCEPT ![t] = "creating"] /\ copy' = [copy EXCEPT ![t] = db.conv[ConvOf[t]]]
      /\ UNCHANGED <<run, chain, inflight, todo, process, bounds>>
  BY DEF Send, CanSend, Quiet
<1>2. /\ db \in DB /\ edits \in Nat /\ ConvOf[t] \in Convs /\ t # NoTurn /\ NoTurn \notin Turns
      /\ db.conv[ConvOf[t]] \in ConvRec /\ db.conv \in [Convs -> ConvRec]
  BY <1>0 DEF Typed, DB
<1>3. PICK e, mid \in DB :
         /\ e = After(db, SendPlan(t))
         /\ e.user = db.user \cup {t}
         /\ e.reply = [db.reply EXCEPT ![t] = Queued]
         /\ e.conv = db.conv /\ e.act = db.act /\ e.claimed = db.claimed
         /\ Agree(db) => Agree(e)
         /\ mid = [db EXCEPT !.user = db.user \cup {t}]
         /\ \A z \in Short(db, SendPlan(t)) : z = db \/ z = mid \/ Like(z, e)
  BY <1>2, SendPlanIs
<1>4. /\ db' = e /\ e.reply[t] = Queued /\ \A s \in Turns \ {t} : e.reply[s] = db.reply[s]
  BY <1>1, <1>2, <1>3 DEF DB
<1>5. /\ db.reply[t].status = "absent" /\ run[t].status = "none" /\ db.act[t] = NoAct /\ RowOK(run[t])
      /\ ConvOK(db, ConvOf[t], edits)
  BY <1>0, <1>1, <1>2 DEF StoreOK, Untouched, RunsOK
<1>6. /\ run[t].log = <<>> /\ ~run[t].live
      /\ \A m \in Nat : <<t, m>> \notin db.claimed
      /\ Applied(t) = {}
  BY <1>0, <1>5, NothingYet
<1>7. /\ pc'[t] = "creating" /\ \A s \in Turns \ {t} : pc'[s] = pc[s] /\ copy'[s] = copy[s]
      /\ copy'[t] = db.conv[ConvOf[t]]
  BY <1>0, <1>1 DEF Typed
<1>8. Typed' BY <1>0, <1>1, <1>2, <1>4 DEF Typed
<1>9. StoreOK(db, run, edits)'
  <2>1. /\ Queued.status = "queued" /\ Queued.text = <<>> BY DEF Queued
  <2>2. Untouched(e, run, t) BY <1>3, <1>4, <2>1 DEF Untouched
  <2>3. Bare(e, run, t) BY <1>3, <1>4, <1>5, <1>6, <2>1 DEF Bare
  <2>4. EndsWell(e, run, t) BY <1>4, <2>1 DEF EndsWell, Ended
  <2>5. ConvOK(e, ConvOf[t], edits) BY <1>1, <1>2, <1>3, <1>5 DEF ConvOK
  <2>6. edits <= edits /\ \A s \in Turns \ {t} : s \in e.user <=> s \in db.user BY <1>2, <1>3
  <2>7. StoreOK(e, run, edits) BY <1>0, <1>1, <1>2, <1>3, <1>4, <2>2, <2>3, <2>4, <2>5, <2>6, OneTurnMoves
  <2> QED BY <1>1, <1>4, <2>7
<1>10. RunsOK' BY <1>0, <1>1 DEF RunsOK, OneTurnAtATime, up
<1>11. SendingOK'
  <2>1. \A s \in Turns \ {t} : pc'[s] # "idle" => pc[s] # "idle" /\ ConvOf[s] # ConvOf[t] /\ ConvOf[s] \in pending
    BY <1>0, <1>1, <1>7 DEF SendingOK
  <2>2. up' BY <1>1 DEF up
  <2>3. \A s \in Turns : pc'[s] # "idle" => up' /\ ConvOf[s] \in pending' BY <1>1, <2>1, <2>2
  <2>4. ASSUME NEW r \in Turns, NEW s \in Turns, pc'[r] # "idle", pc'[s] # "idle", ConvOf[r] = ConvOf[s]
        PROVE  r = s
    <3>1. CASE r = t \/ s = t BY <2>1, <2>4, <3>1
    <3>2. CASE r # t /\ s # t BY <1>0, <1>7, <2>4, <3>2 DEF SendingOK
    <3> QED BY <3>1, <3>2
  <2>5. ASSUME NEW s \in Turns, InCreate(s)'
        PROVE  /\ s \in db'.user
               /\ db'.conv[ConvOf[s]].active = NoTurn
               /\ db'.conv[ConvOf[s]].status # "absent"
               /\ db'.reply[s].status = "queued"
               /\ copy'[s].active = NoTurn /\ copy'[s].status \notin {"absent", "responding", "archived"}
               /\ copy'[s].title <= edits'
    <3>1. CASE s = t
      <4>1. db'.reply[t].status = "queued" BY <1>4 DEF Queued
      <4>2. db.conv[ConvOf[t]].status # "responding" /\ db.conv[ConvOf[t]].title <= edits
        BY <1>1, <1>5 DEF ConvOK
      <4> QED BY <1>1, <1>3, <1>4, <1>7, <3>1, <4>1, <4>2
    <3>2. CASE s # t
      <4>1. InCreate(s) BY <1>7, <2>5, <3>2 DEF InCreate
      <4> QED BY <1>0, <1>1, <1>3, <1>4, <1>7, <3>2, <4>1 DEF SendingOK
    <3> QED BY <3>1, <3>2
  <2>6. /\ \A s \in Turns : pc'[s] = "creating" => run'[s].status = "none"
        /\ \A s \in Turns : pc'[s] = "created" =>
              run'[s].live /\ run'[s].status = "open" /\ run'[s].log = <<"created">> /\ ~run'[s].waiting
    BY <1>0, <1>1, <1>5, <1>7 DEF SendingOK
  <2>7. \A s \in Turns : pc'[s] = "replaying" =>
           /\ todo'[s][2] <= Len(run'[s].log)
           /\ \A k \in 1..todo'[s][1] - 1 : <<s, k>> \in db'.claimed
    BY <1>0, <1>1, <1>3, <1>4, <1>7 DEF SendingOK
  <2> QED BY <2>2, <2>3, <2>4, <2>5, <2>6, <2>7 DEF SendingOK
<1>12. ClaimsOK' BY <1>0, <1>1, <1>3, <1>4 DEF ClaimsOK
<1>13. ChainOK' /\ \A f : InChain(f)' <=> InChain(f)
  <2>1. db.claimed \subseteq db'.claimed BY <1>3, <1>4
  <2>2. chain' = chain /\ \A s \in Turns : run'[s].log = run[s].log /\ (run'[s].live => run[s].live) BY <1>1
  <2> QED BY <1>0, <2>1, <2>2, ChainStays
<1>14. \A s \in Turns : Alive(s)' <=> Alive(s) BY <1>1, <1>3, <1>4, <1>7 DEF Alive
<1>15. InflightOK'
  <2>1. inflight' = <<>> BY <1>1
  <2> QED BY <2>1 DEF InflightOK
<1>16. OverOK'
  <2>1. \A s \in Turns : pc'[s] = "replaying" => pc[s] = "replaying" BY <1>7
  <2> QED BY <1>0, <1>1, <1>3, <1>4, <1>13, <1>14, <2>1 DEF OverOK
<1>17. ActiveOK'
  <2>1. \A s \in Turns : db'.conv[ConvOf[s]].active = s => s # t BY <1>1, <1>2, <1>3, <1>4
  <2> QED BY <1>0, <1>1, <1>3, <1>4, <1>7, <2>1 DEF ActiveOK, up
<1>18. ReplyFollowsEvents'
  <2> SUFFICES ASSUME NEW s \in Turns, Going(s)' PROVE Follows(s)'
    BY DEF ReplyFollowsEvents, Follows
  <2>0. Applied(s)' = Applied(s) BY <1>1, <1>3, <1>4 DEF Applied
  <2>1. CASE s # t
    <3>1. Follows(s) BY <1>0, <1>1, <1>4, <2>1, FollowsIs DEF Going
    <3> QED BY <1>1, <1>3, <1>4, <2>0, <2>1, <3>1 DEF Follows
  <2>2. CASE s = t
    <3>1. Len(<<>>) = 0 /\ 0 \in 0..0 /\ 1..0 = {} OBVIOUS
    <3>2. Spells(<<>>, <<>>, 0)
      <4>1. DOMAIN <<>> = {} OBVIOUS
      <4> QED BY <3>1, <4>1 DEF Spells, Said
    <3>3. ApprovalOf(<<>>, 0) = "none" BY <3>1 DEF ApprovalOf
    <3>4. db'.reply[t].text = <<>> /\ db'.act[t].approval = "none"
      BY <1>3, <1>4, <1>5 DEF Queued, NoAct
    <3> QED BY <1>1, <1>6, <2>0, <2>2, <3>1, <3>2, <3>3, <3>4 DEF Follows
  <2> QED BY <2>1, <2>2
<1>19. ActivitiesEnd' BY <1>0, <1>1, <1>3, <1>4 DEF ActivitiesEnd, Queued, Ended
<1>20. ReadersAgree' BY <1>0, <1>1, <1>3, <1>4 DEF ReadersAgree, Agree
<1> QED BY <1>8, <1>9, <1>10, <1>11, <1>12, <1>13, <1>15, <1>16, <1>17, <1>18, <1>19, <1>20
        DEF ConversationInv, QueuesOK

\* A message that was sent, and its conversation, are written.
Sent(t, plan, e, x, y) ==
    /\ e \in DB /\ e = After(db, plan)
    /\ e.conv = [db.conv EXCEPT ![ConvOf[t]] = y]
    /\ e.reply = [db.reply EXCEPT ![t] = x]
    /\ e.user = db.user /\ e.act = db.act /\ e.claimed = db.claimed
    /\ Agree(db) => Agree(e)
    /\ StoreOK(e, run, edits)
    /\ \A z \in Short(db, plan) : Left(z)

LEMMA TurnPlanStops ==
    ASSUME Typed, StoreOK(db, run, edits), SendingOK, NEW t \in Turns, InCreate(t),
           NEW x \in ReplyRec, NEW y \in ConvRec, x.text = <<>>,
           x.status \in Open \/ (x.status = "failed" /\ run[t].status = "none"),
           y.active \in {t, NoTurn}, y.active # NoTurn <=> y.status = "responding",
           y.active = t => x.status # "queued", y.status # "absent", y.title <= edits
    PROVE  \E e : Sent(t, TurnPlan(db, t, x, y), e, x, y)
<1>0. /\ db \in DB /\ edits \in Nat /\ edits <= edits /\ ConvOf[t] \in Convs /\ t # NoTurn /\ NoTurn \notin Turns
      /\ db.reply \in [Turns -> ReplyRec] /\ db.conv \in [Convs -> ConvRec]
  BY DEF Typed, DB
<1>1. /\ t \in db.user /\ db.conv[ConvOf[t]].active = NoTurn /\ db.reply[t].status = "queued"
  BY DEF SendingOK
<1>2. /\ db.act[t] = NoAct /\ \A m \in Nat : <<t, m>> \in db.claimed => m = 1 BY StillBare
<1>3. ConvOK(db, ConvOf[t], edits) BY <1>0 DEF StoreOK
<1> DEFINE plan == TurnPlan(db, t, x, y)
<1>4. PICK e, m \in DB :
         /\ plan \in Seq(DB)
         /\ e = After(db, plan)
         /\ e.conv = [db.conv EXCEPT ![ConvOf[t]] = y]
         /\ e.reply = [db.reply EXCEPT ![t] = x]
         /\ e.user = db.user /\ e.act = db.act /\ e.claimed = db.claimed
         /\ Agree(db) => Agree(e)
         /\ m = SaveMessage(db, t, x)
         /\ m = [db EXCEPT !.reply = [db.reply EXCEPT ![t] = x]]
         /\ \A z \in Short(db, plan) : z = db \/ z = m \/ Like(z, e)
  BY <1>0, TurnPlanIs
<1> HIDE DEF plan
<1>5. ASSUME NEW z \in DB, z.reply = [db.reply EXCEPT ![t] = x], z.user = db.user, z.act = db.act,
             z.claimed = db.claimed, z.conv = db.conv \/ z.conv = [db.conv EXCEPT ![ConvOf[t]] = y]
      PROVE  StoreOK(z, run, edits)
  <2>1. z.reply[t] = x /\ \A s \in Turns \ {t} : z.reply[s] = db.reply[s] BY <1>0, <1>5
  <2>2. /\ \A c \in Convs \ {ConvOf[t]} : z.conv[c] = db.conv[c]
        /\ z.conv[ConvOf[t]] \in {db.conv[ConvOf[t]], y}
    BY <1>0, <1>5
  <2>3. Untouched(z, run, t) BY <1>1, <1>5, <2>1 DEF Untouched, Open
  <2>4. Bare(z, run, t) BY <1>2, <1>5, <2>1 DEF Bare
  <2>5. EndsWell(z, run, t) BY <2>1 DEF EndsWell, Open, Ended
  <2>6. ConvOK(z, ConvOf[t], edits)
    <3>1. CASE z.conv[ConvOf[t]] = y BY <1>0, <2>1, <3>1 DEF ConvOK, Open
    <3>2. CASE z.conv[ConvOf[t]] = db.conv[ConvOf[t]] BY <1>0, <1>1, <1>3, <3>2 DEF ConvOK
    <3> QED BY <2>2, <3>1, <3>2
  <2>7. db.conv[ConvOf[t]].active \notin Turns \ {t} BY <1>0, <1>1
  <2>8. \A s \in Turns \ {t} : /\ z.act[s] = db.act[s] /\ (s \in z.user <=> s \in db.user)
                               /\ \A k \in Nat : <<s, k>> \in z.claimed => <<s, k>> \in db.claimed
    BY <1>5
  <2> QED BY <1>0, <2>1, <2>2, <2>3, <2>4, <2>5, <2>6, <2>7, <2>8, OneTurnMoves
<1>6. StoreOK(e, run, edits) BY <1>4, <1>5
<1>7. StoreOK(m, run, edits)
  <2>1. /\ m.reply = [db.reply EXCEPT ![t] = x] /\ m.user = db.user /\ m.act = db.act
        /\ m.claimed = db.claimed /\ m.conv = db.conv
    BY <1>0, <1>4 DEF DB
  <2> QED BY <1>5, <2>1
<1>8. ASSUME NEW z \in Short(db, plan) PROVE Left(z)
  <2>1. CASE Like(z, e)
    <3>1. z \in DB /\ z.claimed = e.claimed BY <2>1 DEF Like
    <3>2. StoreOK(z, run, edits) BY <1>6, <2>1, StoreAlike
    <3> QED BY <1>4, <3>1, <3>2 DEF Left
  <2>2. CASE z = m
    <3>1. m.claimed = db.claimed BY <1>0, <1>4 DEF DB
    <3> QED BY <1>4, <1>7, <2>2, <3>1 DEF Left
  <2>3. CASE z = db BY <1>0, <2>3 DEF Left
  <2> QED BY <1>4, <1>8, <2>1, <2>2, <2>3
<1>9. Sent(t, plan, e, x, y) BY <1>4, <1>6, <1>8 DEF Sent
<1> QED BY <1>9 DEF plan

Failed == [status |-> "failed", run |-> FALSE, text |-> <<>>]
Streaming == [status |-> "streaming", run |-> TRUE, text |-> <<>>]

LEMMA FailStops ==
    ASSUME ConversationInv, NEW t \in Turns, pc[t] = "creating"
    PROVE  \E e, y : /\ Sent(t, FailPlan(db, t, copy[t]), e, Failed, y)
                     /\ y \in ConvRec /\ y.active = NoTurn /\ y.status # "absent"
<1>0. Typed /\ StoreOK(db, run, edits) /\ SendingOK /\ InCreate(t) BY DEF ConversationInv, InCreate
<1>1. /\ copy[t] \in ConvRec /\ copy[t].active = NoTurn /\ copy[t].title <= edits /\ run[t].status = "none"
  BY <1>0 DEF Typed, SendingOK
<1> DEFINE y == [copy[t] EXCEPT !.status = "error"]
<1>2. y \in ConvRec /\ y.active = NoTurn /\ y.status = "error" /\ y.title <= edits
  BY <1>1 DEF ConvRec, Statuses
<1>3. Failed \in ReplyRec /\ Failed.text = <<>> /\ Failed.status = "failed"
  <2>1. <<>> \in Seq(Nat) OBVIOUS
  <2> QED BY <2>1 DEF Failed, ReplyRec, Ended
<1>4. FailPlan(db, t, copy[t]) = TurnPlan(db, t, Failed, y) BY DEF FailPlan, TurnPlan, Failed
<1> HIDE DEF y
<1>5. PICK e : Sent(t, TurnPlan(db, t, Failed, y), e, Failed, y) BY <1>0, <1>1, <1>2, <1>3, TurnPlanStops
<1> QED BY <1>2, <1>4, <1>5

LEMMA ResumeStops ==
    ASSUME ConversationInv, NEW t \in Turns, pc[t] = "created"
    PROVE  \E e : /\ Sent(t, ResumePlan(t), e, Streaming, Responding(t))
                  /\ Responding(t) \in ConvRec /\ Responding(t).active = t /\ Responding(t).status # "absent"
<1>0. Typed /\ StoreOK(db, run, edits) /\ SendingOK /\ InCreate(t) BY DEF ConversationInv, InCreate
<1>1. copy[t] \in ConvRec /\ copy[t].title <= edits /\ t # NoTurn BY <1>0 DEF Typed, SendingOK
<1> DEFINE y == Responding(t)
<1>2. y \in ConvRec /\ y.active = t /\ y.status = "responding" /\ y.title <= edits
  BY <1>1 DEF Responding, ConvRec, Statuses
<1>3. Streaming \in ReplyRec /\ Streaming.text = <<>> /\ Streaming.status = "streaming" /\ Streaming.status \in Open
  <2>1. <<>> \in Seq(Nat) OBVIOUS
  <2> QED BY <2>1 DEF Streaming, ReplyRec, Open
<1>4. ResumePlan(t) = TurnPlan(db, t, Streaming, y) BY DEF ResumePlan, TurnPlan, Streaming
<1> HIDE DEF y
<1>5. PICK e : Sent(t, TurnPlan(db, t, Streaming, y), e, Streaming, y) BY <1>0, <1>1, <1>2, <1>3, TurnPlanStops
<1>6. y = Responding(t) BY DEF y
<1>7. Sent(t, ResumePlan(t), e, Streaming, Responding(t)) BY <1>4, <1>5, <1>6
<1> QED BY <1>2, <1>6, <1>7

LEMMA FailStep ==
    ASSUME ConversationInv, NEW t \in Turns, CreateFails(t)
    PROVE  ConversationInv'
<1> USE DEF process, bounds
<1>0. /\ Typed /\ StoreOK(db, run, edits) /\ RunsOK /\ SendingOK /\ ClaimsOK /\ ChainOK /\ InflightOK
      /\ OverOK /\ ActiveOK /\ ReplyFollowsEvents /\ ActivitiesEnd /\ ReadersAgree
  BY DEF ConversationInv, QueuesOK
<1>1. /\ pc[t] = "creating" /\ db' = After(db, FailPlan(db, t, copy[t]))
      /\ pc' = [pc EXCEPT ![t] = "idle"] /\ pending' = pending \ {ConvOf[t]}
      /\ copy' = [copy EXCEPT ![t] = NoConv] /\ todo' = [todo EXCEPT ![t] = <<1, 0>>]
      /\ UNCHANGED <<run, chain, inflight, process, bounds>>
  BY DEF CreateFails, EndSend
<1>2. /\ up /\ up' /\ InCreate(t) /\ db.conv[ConvOf[t]].active = NoTurn
      /\ t # NoTurn /\ NoTurn \notin Turns /\ ConvOf[t] \in Convs /\ db \in DB /\ db.act[t] = NoAct
  BY <1>0, <1>1, StillBare DEF SendingOK, InCreate, up, Typed
<1>3. PICK e, y : /\ Sent(t, FailPlan(db, t, copy[t]), e, Failed, y)
                  /\ y \in ConvRec /\ y.active = NoTurn /\ y.status # "absent"
  BY <1>1, FailStops
<1>4. /\ db' = e /\ e \in DB /\ e.user = db.user /\ e.act = db.act /\ e.claimed = db.claimed
      /\ Agree(db) => Agree(e)
      /\ StoreOK(e, run, edits)
      /\ e.conv = [db.conv EXCEPT ![ConvOf[t]] = y]
      /\ e.reply = [db.reply EXCEPT ![t] = Failed]
  BY <1>1, <1>3 DEF Sent
<1>5. /\ e.reply[t] = Failed /\ \A s \in Turns \ {t} : e.reply[s] = db.reply[s]
      /\ e.conv[ConvOf[t]] = y /\ \A c \in Convs \ {ConvOf[t]} : e.conv[c] = db.conv[c]
  BY <1>2, <1>4 DEF DB
<1>6. /\ pc'[t] = "idle" /\ \A s \in Turns \ {t} : pc'[s] = pc[s] /\ copy'[s] = copy[s] /\ todo'[s] = todo[s]
  BY <1>0, <1>1 DEF Typed
<1>7. Typed'
  <2>1. NoConv \in ConvRec BY DEF NoConv, ConvRec, Statuses
  <2>2. <<1, 0>> \in (Nat \ {0}) \X Nat OBVIOUS
  <2> QED BY <1>0, <1>1, <1>4, <2>1, <2>2 DEF Typed
<1>8. StoreOK(db, run, edits)' BY <1>1, <1>4
<1>9. RunsOK' BY <1>0, <1>1 DEF RunsOK, OneTurnAtATime, up
<1>10. \A s \in Turns : pc'[s] # "idle" => s # t /\ pc[s] = pc'[s] /\ ConvOf[s] # ConvOf[t]
  BY <1>0, <1>1, <1>6 DEF SendingOK
<1>11. SendingOK'
  <2>1. ASSUME NEW s \in Turns, InCreate(s)'
        PROVE  /\ s \in db'.user
               /\ db'.conv[ConvOf[s]].active = NoTurn
               /\ db'.conv[ConvOf[s]].status # "absent"
               /\ db'.reply[s].status = "queued"
               /\ copy'[s].active = NoTurn /\ copy'[s].status \notin {"absent", "responding", "archived"}
               /\ copy'[s].title <= edits'
    <3>1. InCreate(s) /\ s # t /\ ConvOf[s] # ConvOf[t] /\ ConvOf[s] \in Convs BY <1>10, <2>1 DEF InCreate
    <3> QED BY <1>0, <1>1, <1>4, <1>5, <1>6, <3>1 DEF SendingOK
  <2>2. /\ \A s \in Turns : pc'[s] # "idle" => up' /\ ConvOf[s] \in pending'
        /\ \A r, s \in Turns : pc'[r] # "idle" /\ pc'[s] # "idle" /\ ConvOf[r] = ConvOf[s] => r = s
        /\ \A s \in Turns : pc'[s] = "creating" => run'[s].status = "none"
        /\ \A s \in Turns : pc'[s] = "created" =>
              run'[s].live /\ run'[s].status = "open" /\ run'[s].log = <<"created">> /\ ~run'[s].waiting
    BY <1>0, <1>1, <1>2, <1>10 DEF SendingOK
  <2>3. \A s \in Turns : pc'[s] = "replaying" =>
           /\ todo'[s][2] <= Len(run'[s].log)
           /\ \A k \in 1..todo'[s][1] - 1 : <<s, k>> \in db'.claimed
    BY <1>0, <1>1, <1>4, <1>6 DEF SendingOK
  <2> QED BY <1>2, <2>1, <2>2, <2>3 DEF SendingOK
<1>12. ClaimsOK' BY <1>0, <1>1, <1>4 DEF ClaimsOK
<1>13. ChainOK' /\ \A f : InChain(f)' <=> InChain(f)
  <2>1. db.claimed \subseteq db'.claimed BY <1>4
  <2>2. chain' = chain /\ \A s \in Turns : run'[s].log = run[s].log /\ (run'[s].live => run[s].live) BY <1>1
  <2> QED BY <1>0, <2>1, <2>2, ChainStays
<1>14. \A s \in Turns : /\ Alive(s)' <=> Alive(s)
                        /\ db'.conv[ConvOf[s]].active = s <=> db.conv[ConvOf[s]].active = s
  <2> SUFFICES ASSUME NEW s \in Turns
               PROVE  /\ Alive(s)' <=> Alive(s)
                      /\ db'.conv[ConvOf[s]].active = s <=> db.conv[ConvOf[s]].active = s
    OBVIOUS
  <2>1. pc'[s] = "created" <=> pc[s] = "created" BY <1>1, <1>6
  <2>2. db'.conv[ConvOf[s]].active = s <=> db.conv[ConvOf[s]].active = s
    <3>1. ConvOf[s] \in Convs /\ s # NoTurn OBVIOUS
    <3> QED BY <1>2, <1>3, <1>4, <1>5, <3>1
  <2> QED BY <2>1, <2>2 DEF Alive
<1>15. InflightOK'
  <2>1. ASSUME NEW i \in DOMAIN inflight PROVE InflightAt(i)'
    <3>1. InflightAt(i) BY <1>0 DEF InflightOK
    <3>2. inflight[i].by \in Consumers /\ inflight[i].event[1] \in Turns BY <1>0, InflightTyped
    <3>3. inflight[i].by # t BY <1>1, <1>2, <3>1 DEF InflightAt
    <3>4. inflight[i].by # NoTurn => /\ todo'[inflight[i].by] = todo[inflight[i].by]
                                     /\ pc'[inflight[i].by] = pc[inflight[i].by]
      BY <1>6, <3>2, <3>3 DEF Consumers
    <3> QED BY <1>1, <1>4, <1>14, <3>1, <3>2, <3>4 DEF InflightAt
  <2> QED BY <1>0, <1>1, <2>1 DEF InflightOK
<1>16. OverOK'
  <2>1. \A s \in Turns : pc'[s] = "replaying" => pc[s] = "replaying" /\ todo'[s] = todo[s] BY <1>6
  <2> QED BY <1>0, <1>1, <1>2, <1>4, <1>13, <1>14, <2>1 DEF OverOK
<1>17. ActiveOK'
  <2>1. ASSUME NEW s \in Turns, db'.conv[ConvOf[s]].active = s
        PROVE  pc'[s] \in {"idle", "replaying"} /\ db'.reply[s].status \in Open /\ run'[s].status # "none"
    <3>1. db.conv[ConvOf[s]].active = s BY <1>14, <2>1
    <3>2. s # t BY <1>2, <3>1
    <3> QED BY <1>0, <1>1, <1>2, <1>4, <1>5, <1>6, <3>1, <3>2 DEF ActiveOK
  <2>2. node' # "starting" BY <1>2 DEF up
  <2> QED BY <2>1, <2>2 DEF ActiveOK
<1>18. ReplyFollowsEvents'
  <2> SUFFICES ASSUME NEW s \in Turns, Going(s)' PROVE Follows(s)'
    BY DEF ReplyFollowsEvents, Follows
  <2>1. s # t BY <1>4, <1>5 DEF Failed, Open, Going
  <2>2. Follows(s) BY <1>0, <1>1, <1>2, <1>4, <1>5, <2>1, FollowsIs DEF Going
  <2>3. Applied(s)' = Applied(s) BY <1>1, <1>4 DEF Applied
  <2> QED BY <1>1, <1>4, <1>5, <2>1, <2>2, <2>3 DEF Follows
<1>19. ActivitiesEnd'
  <2>1. NoAct.work # "running" BY DEF NoAct
  <2> QED BY <1>0, <1>1, <1>2, <1>4, <1>5, <2>1 DEF ActivitiesEnd
<1>20. ReadersAgree' BY <1>0, <1>2, <1>4 DEF ReadersAgree, Agree
<1> QED BY <1>7, <1>8, <1>9, <1>11, <1>12, <1>13, <1>15, <1>16, <1>17, <1>18, <1>19, <1>20
        DEF ConversationInv, QueuesOK

LEMMA ResumeStep ==
    ASSUME ConversationInv, NEW t \in Turns, SendResumes(t)
    PROVE  ConversationInv'
<1> USE DEF process, bounds
<1>0. /\ Typed /\ StoreOK(db, run, edits) /\ RunsOK /\ SendingOK /\ ClaimsOK /\ ChainOK /\ InflightOK
      /\ OverOK /\ ActiveOK /\ ReplyFollowsEvents /\ ActivitiesEnd /\ ReadersAgree
  BY DEF ConversationInv, QueuesOK
<1>1. /\ pc[t] = "created" /\ db' = After(db, ResumePlan(t))
      /\ pc' = [pc EXCEPT ![t] = "replaying"]
      /\ copy' = [copy EXCEPT ![t] = Responding(t)] /\ todo' = [todo EXCEPT ![t] = <<1, Len(run[t].log)>>]
      /\ UNCHANGED <<run, chain, inflight, pending, process, bounds>>
  BY DEF SendResumes
<1>2. /\ up /\ up' /\ InCreate(t) /\ db.conv[ConvOf[t]].active = NoTurn
      /\ t # NoTurn /\ NoTurn \notin Turns /\ ConvOf[t] \in Convs /\ db \in DB
      /\ db.reply[t].text = <<>> /\ db.reply[t].status = "queued" /\ run[t].status = "open"
      /\ run[t].log \in Seq(EventKinds) /\ Len(run[t].log) \in Nat
  <2>1. run[t].log \in Seq(EventKinds) BY <1>0 DEF Typed, RunRec
  <2> QED BY <1>0, <1>1, <2>1, StillBare DEF SendingOK, InCreate, up, Typed
<1>3. PICK e : /\ Sent(t, ResumePlan(t), e, Streaming, Responding(t))
               /\ Responding(t) \in ConvRec /\ Responding(t).active = t /\ Responding(t).status # "absent"
  BY <1>1, ResumeStops
<1>4. /\ db' = e /\ e \in DB /\ e.user = db.user /\ e.act = db.act /\ e.claimed = db.claimed
      /\ Agree(db) => Agree(e)
      /\ StoreOK(e, run, edits)
      /\ e.conv = [db.conv EXCEPT ![ConvOf[t]] = Responding(t)]
      /\ e.reply = [db.reply EXCEPT ![t] = Streaming]
  BY <1>1, <1>3 DEF Sent
<1>5. /\ e.reply[t] = Streaming /\ \A s \in Turns \ {t} : e.reply[s] = db.reply[s]
      /\ e.conv[ConvOf[t]] = Responding(t) /\ \A c \in Convs \ {ConvOf[t]} : e.conv[c] = db.conv[c]
  BY <1>2, <1>4 DEF DB
<1>6. /\ pc'[t] = "replaying" /\ todo'[t] = <<1, Len(run[t].log)>>
      /\ \A s \in Turns \ {t} : pc'[s] = pc[s] /\ copy'[s] = copy[s] /\ todo'[s] = todo[s]
  BY <1>0, <1>1 DEF Typed
<1>7. Typed'
  <2>1. <<1, Len(run[t].log)>> \in (Nat \ {0}) \X Nat BY <1>2
  <2> QED BY <1>0, <1>1, <1>3, <1>4, <2>1 DEF Typed
<1>8. StoreOK(db, run, edits)' BY <1>1, <1>4
<1>9. RunsOK' BY <1>0, <1>1 DEF RunsOK, OneTurnAtATime, up
<1>10. \A s \in Turns : s # t /\ pc[s] # "idle" => ConvOf[s] # ConvOf[t]
  BY <1>0, <1>1 DEF SendingOK
<1>11. SendingOK'
  <2>1. ASSUME NEW s \in Turns, InCreate(s)'
        PROVE  /\ s \in db'.user
               /\ db'.conv[ConvOf[s]].active = NoTurn
               /\ db'.conv[ConvOf[s]].status # "absent"
               /\ db'.reply[s].status = "queued"
               /\ copy'[s].active = NoTurn /\ copy'[s].status \notin {"absent", "responding", "archived"}
               /\ copy'[s].title <= edits'
    <3>1. s # t BY <1>6, <2>1 DEF InCreate
    <3>2. InCreate(s) /\ ConvOf[s] # ConvOf[t] /\ ConvOf[s] \in Convs BY <1>6, <1>10, <2>1, <3>1 DEF InCreate
    <3> QED BY <1>0, <1>1, <1>4, <1>5, <1>6, <3>1, <3>2 DEF SendingOK
  <2>2. /\ \A s \in Turns : pc'[s] # "idle" <=> pc[s] # "idle"
        /\ \A s \in Turns : pc'[s] \in {"creating", "created"} => pc'[s] = pc[s]
    BY <1>1, <1>6
  <2>3. /\ \A s \in Turns : pc'[s] # "idle" => up' /\ ConvOf[s] \in pending'
        /\ \A r, s \in Turns : pc'[r] # "idle" /\ pc'[s] # "idle" /\ ConvOf[r] = ConvOf[s] => r = s
        /\ \A s \in Turns : pc'[s] = "creating" => run'[s].status = "none"
        /\ \A s \in Turns : pc'[s] = "created" =>
              run'[s].live /\ run'[s].status = "open" /\ run'[s].log = <<"created">> /\ ~run'[s].waiting
    BY <1>0, <1>1, <1>2, <2>2 DEF SendingOK
  <2>4. ASSUME NEW s \in Turns, pc'[s] = "replaying"
        PROVE  /\ todo'[s][2] <= Len(run'[s].log)
               /\ \A k \in 1..todo'[s][1] - 1 : <<s, k>> \in db'.claimed
    <3>1. CASE s # t BY <1>0, <1>1, <1>4, <1>6, <2>4, <3>1 DEF SendingOK
    <3>2. CASE s = t
      <4>1. todo'[t][1] = 1 /\ todo'[t][2] = Len(run[t].log) BY <1>6
      <4>2. 1..1 - 1 = {} OBVIOUS
      <4>3. todo'[t][2] <= Len(run[t].log) BY <1>2, <4>1
      <4> QED BY <1>1, <3>2, <4>1, <4>2, <4>3
    <3> QED BY <3>1, <3>2
  <2> QED BY <1>2, <2>1, <2>3, <2>4 DEF SendingOK
<1>12. ClaimsOK' BY <1>0, <1>1, <1>4 DEF ClaimsOK
<1>13. ChainOK' /\ \A f : InChain(f)' <=> InChain(f)
  <2>1. db.claimed \subseteq db'.claimed BY <1>4
  <2>2. chain' = chain /\ \A s \in Turns : run'[s].log = run[s].log /\ (run'[s].live => run[s].live) BY <1>1
  <2> QED BY <1>0, <2>1, <2>2, ChainStays
<1>14. /\ Alive(t)' /\ Alive(t)
       /\ \A s \in Turns \ {t} : /\ Alive(s)' <=> Alive(s)
                                 /\ db'.conv[ConvOf[s]].active = s <=> db.conv[ConvOf[s]].active = s
  <2>1. Alive(t)' /\ Alive(t) BY <1>1, <1>3, <1>4, <1>5 DEF Alive
  <2>2. ASSUME NEW s \in Turns \ {t}
        PROVE  /\ Alive(s)' <=> Alive(s)
               /\ db'.conv[ConvOf[s]].active = s <=> db.conv[ConvOf[s]].active = s
    <3>1. pc'[s] = "created" <=> pc[s] = "created" BY <1>6
    <3>2. db'.conv[ConvOf[s]].active = s <=> db.conv[ConvOf[s]].active = s
      <4>1. ConvOf[s] \in Convs /\ s # NoTurn OBVIOUS
      <4> QED BY <1>2, <1>3, <1>4, <1>5, <4>1
    <3> QED BY <3>1, <3>2 DEF Alive
  <2> QED BY <2>1, <2>2
<1>15. InflightOK'
  <2>1. ASSUME NEW i \in DOMAIN inflight PROVE InflightAt(i)'
    <3>1. InflightAt(i) BY <1>0 DEF InflightOK
    <3>2. inflight[i].by \in Consumers /\ inflight[i].event[1] \in Turns BY <1>0, InflightTyped
    <3>3. inflight[i].by # t BY <1>1, <1>2, <3>1 DEF InflightAt
    <3>4. inflight[i].by # NoTurn => /\ todo'[inflight[i].by] = todo[inflight[i].by]
                                     /\ pc'[inflight[i].by] = pc[inflight[i].by]
      BY <1>6, <3>2, <3>3 DEF Consumers
    <3> QED BY <1>1, <1>4, <1>14, <3>1, <3>2, <3>4 DEF InflightAt
  <2> QED BY <1>0, <1>1, <2>1 DEF InflightOK
<1>16. OverOK'
  <2> SUFFICES ASSUME NEW s \in Turns, ~Alive(s)'
               PROVE  /\ ~run'[s].live
                      /\ \A m \in Nat : InChain(<<s, m>>)' => <<s, m>> \in db'.claimed
                      /\ pc'[s] = "replaying" => \A m \in 1..todo'[s][2] : <<s, m>> \in db'.claimed
    BY DEF OverOK
  <2>1. s # t /\ ~Alive(s) BY <1>14
  <2> QED BY <1>0, <1>1, <1>2, <1>4, <1>6, <1>13, <2>1 DEF OverOK
<1>17. ActiveOK'
  <2>1. ASSUME NEW s \in Turns, db'.conv[ConvOf[s]].active = s
        PROVE  pc'[s] \in {"idle", "replaying"} /\ db'.reply[s].status \in Open /\ run'[s].status # "none"
    <3>1. CASE s = t
      <4>1. Streaming.status \in Open BY DEF Streaming, Open
      <4> QED BY <1>1, <1>2, <1>4, <1>5, <1>6, <3>1, <4>1
    <3>2. CASE s # t
      <4>1. db.conv[ConvOf[s]].active = s BY <1>14, <2>1, <3>2
      <4> QED BY <1>0, <1>1, <1>2, <1>4, <1>5, <1>6, <3>2, <4>1 DEF ActiveOK
    <3> QED BY <3>1, <3>2
  <2>2. node' # "starting" BY <1>2 DEF up
  <2> QED BY <2>1, <2>2 DEF ActiveOK
<1>18. ReplyFollowsEvents'
  <2> SUFFICES ASSUME NEW s \in Turns, Going(s)' PROVE Follows(s)'
    BY DEF ReplyFollowsEvents, Follows
  <2>1. Applied(s)' = Applied(s) BY <1>1, <1>4 DEF Applied
  <2>2. Going(s) BY <1>1, <1>2, <1>4, <1>5 DEF Open, Going
  <2>3. Follows(s) BY <1>0, <1>2, <2>2, FollowsIs
  <2>4. db'.reply[s].text = db.reply[s].text BY <1>2, <1>4, <1>5 DEF Streaming
  <2> QED BY <1>1, <1>4, <2>1, <2>3, <2>4 DEF Follows
<1>19. ActivitiesEnd' BY <1>0, <1>1, <1>4, <1>5 DEF ActivitiesEnd, Streaming, Ended
<1>20. ReadersAgree' BY <1>0, <1>2, <1>4 DEF ReadersAgree, Agree
<1> QED BY <1>7, <1>8, <1>9, <1>11, <1>12, <1>13, <1>15, <1>16, <1>17, <1>18, <1>19, <1>20
        DEF ConversationInv, QueuesOK

-----------------------------------------------------------------------------
(* create, rename, archive                                                  *)

LEMMA EditStops ==
    ASSUME Typed, StoreOK(db, run, edits), NEW c \in Convs, NEW y \in ConvRec, NEW k \in Nat, edits <= k,
           y.active = db.conv[c].active, y.active # NoTurn <=> y.status = "responding",
           y.status # "absent", y.title <= k
    PROVE  \E e \in DB :
              /\ e = After(db, <<Save(db, c, y), PublishConv(Save(db, c, y), c)>>)
              /\ e.conv = [db.conv EXCEPT ![c] = y]
              /\ e.reply = db.reply /\ e.act = db.act /\ e.user = db.user /\ e.claimed = db.claimed
              /\ Agree(db) => Agree(e)
              /\ StoreOK(e, run, k)
              /\ \A z \in Short(db, <<Save(db, c, y), PublishConv(Save(db, c, y), c)>>) : z = db \/ Like(z, e)
<1>0. db \in DB /\ edits \in Nat /\ db.conv \in [Convs -> ConvRec] BY DEF Typed, DB
<1>1. PICK plan : plan = <<Save(db, c, y), PublishConv(Save(db, c, y), c)>> OBVIOUS
<1>2. PICK e \in DB :
         /\ e = After(db, plan)
         /\ e.conv = [db.conv EXCEPT ![c] = y]
         /\ e.reply = db.reply /\ e.act = db.act /\ e.user = db.user /\ e.claimed = db.claimed
         /\ Agree(db) => Agree(e)
         /\ \A z \in Short(db, plan) : z = db \/ Like(z, e)
  BY <1>0, <1>1, ConvPlanIs
<1>3. e.conv[c] = y /\ \A x \in Convs \ {c} : e.conv[x] = db.conv[x] BY <1>0, <1>2
<1>4. ConvOK(e, c, k)
  <2>1. ConvOK(db, c, edits) BY DEF StoreOK
  <2> QED BY <1>2, <1>3, <2>1 DEF ConvOK
<1>5. StoreOK(e, run, k) BY <1>0, <1>2, <1>3, <1>4, OneConvMoves
<1> QED BY <1>1, <1>2, <1>5

LEMMA EditStep ==
    ASSUME ConversationInv, Quiet, NEW c \in Convs, NEW y \in ConvRec,
           db' = After(db, <<Save(db, c, y), PublishConv(Save(db, c, y), c)>>),
           y.active = db.conv[c].active, y.active # NoTurn <=> y.status = "responding",
           y.status # "absent", edits' \in 0..MaxEdits, edits <= edits', y.title <= edits',
           UNCHANGED <<run, chain, inflight, sendVars, process, crashes>>
    PROVE  ConversationInv'
<1> USE DEF process, sendVars
<1>0. /\ Typed /\ StoreOK(db, run, edits) /\ RunsOK /\ SendingOK /\ ClaimsOK /\ ChainOK /\ InflightOK
      /\ OverOK /\ ActiveOK /\ ReplyFollowsEvents /\ ActivitiesEnd /\ ReadersAgree
  BY DEF ConversationInv, QueuesOK
<1>1. /\ run' = run /\ chain' = chain /\ inflight' = inflight /\ pending' = pending /\ pc' = pc
      /\ copy' = copy /\ todo' = todo /\ node' = node /\ listed' = listed /\ crashes' = crashes
  OBVIOUS
<1>2. /\ up /\ up' /\ inflight = <<>> /\ db \in DB /\ edits \in Nat /\ edits' \in Nat
      /\ db.conv \in [Convs -> ConvRec]
  BY <1>0, <1>1 DEF Quiet, up, Typed, DB
<1>3. PICK k \in Nat : k = edits' BY <1>2
<1>4. PICK e \in DB :
         /\ e = After(db, <<Save(db, c, y), PublishConv(Save(db, c, y), c)>>)
         /\ e.conv = [db.conv EXCEPT ![c] = y]
         /\ e.reply = db.reply /\ e.act = db.act /\ e.user = db.user /\ e.claimed = db.claimed
         /\ Agree(db) => Agree(e)
         /\ StoreOK(e, run, k)
  BY <1>0, <1>3, EditStops
<1>5. db' = e BY <1>4
<1>6. /\ db'.conv[c] = y /\ \A x \in Convs \ {c} : db'.conv[x] = db.conv[x]
      /\ db'.reply = db.reply /\ db'.act = db.act /\ db'.user = db.user /\ db'.claimed = db.claimed
  BY <1>2, <1>4, <1>5
<1>7. \A x \in Convs : /\ db'.conv[x].active = db.conv[x].active
                       /\ db.conv[x].status # "absent" => db'.conv[x].status # "absent"
  BY <1>6
<1>8. Typed' BY <1>0, <1>1, <1>5 DEF Typed
<1>9. StoreOK(db, run, edits)' BY <1>1, <1>3, <1>4, <1>5
<1>10. RunsOK' BY <1>0, <1>1 DEF RunsOK, OneTurnAtATime, up
<1>11. SendingOK'
  <2>1. ASSUME NEW s \in Turns, InCreate(s)'
        PROVE  /\ s \in db'.user
               /\ db'.conv[ConvOf[s]].active = NoTurn
               /\ db'.conv[ConvOf[s]].status # "absent"
               /\ db'.reply[s].status = "queued"
               /\ copy'[s].active = NoTurn /\ copy'[s].status \notin {"absent", "responding", "archived"}
               /\ copy'[s].title <= edits'
    <3>1. InCreate(s) BY <1>1, <2>1 DEF InCreate
    <3>2. copy[s].title <= edits /\ copy[s].title \in Nat BY <1>0, <3>1 DEF SendingOK, Typed, ConvRec
    <3>3. copy[s].title <= edits' BY <1>2, <3>2
    <3>4. ConvOf[s] \in Convs OBVIOUS
    <3>5. /\ s \in db.user /\ db.conv[ConvOf[s]].active = NoTurn /\ db.conv[ConvOf[s]].status # "absent"
          /\ db.reply[s].status = "queued"
          /\ copy[s].active = NoTurn /\ copy[s].status \notin {"absent", "responding", "archived"}
      BY <1>0, <3>1 DEF SendingOK
    <3>6. db'.conv[ConvOf[s]].active = NoTurn /\ db'.conv[ConvOf[s]].status # "absent"
      BY <1>7, <3>4, <3>5
    <3>7. s \in db'.user /\ db'.reply[s].status = "queued" BY <1>6, <3>5
    <3> QED BY <1>1, <3>3, <3>5, <3>6, <3>7
  <2>2. /\ \A s \in Turns : pc'[s] # "idle" => up' /\ ConvOf[s] \in pending'
        /\ \A r, s \in Turns : pc'[r] # "idle" /\ pc'[s] # "idle" /\ ConvOf[r] = ConvOf[s] => r = s
        /\ \A s \in Turns : pc'[s] = "creating" => run'[s].status = "none"
        /\ \A s \in Turns : pc'[s] = "created" =>
              run'[s].live /\ run'[s].status = "open" /\ run'[s].log = <<"created">> /\ ~run'[s].waiting
    BY <1>0, <1>1, <1>2 DEF SendingOK
  <2>3. \A s \in Turns : pc'[s] = "replaying" =>
           /\ todo'[s][2] <= Len(run'[s].log)
           /\ \A m \in 1..todo'[s][1] - 1 : <<s, m>> \in db'.claimed
    BY <1>0, <1>1, <1>6 DEF SendingOK
  <2> QED BY <1>2, <2>1, <2>2, <2>3 DEF SendingOK
<1>12. ClaimsOK' BY <1>0, <1>1, <1>6 DEF ClaimsOK
<1>13. ChainOK' /\ \A f : InChain(f)' <=> InChain(f)
  <2>1. db.claimed \subseteq db'.claimed BY <1>6
  <2>2. chain' = chain /\ \A s \in Turns : run'[s].log = run[s].log /\ (run'[s].live => run[s].live) BY <1>1
  <2> QED BY <1>0, <2>1, <2>2, ChainStays
<1>14. \A s \in Turns : Alive(s)' <=> Alive(s) BY <1>1, <1>7 DEF Alive
<1>15. InflightOK' BY <1>1, <1>2 DEF InflightOK
<1>16. OverOK' BY <1>0, <1>1, <1>2, <1>6, <1>13, <1>14 DEF OverOK
<1>17. ActiveOK' BY <1>0, <1>1, <1>2, <1>6, <1>7 DEF ActiveOK, up
<1>18. ReplyFollowsEvents'
  <2> SUFFICES ASSUME NEW s \in Turns, Going(s)' PROVE Follows(s)'
    BY DEF ReplyFollowsEvents, Follows
  <2>1. Follows(s) BY <1>0, <1>1, <1>2, <1>6, FollowsIs DEF Going
  <2> QED BY <1>1, <1>2, <1>5, <1>6, <2>1, FollowsStays
<1>19. ActivitiesEnd' BY <1>0, <1>1, <1>6 DEF ActivitiesEnd
<1>20. ReadersAgree' BY <1>0, <1>2, <1>4, <1>5 DEF ReadersAgree, Agree
<1> QED BY <1>8, <1>9, <1>10, <1>11, <1>12, <1>13, <1>15, <1>16, <1>17, <1>18, <1>19, <1>20
        DEF ConversationInv, QueuesOK

Fresh == [status |-> "idle", active |-> NoTurn, title |-> 0]

LEMMA EditingSteps ==
    ASSUME ConversationInv, NEW c \in Convs
    PROVE  /\ Create(c) => ConversationInv'
           /\ Rename(c) => ConversationInv'
           /\ Archive(c) => ConversationInv'
<1> USE DEF process, bounds, sendVars
<1>0. /\ db \in DB /\ db.conv[c] \in ConvRec /\ edits \in 0..MaxEdits /\ edits \in Nat /\ ConvOK(db, c, edits)
      /\ MaxEdits \in Nat
  BY DEF ConversationInv, Typed, DB, StoreOK
<1>1. ASSUME Create(c) PROVE ConversationInv'
  <2>1. /\ Quiet /\ db.conv[c].active = NoTurn
        /\ UNCHANGED <<run, chain, inflight, sendVars, process, crashes>> /\ edits' = edits
    BY <1>0, <1>1 DEF Create, ConvOK
  <2>2. db' = After(db, <<Save(db, c, Fresh), PublishConv(Save(db, c, Fresh), c)>>)
    BY <1>1 DEF Create, CreatePlan, Fresh
  <2>3. Fresh \in ConvRec /\ Fresh.active = NoTurn /\ Fresh.status = "idle" /\ Fresh.title = 0
    BY DEF Fresh, ConvRec, Statuses
  <2>4. edits' \in 0..MaxEdits /\ edits <= edits' /\ Fresh.title <= edits' BY <1>0, <2>1, <2>3
  <2> QED BY <2>1, <2>2, <2>3, <2>4, EditStep
<1>2. ASSUME Rename(c) PROVE ConversationInv'
  <2> DEFINE y == [db.conv[c] EXCEPT !.title = edits + 1]
  <2>1. /\ Quiet /\ db.conv[c].status # "absent" /\ edits < MaxEdits /\ edits' = edits + 1
        /\ UNCHANGED <<run, chain, inflight, sendVars, process, crashes>>
    BY <1>2 DEF Rename
  <2>2. db' = After(db, <<Save(db, c, y), PublishConv(Save(db, c, y), c)>>)
    BY <1>2 DEF Rename, EditPlan
  <2>3. y \in ConvRec /\ y.active = db.conv[c].active /\ y.status = db.conv[c].status /\ y.title = edits + 1
    BY <1>0 DEF ConvRec
  <2> HIDE DEF y
  <2>4. edits' \in 0..MaxEdits /\ edits <= edits' /\ y.title <= edits' BY <1>0, <2>1, <2>3
  <2>5. y.active # NoTurn <=> y.status = "responding" BY <1>0, <2>3 DEF ConvOK
  <2> QED BY <2>1, <2>2, <2>3, <2>4, <2>5, EditStep
<1>3. ASSUME Archive(c) PROVE ConversationInv'
  <2> DEFINE y == [db.conv[c] EXCEPT !.status = "archived"]
  <2>1. /\ Quiet /\ db.conv[c].active = NoTurn /\ edits < MaxEdits /\ edits' = edits + 1
        /\ UNCHANGED <<run, chain, inflight, sendVars, process, crashes>>
    BY <1>3 DEF Archive
  <2>2. db' = After(db, <<Save(db, c, y), PublishConv(Save(db, c, y), c)>>)
    BY <1>3 DEF Archive, EditPlan
  <2>3. y \in ConvRec /\ y.active = NoTurn /\ y.status = "archived" /\ y.title = db.conv[c].title
    BY <1>0, <2>1 DEF ConvRec, Statuses
  <2> HIDE DEF y
  <2>4. db.conv[c].title <= edits /\ db.conv[c].title \in Nat BY <1>0 DEF ConvOK, ConvRec
  <2>5. edits' \in 0..MaxEdits /\ edits <= edits' /\ y.title <= edits' BY <1>0, <2>1, <2>3, <2>4
  <2> QED BY <2>1, <2>2, <2>3, <2>5, EditStep
<1> QED BY <1>1, <1>2, <1>3

-----------------------------------------------------------------------------
(* The start of the Node                                                    *)

\* A Run that was interrupted ends; one that is over may be gone.
LEMMA RecoveredOK ==
    ASSUME NEW r \in RunRec, RowOK(r), ~r.live, ~r.waiting, NEW old \in BOOLEAN
    PROVE  /\ Recovered(r, old) \in RunRec /\ RowOK(Recovered(r, old))
           /\ ~Recovered(r, old).live /\ ~Recovered(r, old).waiting
           /\ Recovered(r, old).status # "open"
           /\ r.status = "none" => Recovered(r, old).status = "none"
           /\ r.status \in Ended => Recovered(r, old).status \in {"none", r.status}
           /\ ~old => \A m \in Nat : m <= Len(r.log) => m <= Len(Recovered(r, old).log)
<1>1. /\ r.log \in Seq(EventKinds) /\ Len(r.log) \in Nat /\ r.status \in {"none", "open"} \cup Ended
  BY DEF RunRec
<1>2. CASE r.status = "open"
  <2> DEFINE q == [r EXCEPT !.status = "failed", !.log = Append(r.log, "failed")]
             l == r.log
  <2>1. Recovered(r, old) = q BY <1>2 DEF Recovered
  <2>2. "failed" \in EventKinds /\ "failed" \in Ended /\ "failed" \notin Verdicts /\ "failed" # "asked"
    BY DEF EventKinds, Ended, Verdicts
  <2>3. Append(l, "failed") \in Seq(EventKinds) BY <1>1, <2>2
  <2>4. /\ q \in RunRec /\ q.log = Append(l, "failed") /\ q.status = "failed" /\ ~q.live /\ ~q.waiting
    BY <2>2, <2>3 DEF RunRec
  <2>5. /\ Len(Append(l, "failed")) = Len(l) + 1 /\ DOMAIN l = 1..Len(l)
        /\ DOMAIN Append(l, "failed") = 1..Len(l) + 1
        /\ \A m \in 1..Len(l) : Append(l, "failed")[m] = l[m]
        /\ Append(l, "failed")[Len(l) + 1] = "failed" /\ Append(l, "failed") # <<>>
    BY <1>1
  <2> HIDE DEF q
  <2>6. l # <<>> /\ l[1] = "created" /\ 1 \in 1..Len(l)
    <3>1. l # <<>> /\ l[1] = "created" BY <1>2 DEF RowOK
    <3> QED BY <1>1, <3>1
  <2>7. \A m \in 1..Len(l) : l[m] \notin Ended
    <3>1. "open" \notin Ended BY DEF Ended
    <3> QED BY <1>2, <2>5, <3>1 DEF RowOK
  <2>8. \A m \in DOMAIN q.log : m = Len(l) + 1 \/ (m \in 1..Len(l) /\ q.log[m] = l[m])
    BY <1>1, <2>4, <2>5
  <2>9. q.log[Len(l) + 1] = "failed" /\ Len(q.log) = Len(l) + 1 BY <2>4, <2>5
  <2>10. RowOK(q)
    <3>1. q.log # <<>> /\ q.log[1] = "created" BY <2>4, <2>5, <2>6
    <3>2. \A m \in DOMAIN q.log : q.log[m] \in Ended => m = Len(q.log) /\ ~q.live /\ q.status = q.log[m]
      BY <2>4, <2>7, <2>8, <2>9
    <3>3. \A i, j \in DOMAIN q.log : q.log[i] = "asked" /\ q.log[j] = "asked" => i = j
      <4>1. \A i, j \in 1..Len(l) : l[i] = "asked" /\ l[j] = "asked" => i = j BY <2>5 DEF RowOK
      <4> QED BY <2>2, <2>8, <2>9, <4>1
    <3>4. \A i, j \in DOMAIN q.log : q.log[i] \in Verdicts /\ q.log[j] \in Verdicts => i = j
      <4>1. \A i, j \in 1..Len(l) : l[i] \in Verdicts /\ l[j] \in Verdicts => i = j BY <2>5 DEF RowOK
      <4> QED BY <2>2, <2>8, <2>9, <4>1
    <3>5. ASSUME NEW j \in DOMAIN q.log, q.log[j] \in Verdicts PROVE \E i \in 1..j - 1 : q.log[i] = "asked"
      <4>1. j \in 1..Len(l) /\ l[j] \in Verdicts BY <2>2, <2>8, <2>9, <3>5
      <4>2. PICK i \in 1..j - 1 : l[i] = "asked" BY <2>5, <4>1 DEF RowOK
      <4>3. i \in 1..Len(l) BY <1>1, <4>1
      <4>4. q.log[i] = "asked" BY <2>4, <2>5, <4>2, <4>3
      <4> QED BY <4>2, <4>4
    <3> QED BY <2>4, <3>1, <3>2, <3>3, <3>4, <3>5 DEF RowOK
  <2>11. \A m \in Nat : m <= Len(l) => m <= Len(q.log) BY <1>1, <2>9
  <2> QED BY <1>2, <2>1, <2>4, <2>10, <2>11 DEF Ended
<1>3. CASE r.status # "open" /\ old
  <2>1. Recovered(r, old) = NoRun BY <1>3 DEF Recovered
  <2>2. NoRun \in RunRec
    <3>1. <<>> \in Seq(EventKinds) OBVIOUS
    <3> QED BY <3>1 DEF NoRun, RunRec
  <2>3. RowOK(NoRun)
    <3>1. DOMAIN <<>> = {} OBVIOUS
    <3> QED BY <3>1 DEF RowOK, NoRun
  <2>4. ~NoRun.live /\ ~NoRun.waiting /\ NoRun.status = "none" BY DEF NoRun
  <2> QED BY <1>3, <2>1, <2>2, <2>3, <2>4
<1>4. CASE r.status # "open" /\ ~old
  <2>1. Recovered(r, old) = r BY <1>4 DEF Recovered
  <2> QED BY <1>4, <2>1
<1> QED BY <1>2, <1>3, <1>4

\* Nothing is under way in a process that is not up.
LEMMA Still ==
    ASSUME Typed, SendingOK, RunsOK, ~up
    PROVE  /\ chain = <<>> /\ inflight = <<>> /\ pending = {}
           /\ \A t \in Turns : pc[t] = "idle" /\ ~InCreate(t) /\ ~run[t].live /\ ~run[t].waiting
BY DEF SendingOK, RunsOK, InCreate

\* What is left to show of a step of a Node that is not up, before or after
LEMMA StillStep ==
    ASSUME Typed, SendingOK, RunsOK, ~up, UNCHANGED <<chain, inflight, sendVars, bounds>>,
           db' \in DB, run' \in [Turns -> RunRec], node' \in {"down", "starting", "up"}, listed' \subseteq Convs,
           StoreOK(db, run, edits)',
           \A t \in Turns : RowOK(run'[t]) /\ ~run'[t].live /\ ~run'[t].waiting /\ run'[t].status # "open",
           ClaimsOK', ActiveOK', ReplyFollowsEvents', ActivitiesEnd', ReadersAgree'
    PROVE  ConversationInv'
<1>1. /\ chain' = <<>> /\ inflight' = <<>> /\ pending' = {} /\ pc' = pc /\ copy' = copy /\ todo' = todo
      /\ edits' = edits /\ crashes' = crashes
      /\ \A t \in Turns : pc'[t] = "idle"
  BY Still DEF sendVars, bounds
<1>2. Typed' BY <1>1 DEF Typed, sendVars, bounds
<1>3. RunsOK' BY DEF RunsOK, OneTurnAtATime
<1>4. SendingOK' BY <1>1 DEF SendingOK, InCreate
<1>5. ChainOK' BY <1>1 DEF ChainOK
<1>6. InflightOK' BY <1>1 DEF InflightOK
<1>7. \A e : ~InChain(e)' BY <1>1 DEF InChain
<1>8. OverOK' BY <1>1, <1>7 DEF OverOK
<1> QED BY <1>2, <1>3, <1>4, <1>5, <1>6, <1>8 DEF ConversationInv, QueuesOK

LEMMA BootStep ==
    ASSUME ConversationInv, Boot
    PROVE  ConversationInv'
<1>0. /\ Typed /\ StoreOK(db, run, edits) /\ RunsOK /\ SendingOK /\ ClaimsOK /\ ChainOK /\ InflightOK
      /\ OverOK /\ ActiveOK /\ ReplyFollowsEvents /\ ActivitiesEnd /\ ReadersAgree
  BY DEF ConversationInv, QueuesOK
<1>1. PICK old \in BOOLEAN : /\ run' = [t \in Turns |-> Recovered(run[t], old)]
                             /\ db' = Unclaimed(old)
  BY DEF Boot
<1>2. /\ node' = "starting" /\ listed' = {c \in Convs : db.conv[c].active # NoTurn} /\ ~up /\ ~up'
      /\ UNCHANGED <<chain, inflight, sendVars, bounds>>
  BY DEF Boot, up
<1>3. /\ db \in DB /\ db' \in DB /\ db'.conv = db.conv /\ db'.user = db.user /\ db'.reply = db.reply
      /\ db'.act = db.act /\ db'.claimed \subseteq db.claimed /\ (old => db'.claimed = {})
      /\ (~old => db'.claimed = db.claimed)
  <2>1. db \in DB BY <1>0 DEF Typed
  <2>2. CASE old BY <1>1, <2>1, <2>2 DEF Unclaimed, DB
  <2>3. CASE ~old BY <1>1, <2>1, <2>3 DEF Unclaimed, DB
  <2> QED BY <2>1, <2>2, <2>3
<1>4. \A t \in Turns :
         /\ run[t] \in RunRec
         /\ run'[t] \in RunRec /\ RowOK(run'[t]) /\ ~run'[t].live /\ ~run'[t].waiting
         /\ run'[t].status # "open"
         /\ run[t].status = "none" => run'[t].status = "none"
         /\ run[t].status \in Ended => run'[t].status \in {"none", run[t].status}
         /\ ~old => \A m \in Nat : m <= Len(run[t].log) => m <= Len(run'[t].log)
  <2> SUFFICES ASSUME NEW t \in Turns
               PROVE  /\ run[t] \in RunRec
                      /\ run'[t] \in RunRec /\ RowOK(run'[t]) /\ ~run'[t].live /\ ~run'[t].waiting
                      /\ run'[t].status # "open"
                      /\ run[t].status = "none" => run'[t].status = "none"
                      /\ run[t].status \in Ended => run'[t].status \in {"none", run[t].status}
                      /\ ~old => \A m \in Nat : m <= Len(run[t].log) => m <= Len(run'[t].log)
    OBVIOUS
  <2>1. run[t] \in RunRec /\ RowOK(run[t]) BY <1>0 DEF Typed, RunsOK
  <2>2. ~run[t].live /\ ~run[t].waiting BY <1>0, <1>2, Still
  <2>3. run'[t] = Recovered(run[t], old) BY <1>1
  <2> QED BY <2>1, <2>2, <2>3, RecoveredOK
<1>5. run' \in [Turns -> RunRec] BY <1>1, <1>4
<1>6. StoreOK(db, run, edits)'
  <2>1. edits' = edits BY <1>2 DEF bounds
  <2>2. ASSUME NEW t \in Turns PROVE Untouched(db', run', t) /\ Bare(db', run', t) /\ EndsWell(db', run', t)
    <3>1. Untouched(db, run, t) /\ Bare(db, run, t) /\ EndsWell(db, run, t) BY <1>0 DEF StoreOK
    <3>2. Untouched(db', run', t) BY <1>3, <1>4, <3>1 DEF Untouched
    <3>3. Bare(db', run', t) BY <1>3, <1>4, <3>1 DEF Bare
    <3>4. EndsWell(db', run', t) BY <1>3, <1>4, <3>1 DEF EndsWell
    <3> QED BY <3>2, <3>3, <3>4
  <2>3. ASSUME NEW c \in Convs PROVE ConvOK(db', c, edits)
    <3>1. ConvOK(db, c, edits) BY <1>0 DEF StoreOK
    <3> QED BY <1>3, <3>1 DEF ConvOK
  <2> QED BY <2>1, <2>2, <2>3 DEF StoreOK
<1>7. ClaimsOK'
  <2> SUFFICES ASSUME NEW t \in Turns, NEW m \in Nat, <<t, m>> \in db'.claimed
               PROVE  m <= Len(run'[t].log) /\ \A k \in 1..m : <<t, k>> \in db'.claimed
    BY DEF ClaimsOK
  <2>1. ~old /\ db'.claimed = db.claimed BY <1>3
  <2>2. m <= Len(run[t].log) /\ \A k \in 1..m : <<t, k>> \in db.claimed BY <1>0, <2>1 DEF ClaimsOK
  <2> QED BY <1>4, <2>1, <2>2
<1>8. ActiveOK' BY <1>2, <1>3 DEF ActiveOK
<1>9. ReplyFollowsEvents' /\ ReadersAgree' BY <1>2 DEF ReplyFollowsEvents, ReadersAgree
<1>10. ActivitiesEnd' BY <1>0, <1>2, <1>3 DEF ActivitiesEnd, bounds
<1>11. node' \in {"down", "starting", "up"} /\ listed' \subseteq Convs BY <1>2
<1> QED BY <1>0, <1>2, <1>3, <1>4, <1>5, <1>6, <1>7, <1>8, <1>9, <1>10, <1>11, StillStep

LEMMA ReadyStep ==
    ASSUME ConversationInv, Ready
    PROVE  ConversationInv'
<1>0. /\ Typed /\ StoreOK(db, run, edits) /\ RunsOK /\ SendingOK /\ ClaimsOK
      /\ ActiveOK /\ ActivitiesEnd
  BY DEF ConversationInv, QueuesOK
<1> DEFINE tables == [conv |-> db.conv, reply |-> db.reply, act |-> db.act]
<1>1. /\ node = "starting" /\ node' = "up" /\ ~up /\ up' /\ listed = {} /\ listed' = {}
      /\ db' = [db EXCEPT !.seen = tables]
      /\ run' = run /\ UNCHANGED <<chain, inflight, sendVars, bounds>>
  BY DEF Ready, up
<1>2. db \in DB /\ tables \in Tables BY <1>0 DEF Typed, DB, Tables
<1>3. /\ db' \in DB /\ db'.conv = db.conv /\ db'.user = db.user /\ db'.reply = db.reply
      /\ db'.act = db.act /\ db'.claimed = db.claimed /\ db'.seen = tables
  <2> HIDE DEF tables
  <2> QED BY <1>1, <1>2 DEF DB
<1>4. Like(db', db) BY <1>3 DEF Like
<1>5. StoreOK(db, run, edits)'
  <2>1. edits' = edits BY <1>1 DEF bounds
  <2>2. StoreOK(db', run', edits) BY <1>0, <1>1, <1>4, StoreAlike
  <2> QED BY <2>1, <2>2
<1>6. \A c \in Convs : db.conv[c].active = NoTurn BY <1>0, <1>1 DEF ActiveOK
<1>7. \A t \in Turns : RowOK(run'[t]) /\ ~run'[t].live /\ ~run'[t].waiting /\ run'[t].status # "open"
  BY <1>0, <1>1, Still DEF RunsOK
<1>8. ClaimsOK' BY <1>0, <1>1, <1>3 DEF ClaimsOK
<1>9. ActiveOK'
  <2>1. \A t \in Turns : db'.conv[ConvOf[t]].active # t
    <3>1. NoTurn \notin Turns OBVIOUS
    <3> QED BY <1>3, <1>6, <3>1
  <2> QED BY <1>1, <2>1 DEF ActiveOK
<1>10. ReplyFollowsEvents'
  <2> SUFFICES ASSUME NEW t \in Turns, Going(t)' PROVE Follows(t)'
    BY DEF ReplyFollowsEvents, Follows
  <2>1. db.reply[t].status \in Open /\ run[t].status # "none" BY <1>1, <1>3 DEF Going
  <2>2. db.conv[ConvOf[t]].active # t
    <3>1. NoTurn \notin Turns /\ ConvOf[t] \in Convs OBVIOUS
    <3> QED BY <1>6, <3>1
  <2>3. Bare(db, run, t) /\ RowOK(run[t]) BY <1>0 DEF StoreOK, RunsOK
  <2>4. /\ db.reply[t].text = <<>> /\ db.act[t].approval = "none"
        /\ \A m \in Nat : <<t, m>> \in db.claimed => m = 1
    BY <2>1, <2>2, <2>3 DEF Bare, NoAct
  <2>5. run[t].log # <<>> /\ run[t].log[1] = "created" /\ run[t].log \in Seq(EventKinds)
    BY <1>0, <2>1, <2>3 DEF RowOK, Typed, RunRec
  <2>6. 1 \in 0..Len(run[t].log) /\ 0 \in 0..Len(run[t].log) BY <2>5
  <2>7. inflight' = <<>> BY <1>0, <1>1, Still
  <2>8. ASSUME NEW n \in {0, 1} PROVE Spells(<<>>, run[t].log, n) /\ ApprovalOf(run[t].log, n) = "none"
    <3>1. \A i \in 1..n : run[t].log[i] = "created" BY <2>5
    <3>2. DOMAIN <<>> = {} OBVIOUS
    <3>3. Spells(<<>>, run[t].log, n) BY <3>1, <3>2 DEF Spells, Said
    <3>4. ApprovalOf(run[t].log, n) = "none" BY <3>1 DEF ApprovalOf
    <3> QED BY <3>3, <3>4
  <2>9. Applied(t)' = {i \in 1..Len(run[t].log) : <<t, i>> \in db.claimed}
    BY <1>1, <1>3, <2>7 DEF Applied
  <2>10. CASE <<t, 1>> \in db.claimed
    <3>1. Applied(t)' = 1..1 BY <2>4, <2>6, <2>9, <2>10
    <3> QED BY <1>1, <1>3, <2>4, <2>6, <2>8, <3>1 DEF Follows
  <2>11. CASE <<t, 1>> \notin db.claimed
    <3>1. Applied(t)' = {} /\ 1..0 = {} BY <2>4, <2>9, <2>11
    <3> QED BY <1>1, <1>3, <2>4, <2>6, <2>8, <3>1 DEF Follows
  <2> QED BY <2>10, <2>11
<1>11. ActivitiesEnd' BY <1>0, <1>1, <1>3 DEF ActivitiesEnd, bounds
<1>12. ReadersAgree' BY <1>3 DEF ReadersAgree
<1>13. /\ run' \in [Turns -> RunRec] /\ node' \in {"down", "starting", "up"} /\ listed' \subseteq Convs
  BY <1>0, <1>1 DEF Typed
<1> QED BY <1>0, <1>1, <1>3, <1>5, <1>7, <1>8, <1>9, <1>10, <1>11, <1>12, <1>13, StillStep

\* Reconciliation: the Run is gone, or it is over.
LEMMA ReconcileStops ==
    ASSUME Typed, StoreOK(db, run, edits), NEW c \in Convs, db.conv[c].active # NoTurn,
           \A s \in Turns : run[s].status # "open"
    PROVE  \E e \in DB :
              /\ e = After(db, ReconcilePlan(c))
              /\ e.conv[c].active = NoTurn /\ \A x \in Convs \ {c} : e.conv[x] = db.conv[x]
              /\ e.claimed = db.claimed
              /\ StoreOK(e, run, edits)
              /\ \A z \in Short(db, ReconcilePlan(c)) : Left(z)
<1>0. /\ db \in DB /\ edits \in Nat /\ edits <= edits /\ db.conv \in [Convs -> ConvRec]
      /\ db.reply \in [Turns -> ReplyRec] /\ db.conv[c] \in ConvRec
  BY DEF Typed, DB
<1>1. PICK t \in Turns : t = db.conv[c].active BY <1>0 DEF ConvRec
<1>2. ConvOK(db, c, edits) BY DEF StoreOK
<1>3. /\ ConvOf[t] = c /\ db.reply[t].status \notin {"absent", "queued"} /\ db.conv[c].status = "responding"
      /\ db.conv[c].title <= edits
  BY <1>1, <1>2 DEF ConvOK
<1>4. run[t].status \in {"none"} \cup Ended
  <2>1. run[t] \in RunRec BY DEF Typed
  <2> QED BY <2>1 DEF RunRec
<1>5. CASE run[t].status = "none"
  <2>1. PICK e, m \in DB :
           /\ e = After(db, ReconcilePlan(c))
           /\ e.conv = [db.conv EXCEPT ![c] = [db.conv[c] EXCEPT !.active = NoTurn, !.status = "error"]]
           /\ e.reply = [db.reply EXCEPT ![t] = [db.reply[t] EXCEPT !.status = "failed"]]
           /\ e.user = db.user /\ e.act = db.act /\ e.claimed = db.claimed
           /\ m = [db EXCEPT !.conv = e.conv]
           /\ \A z \in Short(db, ReconcilePlan(c)) : z = db \/ z = m \/ Like(z, e)
    BY <1>0, <1>1, <1>5, LostPlanIs
  <2>2. /\ e.conv[c].active = NoTurn /\ e.conv[c].status = "error" /\ e.conv[c].title = db.conv[c].title
        /\ \A x \in Convs \ {c} : e.conv[x] = db.conv[x]
    BY <1>0, <2>1 DEF ConvRec
  <2>3. /\ m.conv = e.conv /\ m.reply = db.reply /\ m.user = db.user /\ m.act = db.act /\ m.claimed = db.claimed
    BY <1>0, <2>1 DEF DB
  <2>4. e.reply[t].status = "failed" /\ \A s \in Turns \ {t} : e.reply[s] = db.reply[s]
    <3>1. db.reply[t] \in ReplyRec BY <1>0
    <3> QED BY <1>0, <2>1, <3>1 DEF ReplyRec
  <2>5. Untouched(db, run, t) /\ EndsWell(db, run, t) BY DEF StoreOK
  <2>6. ASSUME NEW z \in DB, z.conv = e.conv, z.user = db.user, z.act = db.act, z.claimed = db.claimed,
               z.reply = db.reply \/ z.reply = e.reply
        PROVE  StoreOK(z, run, edits)
    <3>1. /\ \A s \in Turns \ {t} : z.reply[s] = db.reply[s]
          /\ z.reply[t] = db.reply[t] \/ z.reply[t].status = "failed"
      BY <2>4, <2>6
    <3>2. z.reply[t].status \notin {"absent", "queued"} BY <1>3, <3>1
    <3>3. Untouched(z, run, t) BY <1>3, <2>5, <2>6, <3>2 DEF Untouched
    <3>4. Bare(z, run, t) BY <1>5, <3>2 DEF Bare
    <3>5. EndsWell(z, run, t) BY <1>5, <2>5, <3>1 DEF EndsWell
    <3>6. ConvOK(z, c, edits)
      <4>1. NoTurn \notin Turns OBVIOUS
      <4> QED BY <1>3, <2>2, <2>6, <4>1 DEF ConvOK
    <3>7. db.conv[ConvOf[t]].active \notin Turns \ {t} BY <1>1, <1>3
    <3>8. \A s \in Turns \ {t} : /\ z.act[s] = db.act[s] /\ (s \in z.user <=> s \in db.user)
                                 /\ \A k \in Nat : <<s, k>> \in z.claimed => <<s, k>> \in db.claimed
      BY <2>6
    <3>9. \A x \in Convs \ {ConvOf[t]} : z.conv[x] = db.conv[x] BY <1>3, <2>2, <2>6
    <3> QED BY <1>0, <1>3, <3>1, <3>3, <3>4, <3>5, <3>6, <3>7, <3>8, <3>9, OneTurnMoves
  <2>7. StoreOK(e, run, edits) /\ StoreOK(m, run, edits) BY <2>1, <2>3, <2>6
  <2>8. ASSUME NEW z \in Short(db, ReconcilePlan(c)) PROVE Left(z)
    <3>1. CASE Like(z, e)
      <4>1. z \in DB /\ z.claimed = e.claimed BY <3>1 DEF Like
      <4>2. StoreOK(z, run, edits) BY <2>7, <3>1, StoreAlike
      <4> QED BY <2>1, <4>1, <4>2 DEF Left
    <3>2. CASE z = m BY <2>3, <2>7, <3>2 DEF Left
    <3>3. CASE z = db BY <1>0, <3>3 DEF Left
    <3> QED BY <2>1, <2>8, <3>1, <3>2, <3>3
  <2> QED BY <2>1, <2>2, <2>7, <2>8, Zenon
<1>6. CASE run[t].status \in Ended
  <2>1. ReconcilePlan(c) = FinishPlan(db, t, run[t].status) BY <1>1, <1>6 DEF ReconcilePlan, Ended
  <2>2. PICK e \in DB :
           /\ e = After(db, FinishPlan(db, t, run[t].status))
           /\ e.conv = [db.conv EXCEPT ![ConvOf[t]] = FinalConv(db, ConvOf[t], run[t].status)]
           /\ e.reply = [db.reply EXCEPT ![t] = FinalReply(db, t, run[t].status)]
           /\ e.user = db.user /\ e.claimed = db.claimed
           /\ \A s \in Turns \ {t} : e.act[s] = db.act[s]
           /\ e.act[t].work # "running"
           /\ Agree(db) => Agree(e)
           /\ StoreOK(e, run, edits)
           /\ \A z \in Short(db, FinishPlan(db, t, run[t].status)) : Left(z)
    BY <1>0, <1>1, <1>3, <1>6, FinishStops
  <2>3. e.conv[c].active = NoTurn /\ \A x \in Convs \ {c} : e.conv[x] = db.conv[x]
    BY <1>0, <1>3, <2>2 DEF FinalConv, ConvRec
  <2> QED BY <2>1, <2>2, <2>3, Zenon
<1> QED BY <1>4, <1>5, <1>6

LEMMA ReconcileStep ==
    ASSUME ConversationInv, NEW c \in Convs, Reconcile(c)
    PROVE  ConversationInv'
<1>0. /\ Typed /\ StoreOK(db, run, edits) /\ RunsOK /\ SendingOK /\ ClaimsOK
      /\ ActiveOK /\ ActivitiesEnd
  BY DEF ConversationInv, QueuesOK
<1>1. /\ node = "starting" /\ node' = "starting" /\ ~up /\ ~up' /\ c \in listed /\ listed' = listed \ {c}
      /\ db' = After(db, ReconcilePlan(c))
      /\ run' = run /\ UNCHANGED <<chain, inflight, sendVars, bounds>>
  BY DEF Reconcile, up
<1>2. /\ \A s \in Turns : run[s].status # "open"
      /\ db.conv[c].active # NoTurn /\ crashes > 0
  BY <1>0, <1>1 DEF RunsOK, ActiveOK, SendingOK
<1>3. PICK e \in DB :
         /\ e = After(db, ReconcilePlan(c))
         /\ e.conv[c].active = NoTurn /\ \A x \in Convs \ {c} : e.conv[x] = db.conv[x]
         /\ e.claimed = db.claimed
         /\ StoreOK(e, run, edits)
  BY <1>0, <1>2, ReconcileStops
<1>4. db' = e BY <1>1, <1>3
<1>5. StoreOK(db, run, edits)'
  <2>1. edits' = edits BY <1>1 DEF bounds
  <2> QED BY <1>1, <1>3, <1>4, <2>1
<1>6. \A t \in Turns : RowOK(run'[t]) /\ ~run'[t].live /\ ~run'[t].waiting /\ run'[t].status # "open"
  BY <1>0, <1>1, <1>2, Still DEF RunsOK
<1>7. ClaimsOK' BY <1>0, <1>1, <1>3, <1>4 DEF ClaimsOK
<1>8. ActiveOK'
  <2>1. \A x \in Convs : db'.conv[x].active # NoTurn <=> x \in listed'
    BY <1>0, <1>1, <1>3, <1>4 DEF ActiveOK
  <2> QED BY <1>1, <2>1 DEF ActiveOK
<1>9. ReplyFollowsEvents' /\ ReadersAgree' BY <1>1 DEF ReplyFollowsEvents, ReadersAgree
<1>10. ActivitiesEnd'
  <2>1. crashes' = crashes /\ crashes \in Nat BY <1>0, <1>1 DEF bounds, Typed
  <2>2. crashes' # 0 BY <1>2, <2>1
  <2> QED BY <2>2 DEF ActivitiesEnd
<1>11. /\ db' \in DB /\ run' \in [Turns -> RunRec] /\ node' \in {"down", "starting", "up"} /\ listed' \subseteq Convs
  BY <1>0, <1>1, <1>4 DEF Typed
<1> QED BY <1>0, <1>1, <1>5, <1>6, <1>7, <1>8, <1>9, <1>10, <1>11, StillStep

-----------------------------------------------------------------------------
(* The death of the Node                                                    *)

LEMMA ApplyStops ==
    ASSUME ConversationInv, up, inflight # <<>>, NEW z \in Short(db, ApplyPlan(inflight[1].event))
    PROVE  Left(z)
<1>0. Typed /\ StoreOK(db, run, edits) /\ RunsOK /\ SendingOK /\ ActiveOK BY DEF ConversationInv
<1>1. PICK t \in Turns, m \in Nat \ {0} :
         inflight[1].event = <<t, m>> /\ Alive(t) /\ m <= Len(run[t].log)
  BY Arrives
<1>2. /\ db \in DB /\ edits \in Nat /\ run[t] \in RunRec /\ run[t].log \in Seq(EventKinds) /\ RowOK(run[t])
      /\ m \in DOMAIN run[t].log
  <2>1. run[t] \in RunRec /\ db \in DB /\ edits \in Nat /\ RowOK(run[t]) BY <1>0 DEF Typed, RunsOK
  <2>2. run[t].log \in Seq(EventKinds) BY <2>1 DEF RunRec
  <2> QED BY <1>1, <2>1, <2>2
<1>3. PICK kind \in EventKinds : kind = run[t].log[m] BY <1>2
<1>4. ApplyPlan(<<t, m>>) = IF kind \in Ended THEN FinishPlan(db, t, run[t].status) ELSE NormalizePlan(t, m, kind)
  BY <1>3 DEF ApplyPlan
<1>5. CASE kind \in Ended
  <2>1. ~run[t].live /\ run[t].status = kind BY <1>2, <1>3, <1>5 DEF RowOK
  <2>2. pc[t] # "created" BY <1>0, <2>1 DEF SendingOK
  <2>3. db.conv[ConvOf[t]].active = t BY <1>1, <2>2 DEF Alive
  <2>4. \A x \in Short(db, FinishPlan(db, t, run[t].status)) : Left(x)
    BY <1>0, <1>2, <1>5, <2>1, <2>3, FinishStops
  <2> QED BY <1>1, <1>4, <1>5, <2>4
<1>6. CASE kind \notin Ended
  <2>1. PICK e \in DB :
           /\ e = After(db, NormalizePlan(t, m, kind))
           /\ Written(db, e, t, m, kind)
           /\ Agree(db) => Agree(e)
           /\ \A x \in Short(db, NormalizePlan(t, m, kind)) : x = db \/ Like(x, e)
    BY <1>2, <1>6, NormalizePlanIs
  <2>2. db.reply[t].status \in Open /\ (db.conv[ConvOf[t]].active = t \/ kind = "created")
    <3>1. CASE pc[t] = "created"
      <4>1. db.reply[t].status = "queued" /\ run[t].log = <<"created">>
        BY <1>0, <3>1 DEF SendingOK, InCreate
      <4>2. m = 1 BY <1>2, <4>1
      <4>3. kind = "created" BY <1>3, <4>1, <4>2
      <4> QED BY <4>1, <4>3 DEF Open
    <3>2. CASE pc[t] # "created"
      <4>1. db.conv[ConvOf[t]].active = t BY <1>1, <3>2 DEF Alive
      <4> QED BY <1>0, <4>1 DEF ActiveOK
    <3> QED BY <3>1, <3>2
  <2>3. StoreOK(e, run, edits) BY <1>0, <1>2, <1>6, <2>1, <2>2, WrittenStore
  <2>4. z = db \/ Like(z, e) BY <1>1, <1>4, <1>6, <2>1
  <2>5. CASE Like(z, e)
    <3>1. z \in DB /\ z.claimed = e.claimed BY <2>5 DEF Like
    <3>2. StoreOK(z, run, edits) BY <2>3, <2>5, StoreAlike
    <3>3. e.claimed = db.claimed BY <2>1 DEF Written
    <3> QED BY <3>1, <3>2, <3>3 DEF Left
  <2>6. CASE z = db BY <1>0, <1>2, <2>6 DEF Left
  <2> QED BY <2>4, <2>5, <2>6
<1> QED BY <1>5, <1>6

\* Whatever plan is under way, a process that dies leaves tables in order.
LEMMA CrashLeaves ==
    ASSUME ConversationInv, Crash
    PROVE  Left(db')
<1>0. /\ Typed /\ StoreOK(db, run, edits) /\ RunsOK /\ SendingOK /\ ActiveOK /\ db \in DB
  BY DEF ConversationInv, Typed
<1>1. Left(db) BY <1>0 DEF Left
<1>2. ASSUME NEW plan \in Underway, NEW z \in Short(db, plan) PROVE Left(z)
  <2>1. ASSUME NEW c \in Convs, db.conv[c].status = "absent", plan = CreatePlan(c) PROVE Left(z)
    <3>1. /\ Fresh \in ConvRec /\ Fresh.active = NoTurn /\ Fresh.status = "idle" /\ Fresh.title = 0
          /\ edits \in Nat /\ edits <= edits
      BY <1>0 DEF Fresh, ConvRec, Statuses, Typed
    <3>2. db.conv[c].active = NoTurn
      <4>1. ConvOK(db, c, edits) BY <1>0 DEF StoreOK
      <4> QED BY <2>1, <4>1 DEF ConvOK
    <3>3. Fresh.title <= edits BY <3>1
    <3>4. PICK e \in DB :
             /\ e = After(db, <<Save(db, c, Fresh), PublishConv(Save(db, c, Fresh), c)>>)
             /\ e.conv = [db.conv EXCEPT ![c] = Fresh]
             /\ e.reply = db.reply /\ e.act = db.act /\ e.user = db.user /\ e.claimed = db.claimed
             /\ Agree(db) => Agree(e)
             /\ StoreOK(e, run, edits)
             /\ \A x \in Short(db, <<Save(db, c, Fresh), PublishConv(Save(db, c, Fresh), c)>>) : x = db \/ Like(x, e)
      BY <1>0, <3>1, <3>2, <3>3, EditStops
    <3>5. plan = <<Save(db, c, Fresh), PublishConv(Save(db, c, Fresh), c)>> BY <2>1 DEF CreatePlan, Fresh
    <3>6. z = db \/ Like(z, e) BY <1>2, <3>4, <3>5
    <3>7. CASE Like(z, e)
      <4>1. z \in DB /\ z.claimed = e.claimed BY <3>7 DEF Like
      <4>2. StoreOK(z, run, edits) BY <3>4, <3>7, StoreAlike
      <4> QED BY <3>4, <4>1, <4>2 DEF Left
    <3> QED BY <1>1, <3>6, <3>7
  <2>2. ASSUME NEW t \in Turns, CanSend(t), plan = SendPlan(t) PROVE Left(z)
    <3>0. /\ t \notin db.user /\ edits \in Nat /\ edits <= edits /\ ConvOf[t] \in Convs
          /\ db.conv[ConvOf[t]].active = NoTurn /\ NoTurn \notin Turns
      BY <1>0, <2>2 DEF CanSend, Typed
    <3>1. PICK e, m \in DB :
             /\ e = After(db, SendPlan(t))
             /\ e.user = db.user \cup {t}
             /\ e.reply = [db.reply EXCEPT ![t] = Queued]
             /\ e.conv = db.conv /\ e.act = db.act /\ e.claimed = db.claimed
             /\ Agree(db) => Agree(e)
             /\ m = [db EXCEPT !.user = db.user \cup {t}]
             /\ \A x \in Short(db, SendPlan(t)) : x = db \/ x = m \/ Like(x, e)
      BY <1>0, SendPlanIs
    <3>2. /\ db.reply[t].status = "absent" /\ run[t].status = "none" /\ db.act[t] = NoAct /\ RowOK(run[t])
      BY <1>0, <3>0 DEF StoreOK, Untouched, RunsOK
    <3>3. \A k \in Nat : <<t, k>> \notin db.claimed
      <4>1. ClaimsOK /\ ChainOK BY DEF ConversationInv, QueuesOK
      <4> QED BY <1>0, <3>2, <4>1, NothingYet
    <3>4. /\ m.conv = db.conv /\ m.reply = db.reply /\ m.act = db.act /\ m.claimed = db.claimed
          /\ m.user = db.user \cup {t}
      BY <1>0, <3>1 DEF DB
    <3>5. ASSUME NEW x \in DB, x.conv = db.conv, x.act = db.act, x.claimed = db.claimed,
                 x.user = db.user \cup {t}, x.reply = db.reply \/ x.reply = [db.reply EXCEPT ![t] = Queued]
          PROVE  StoreOK(x, run, edits)
      <4>1. Queued.status = "queued" /\ Queued.text = <<>> BY DEF Queued
      <4>2. /\ x.reply[t] = db.reply[t] \/ x.reply[t] = Queued
            /\ \A s \in Turns \ {t} : x.reply[s] = db.reply[s]
        BY <1>0, <3>5 DEF DB
      <4>3. Untouched(x, run, t) BY <3>2, <3>5, <4>2 DEF Untouched
      <4>4. Bare(x, run, t) BY <3>2, <3>3, <3>5, <4>1, <4>2 DEF Bare
      <4>5. EndsWell(x, run, t) BY <3>2, <4>1, <4>2 DEF EndsWell, Ended
      <4>6. ConvOK(x, ConvOf[t], edits)
        <5>1. ConvOK(db, ConvOf[t], edits) BY <1>0, <3>0 DEF StoreOK
        <5> QED BY <3>0, <3>5, <5>1 DEF ConvOK
      <4>7. \A s \in Turns \ {t} : /\ x.act[s] = db.act[s] /\ (s \in x.user <=> s \in db.user)
                                   /\ \A k \in Nat : <<s, k>> \in x.claimed => <<s, k>> \in db.claimed
        BY <3>5
      <4>8. \A y \in Convs \ {ConvOf[t]} : x.conv[y] = db.conv[y] BY <3>5
      <4>9. db.conv[ConvOf[t]].active \notin Turns \ {t} BY <3>0
      <4> QED BY <1>0, <3>0, <4>2, <4>3, <4>4, <4>5, <4>6, <4>7, <4>8, <4>9, OneTurnMoves
    <3>6. StoreOK(e, run, edits) /\ StoreOK(m, run, edits) BY <3>1, <3>4, <3>5
    <3>7. CASE Like(z, e)
      <4>1. z \in DB /\ z.claimed = e.claimed BY <3>7 DEF Like
      <4>2. StoreOK(z, run, edits) BY <3>6, <3>7, StoreAlike
      <4> QED BY <3>1, <4>1, <4>2 DEF Left
    <3>8. CASE z = m BY <3>4, <3>6, <3>8 DEF Left
    <3> QED BY <1>1, <1>2, <2>2, <3>1, <3>7, <3>8
  <2>3. ASSUME NEW t \in Turns, pc[t] = "created", plan = ResumePlan(t) PROVE Left(z)
    <3>1. PICK e : Sent(t, ResumePlan(t), e, Streaming, Responding(t)) BY <2>3, ResumeStops
    <3> QED BY <1>2, <2>3, <3>1 DEF Sent
  <2>4. ASSUME NEW t \in Turns, pc[t] = "creating", plan = FailPlan(db, t, copy[t]) PROVE Left(z)
    <3>1. PICK e, y : Sent(t, FailPlan(db, t, copy[t]), e, Failed, y) BY <2>4, FailStops
    <3> QED BY <1>2, <2>4, <3>1 DEF Sent
  <2>5. ASSUME inflight # <<>>, plan = ApplyPlan(inflight[1].event), up PROVE Left(z)
    BY <1>2, <2>5, ApplyStops
  <2>6. ASSUME NEW c \in listed, ~up, plan = ReconcilePlan(c) PROVE Left(z)
    <3>1. node = "starting" /\ c \in Convs BY <1>0, <2>6 DEF Crash, up, Typed
    <3>2. db.conv[c].active # NoTurn /\ \A s \in Turns : run[s].status # "open"
      BY <1>0, <2>6, <3>1 DEF ActiveOK, RunsOK
    <3>3. PICK e \in DB :
             /\ e = After(db, ReconcilePlan(c))
             /\ e.conv[c].active = NoTurn /\ \A x \in Convs \ {c} : e.conv[x] = db.conv[x]
             /\ e.claimed = db.claimed
             /\ StoreOK(e, run, edits)
             /\ \A x \in Short(db, ReconcilePlan(c)) : Left(x)
      BY <1>0, <3>1, <3>2, ReconcileStops
    <3> QED BY <1>2, <2>6, <3>3
  <2>7. CASE up
    <3>1. \/ \E c \in Convs : db.conv[c].status = "absent" /\ plan = CreatePlan(c)
          \/ \E t \in Turns : CanSend(t) /\ plan = SendPlan(t)
          \/ \E t \in Turns : pc[t] = "created" /\ plan = ResumePlan(t)
          \/ \E t \in Turns : pc[t] = "creating" /\ plan = FailPlan(db, t, copy[t])
          \/ \E i \in DOMAIN inflight \cap {1} : plan = ApplyPlan(inflight[i].event)
      BY <1>2, <2>7 DEF Underway
    <3>2. 1 \in DOMAIN inflight => inflight # <<>> BY <1>0 DEF Typed
    <3> QED BY <2>1, <2>2, <2>3, <2>4, <2>5, <2>7, <3>1, <3>2
  <2>8. CASE ~up
    <3>1. \E c \in listed : plan = ReconcilePlan(c) BY <1>2, <2>8 DEF Underway
    <3> QED BY <2>6, <2>8, <3>1
  <2> QED BY <2>7, <2>8
<1>3. db' = db \/ \E plan \in Underway : db' \in Short(db, plan) BY DEF Crash
<1> QED BY <1>1, <1>2, <1>3

LEMMA CrashStep ==
    ASSUME ConversationInv, Crash
    PROVE  ConversationInv'
<1>0. Typed /\ RunsOK /\ ClaimsOK /\ StoreOK(db, run, edits) BY DEF ConversationInv, QueuesOK
<1>1. /\ node' = "down" /\ listed' = {} /\ chain' = <<>> /\ inflight' = <<>> /\ pending' = {}
      /\ crashes' = crashes + 1 /\ edits' = edits
  BY DEF Crash
<1>2. db' \in DB /\ StoreOK(db', run, edits) /\ db'.claimed = db.claimed BY CrashLeaves DEF Left
<1>3. ~up' BY <1>1 DEF up
<1>4. /\ run' \in [Turns -> RunRec]
      /\ \A t \in Turns : /\ run'[t].status = run[t].status /\ run'[t].log = run[t].log
                           /\ ~run'[t].live /\ ~run'[t].waiting
  <2> DEFINE r(t) == [run[t] EXCEPT !.live = FALSE, !.waiting = FALSE, !.cancelled = FALSE]
  <2>1. run' = [t \in Turns |-> r(t)] BY DEF Crash
  <2>2. ASSUME NEW t \in Turns
        PROVE  /\ r(t) \in RunRec /\ r(t).status = run[t].status /\ r(t).log = run[t].log
               /\ ~r(t).live /\ ~r(t).waiting
    <3>1. run[t] \in RunRec BY <1>0 DEF Typed
    <3> QED BY <3>1 DEF RunRec
  <2> HIDE DEF r
  <2> QED BY <2>1, <2>2
<1>41. /\ pc' \in [Turns -> {"idle", "creating", "created", "replaying"}] /\ copy' \in [Turns -> ConvRec]
       /\ todo' \in [Turns -> (Nat \ {0}) \X Nat]
       /\ \A t \in Turns : pc'[t] = "idle"
  <2>1. NoConv \in ConvRec BY DEF NoConv, ConvRec, Statuses
  <2>2. <<1, 0>> \in (Nat \ {0}) \X Nat OBVIOUS
  <2> QED BY <2>1, <2>2 DEF Crash
<1>42. crashes' \in Nat /\ crashes' > 0 /\ crashes' # 0
  <2>1. crashes \in Nat BY <1>0 DEF Typed
  <2> QED BY <1>1, <2>1
<1>5. Typed'
  <2>1. chain' \in Seq(Events) /\ inflight' \in Seq([by : Consumers, event : Events]) BY <1>1
  <2> QED BY <1>0, <1>1, <1>2, <1>4, <1>41, <1>42, <2>1 DEF Typed
<1>6. StoreOK(db, run, edits)'
  <2>1. Like(db', db') BY <1>2 DEF Like
  <2>2. StoreOK(db', run', edits) BY <1>2, <1>4, <2>1, StoreAlike
  <2> QED BY <1>1, <2>2
<1>7. RunsOK'
  <2>1. \A t \in Turns : RowOK(run'[t])
    <3> SUFFICES ASSUME NEW t \in Turns PROVE RowOK(run'[t]) OBVIOUS
    <3>1. RowOK(run[t]) BY <1>0 DEF RunsOK
    <3> QED BY <1>4, <3>1 DEF RowOK
  <2>2. OneTurnAtATime' BY <1>0, <1>4 DEF RunsOK, OneTurnAtATime
  <2> QED BY <1>1, <1>3, <1>4, <2>1, <2>2 DEF RunsOK
<1>8. SendingOK' BY <1>1, <1>41, <1>42 DEF SendingOK, InCreate
<1>9. ClaimsOK' BY <1>0, <1>2, <1>4 DEF ClaimsOK
<1>100. DOMAIN <<>> = {} OBVIOUS
<1>10. ChainOK'
  <2>1. chain' = <<>> BY <1>1
  <2> QED BY <1>4, <1>100, <2>1 DEF ChainOK
<1>11. InflightOK'
  <2>1. inflight' = <<>> BY <1>1
  <2> QED BY <1>100, <2>1 DEF InflightOK
<1>12. OverOK' /\ ActiveOK' /\ ReplyFollowsEvents' /\ ReadersAgree'
  BY <1>1, <1>3 DEF OverOK, ActiveOK, ReplyFollowsEvents, ReadersAgree
<1>13. ActivitiesEnd' BY <1>42 DEF ActivitiesEnd
<1> QED BY <1>5, <1>6, <1>7, <1>8, <1>9, <1>10, <1>11, <1>12, <1>13 DEF ConversationInv, QueuesOK

-----------------------------------------------------------------------------
(* Every step preserves the invariant                                       *)

LEMMA NextInv ==
    ASSUME ConversationInv, [Next]_vars
    PROVE  ConversationInv'
<1>1. ASSUME NEW t \in Turns, Goes(t) PROVE ConversationInv'
  <2>1. CASE RunStored(t) BY <2>1, StoredStep
  <2>2. CASE CreateFails(t) BY <2>2, FailStep
  <2>3. CASE SendResumes(t) BY <2>3, ResumeStep
  <2>4. CASE SendReturns(t) BY <2>4, ReturnStep
  <2>5. ASSUME NEW how \in Ended, RunEnds(t, how) PROVE ConversationInv' BY <2>5, MovingSteps
  <2>6. CASE EndEmitted(t) BY <2>6, SpeakingSteps
  <2> QED BY <1>1, <2>1, <2>2, <2>3, <2>4, <2>5, <2>6 DEF Goes
<1>2. ASSUME NEW who \in Consumers, Consumes(who) PROVE ConversationInv'
  BY <1>2, SkipStep, ClaimStep DEF Consumes
<1>3. ASSUME NEW c \in Convs, Requested(c) PROVE ConversationInv'
  BY <1>3, EditingSteps, MovingSteps DEF Requested
<1>4. ASSUME NEW t \in Turns, Commanded(t) PROVE ConversationInv'
  BY <1>4, SendStep, SpeakingSteps DEF Commanded
<1>5. ASSUME NEW t \in Turns, EngineAsks(t) PROVE ConversationInv' BY <1>5, SpeakingSteps
<1>6. ASSUME NEW t \in Turns, NEW kind \in Outputs[t], EngineEmits(t, kind) PROVE ConversationInv'
  BY <1>6, SpeakingSteps
<1>7. ASSUME NEW c \in Convs, Reconcile(c) PROVE ConversationInv' BY <1>7, ReconcileStep
<1>8. CASE UNCHANGED vars
  <2>1. /\ db' = db /\ run' = run /\ chain' = chain /\ inflight' = inflight /\ pending' = pending
        /\ pc' = pc /\ copy' = copy /\ todo' = todo /\ node' = node /\ listed' = listed
        /\ edits' = edits /\ crashes' = crashes
    BY <1>8 DEF vars
  <2>2. Typed' BY <2>1 DEF ConversationInv, Typed
  <2>3. StoreOK(db, run, edits)' BY <2>1 DEF ConversationInv
  <2>4. RunsOK' BY <2>1 DEF ConversationInv, RunsOK, OneTurnAtATime, up
  <2>5. SendingOK' BY <2>1 DEF ConversationInv, SendingOK, InCreate, up
  <2>6. ClaimsOK' BY <2>1 DEF ConversationInv, QueuesOK, ClaimsOK
  <2>13. \A t : Alive(t)' <=> Alive(t) BY <2>1 DEF Alive
  <2>14. \A i : ChainAt(i)' <=> ChainAt(i) BY <2>1 DEF ChainAt
  <2>15. \A e : InChain(e)' <=> InChain(e) BY <2>1 DEF InChain
  <2>7. ChainOK' BY <2>1, <2>14, <2>15 DEF ConversationInv, QueuesOK, ChainOK
  <2>16. ASSUME NEW i \in DOMAIN inflight PROVE InflightAt(i)'
    <3>1. InflightAt(i) BY DEF ConversationInv, QueuesOK, InflightOK
    <3>2. Alive(inflight[i].event[1])' BY <2>1, <2>13, <3>1 DEF InflightAt
    <3> QED BY <2>1, <3>1, <3>2 DEF InflightAt
  <2>8. InflightOK' BY <2>1, <2>16 DEF ConversationInv, QueuesOK, InflightOK
  <2>9. OverOK' BY <2>1 DEF ConversationInv, QueuesOK, OverOK, InChain, Alive, up
  <2>10. ActiveOK' BY <2>1 DEF ConversationInv, ActiveOK, up
  <2>11. ReplyFollowsEvents' BY <2>1 DEF ConversationInv, ReplyFollowsEvents, Going, Applied, up
  <2>12. ActivitiesEnd' /\ ReadersAgree' BY <2>1 DEF ConversationInv, ActivitiesEnd, ReadersAgree, up
  <2> QED BY <2>2, <2>3, <2>4, <2>5, <2>6, <2>7, <2>8, <2>9, <2>10, <2>11, <2>12
          DEF ConversationInv, QueuesOK
<1>9. CASE Progress
  BY <1>1, <1>2, <1>7, <1>9, ApplyStep, BootStep, ReadyStep DEF Progress
<1> QED BY <1>3, <1>4, <1>5, <1>6, <1>8, <1>9, CrashStep DEF Next

\* The invariant holds in every state a Node can reach.
THEOREM ConversationInvariant == Spec => []ConversationInv
<1>1. Init => ConversationInv BY InitInv
<1>2. ConversationInv /\ [Next]_vars => ConversationInv' BY NextInv
<1> QED BY <1>1, <1>2, PTL DEF Spec

\* ConversationTypeOK: the tables, the Runs and the handlers have the types the code
\* gives them, and what is in flight has been claimed.
THEOREM ConversationTyped == Spec => []ConversationTypeOK
<1>1. ConversationInv => ConversationTypeOK
  <2> SUFFICES ASSUME ConversationInv PROVE ConversationTypeOK OBVIOUS
  <2>1. /\ Typed /\ StoreOK(db, run, edits) /\ RunsOK /\ InflightOK
    BY DEF ConversationInv, QueuesOK
  <2>2. /\ db \in DB /\ edits \in Nat /\ edits <= MaxEdits /\ db.conv \in [Convs -> ConvRec] /\ MaxEdits \in Nat
        /\ run \in [Turns -> RunRec]
    BY <2>1 DEF Typed, DB
  <2>3. ASSUME NEW c \in Convs
        PROVE  db.conv[c] \in [status : {"absent", "idle", "responding", "error", "archived"},
                               active : Turns \cup {NoTurn}, title : 0..MaxEdits]
    <3>1. db.conv[c] \in ConvRec BY <2>2
    <3>2. db.conv[c].title <= edits BY <2>1 DEF StoreOK, ConvOK
    <3>3. db.conv[c].title \in 0..MaxEdits BY <2>2, <3>1, <3>2 DEF ConvRec
    <3> QED BY <3>1, <3>3 DEF ConvRec, Statuses
  <2>4. db.conv \in [Convs -> [status : {"absent", "idle", "responding", "error", "archived"},
                               active : Turns \cup {NoTurn}, title : 0..MaxEdits]]
    BY <2>2, <2>3
  <2>5. ASSUME NEW t \in Turns
        PROVE  /\ db.reply[t].status \in {"absent"} \cup Open \cup Ended
               /\ db.reply[t].text \in Seq(Nat)
               /\ run[t].status \in {"none", "open"} \cup Ended
               /\ run[t].log \in Seq(EventKinds)
               /\ pc[t] \in {"idle", "creating", "created", "replaying"}
               /\ run[t].waiting => run[t].status # "none"
    <3>1. db.reply[t] \in ReplyRec /\ run[t] \in RunRec BY <2>2 DEF DB
    <3>2. run[t].waiting => run[t].status # "none" BY <2>1 DEF RunsOK, RowOK
    <3>3. pc[t] \in {"idle", "creating", "created", "replaying"} BY <2>1 DEF Typed
    <3> QED BY <3>1, <3>2, <3>3 DEF ReplyRec, RunRec
  <2>6. /\ db.user \subseteq Turns /\ pending \subseteq Convs
        /\ \A i \in DOMAIN inflight : inflight[i].event \in db.claimed
    BY <2>1, <2>2 DEF Typed, DB, InflightOK, InflightAt
  <2> QED BY <2>4, <2>5, <2>6 DEF ConversationTypeOK
<1> QED BY <1>1, ConversationInvariant, PTL

\* OneTurnAtATime: at most one Run of a conversation is open (activeRunId and
\* pendingMessages), whatever the requests, the events and the crashes.
THEOREM TurnsTakeTurns == Spec => []OneTurnAtATime
<1>1. ConversationInv => OneTurnAtATime BY DEF ConversationInv, RunsOK
<1> QED BY <1>1, ConversationInvariant, PTL

\* ReplyFollowsEvents: two consumers read the events of a Run, and each event is applied
\* to the reply once and in order.
THEOREM RepliesFollowEvents == Spec => []ReplyFollowsEvents
<1>1. ConversationInv => ReplyFollowsEvents BY DEF ConversationInv
<1> QED BY <1>1, ConversationInvariant, PTL

\* ReplyEndsAsItsRun: a reply that has ended says how its Run ended, also after recovery.
THEOREM RepliesEndAsTheirRuns == Spec => []ReplyEndsAsItsRun
<1>1. ConversationInv => ReplyEndsAsItsRun BY DEF ConversationInv, StoreOK, EndsWell, ReplyEndsAsItsRun
<1> QED BY <1>1, ConversationInvariant, PTL

\* ActivitiesEnd: no activity goes on after its reply, as long as no process has died.
THEOREM ActivitiesHaveEnded == Spec => []ActivitiesEnd
<1>1. ConversationInv => ActivitiesEnd BY DEF ConversationInv
<1> QED BY <1>1, ConversationInvariant, PTL

\* ReadersAgree: who applies the events of a conversation knows what the tables say.
THEOREM ReadersKnow == Spec => []ReadersAgree
<1>1. ConversationInv => ReadersAgree BY DEF ConversationInv
<1> QED BY <1>1, ConversationInvariant, PTL

-----------------------------------------------------------------------------
(* What no step may do                                                      *)

\* A conversation to which nothing is being sent keeps its rename and its archive;
\* a reply that has ended is written again only when its Run is gone.
Keeps(z) ==
    /\ \A c \in Convs \ pending :
          /\ db.conv[c].status = "archived" => z.conv[c].status = "archived"
          /\ z.conv[c].title >= db.conv[c].title
    /\ \A t \in Turns : db.reply[t].status \in Ended /\ z.reply[t] # db.reply[t] => run[t].status = "none"

\* All that a plan writes, wherever it stops
PlanKeeps(plan) == Keeps(After(db, plan)) /\ \A z \in Short(db, plan) : Keeps(z)

LEMMA KeepsSame ==
    ASSUME Typed, NEW z, z.conv = db.conv, z.reply = db.reply
    PROVE  Keeps(z)
<1>1. \A c \in Convs : db.conv[c].title \in Nat BY DEF Typed, DB, ConvRec
<1>2. \A c \in Convs : db.conv[c].title >= db.conv[c].title BY <1>1
<1> QED BY <1>2 DEF Keeps

\* One conversation and one reply are written, or nothing.
OneWritten(z, c, t, y, x) ==
    /\ z.conv = db.conv \/ z.conv = [db.conv EXCEPT ![c] = y]
    /\ z.reply = db.reply \/ z.reply = [db.reply EXCEPT ![t] = x]

LEMMA KeepsOne ==
    ASSUME Typed, NEW c \in Convs, NEW t \in Turns, NEW y, NEW x, NEW z, OneWritten(z, c, t, y, x),
           c \in pending \/ ((db.conv[c].status = "archived" => y.status = "archived") /\ y.title >= db.conv[c].title),
           db.reply[t].status \notin Ended \/ x = db.reply[t] \/ run[t].status = "none"
    PROVE  Keeps(z)
<1>1. db.conv \in [Convs -> ConvRec] /\ db.reply \in [Turns -> ReplyRec] BY DEF Typed, DB
<1>2. ASSUME NEW a \in Convs \ pending
      PROVE  /\ db.conv[a].status = "archived" => z.conv[a].status = "archived"
             /\ z.conv[a].title >= db.conv[a].title
  <2>1. db.conv[a].title \in Nat BY <1>1 DEF ConvRec
  <2>2. db.conv[a].title >= db.conv[a].title BY <2>1
  <2>3. z.conv[a] = db.conv[a] \/ (a = c /\ z.conv[a] = y) BY <1>1 DEF OneWritten
  <2> QED BY <1>2, <2>2, <2>3
<1>3. ASSUME NEW s \in Turns, db.reply[s].status \in Ended, z.reply[s] # db.reply[s]
      PROVE  run[s].status = "none"
  <2>1. s = t /\ z.reply[s] = x BY <1>1, <1>3 DEF OneWritten
  <2> QED BY <1>3, <2>1
<1> QED BY <1>2, <1>3 DEF Keeps

\* finishRun writes the reply a second time as it is.
LEMMA FinishKeeps ==
    ASSUME Typed, StoreOK(db, run, edits), NEW t \in Turns, db.conv[ConvOf[t]].active = t,
           run[t].status \in Ended
    PROVE  PlanKeeps(FinishPlan(db, t, run[t].status))
<1>0. db \in DB /\ ConvOf[t] \in Convs /\ t # NoTurn BY DEF Typed
<1>1. PICK status : status = run[t].status OBVIOUS
<1>2. PICK e, m \in DB : Finished(db, t, status, e, m) BY <1>0, FinishPlanIs
<1> DEFINE x == FinalReply(db, t, status)
           y == FinalConv(db, ConvOf[t], status)
           plan == FinishPlan(db, t, status)
<1>3. /\ e = After(db, plan)
      /\ e.conv = [db.conv EXCEPT ![ConvOf[t]] = y]
      /\ e.reply = [db.reply EXCEPT ![t] = x]
      /\ m = [db EXCEPT !.reply = e.reply]
      /\ \A z \in Short(db, plan) : z = db \/ z = m \/ (z.conv = e.conv /\ z.reply = e.reply)
  BY <1>2 DEF Finished
<1>4. db.conv[ConvOf[t]].status # "archived" /\ y.title >= db.conv[ConvOf[t]].title
  <2>1. ConvOK(db, ConvOf[t], edits) BY <1>0 DEF StoreOK
  <2>2. db.conv[ConvOf[t]] \in ConvRec BY <1>0 DEF DB
  <2>3. y.title = db.conv[ConvOf[t]].title /\ db.conv[ConvOf[t]].title \in Nat BY <2>2 DEF FinalConv, ConvRec
  <2>4. y.title >= db.conv[ConvOf[t]].title BY <2>3
  <2> QED BY <1>0, <2>1, <2>4 DEF ConvOK
<1>5. db.reply[t].status \in Ended => x = db.reply[t]
  <2> SUFFICES ASSUME db.reply[t].status \in Ended PROVE x = db.reply[t] OBVIOUS
  <2>1. EndsWell(db, run, t) /\ db.reply[t] \in ReplyRec BY <1>0 DEF StoreOK, DB
  <2>2. /\ status = db.reply[t].status
        /\ status = "completed" => db.reply[t].text = <<0>>
    BY <1>1, <2>1 DEF EndsWell, Ended
  <2>3. x \in ReplyRec /\ x.run = db.reply[t].run
    <3>1. <<0>> \in Seq(Nat) OBVIOUS
    <3> QED BY <2>1, <3>1 DEF FinalReply, ReplyRec, Ended
  <2>4. x.status = db.reply[t].status /\ x.text = db.reply[t].text
    BY <2>1, <2>2 DEF FinalReply, ReplyRec, Ended
  <2> HIDE DEF x
  <2>5. PICK p : p = x OBVIOUS
  <2>6. PICK q : q = db.reply[t] OBVIOUS
  <2>7. p \in ReplyRec /\ q \in ReplyRec /\ p.run = q.run /\ p.status = q.status /\ p.text = q.text
    BY <2>1, <2>3, <2>4, <2>5, <2>6
  <2>8. p = q BY <2>7 DEF ReplyRec
  <2> QED BY <2>5, <2>6, <2>8
<1> HIDE DEF x, y, plan
<1>6. /\ m.conv = db.conv /\ m.reply = e.reply BY <1>0, <1>3 DEF DB
<1>7. ASSUME NEW z, z.conv = db.conv \/ z.conv = e.conv, z.reply = db.reply \/ z.reply = e.reply PROVE Keeps(z)
  <2>1. OneWritten(z, ConvOf[t], t, y, x) BY <1>3, <1>7 DEF OneWritten
  <2>2. db.reply[t].status \notin Ended \/ x = db.reply[t] \/ run[t].status = "none" BY <1>5
  <2> QED BY <1>0, <1>4, <2>1, <2>2, KeepsOne
<1>8. Keeps(e) BY <1>7
<1>9. \A z \in Short(db, plan) : Keeps(z) BY <1>3, <1>6, <1>7
<1>10. plan = FinishPlan(db, t, run[t].status) BY <1>1 DEF plan
<1> QED BY <1>3, <1>8, <1>9, <1>10 DEF PlanKeeps

LEMMA NormalizeKeeps ==
    ASSUME Typed, NEW t \in Turns, NEW n \in Nat, NEW kind \in EventKinds \ Ended,
           db.reply[t].status \notin Ended
    PROVE  PlanKeeps(NormalizePlan(t, n, kind))
<1>0. db \in DB BY DEF Typed
<1>1. PICK e \in DB :
         /\ e = After(db, NormalizePlan(t, n, kind))
         /\ Written(db, e, t, n, kind)
         /\ Agree(db) => Agree(e)
         /\ \A z \in Short(db, NormalizePlan(t, n, kind)) : z = db \/ Like(z, e)
  BY <1>0, NormalizePlanIs
<1>2. e.conv = db.conv /\ \A s \in Turns \ {t} : e.reply[s] = db.reply[s] BY <1>1 DEF Written
<1>3. ASSUME NEW z, z.conv = e.conv, z.reply = e.reply PROVE Keeps(z)
  <2>1. \A c \in Convs : db.conv[c].title \in Nat BY <1>0 DEF DB, ConvRec
  <2>2. \A c \in Convs : z.conv[c] = db.conv[c] /\ z.conv[c].title >= db.conv[c].title BY <1>2, <1>3, <2>1
  <2> QED BY <1>2, <1>3, <2>2 DEF Keeps
<1>4. \A z \in Short(db, NormalizePlan(t, n, kind)) : Keeps(z) BY <1>1, <1>3, KeepsSame DEF Like
<1>5. Keeps(e) BY <1>3
<1> QED BY <1>1, <1>4, <1>5 DEF PlanKeeps

\* An event that waits is applied.
LEMMA ApplyKeeps ==
    ASSUME ConversationInv, up, inflight # <<>>
    PROVE  PlanKeeps(ApplyPlan(inflight[1].event))
<1>0. Typed /\ StoreOK(db, run, edits) /\ RunsOK /\ SendingOK /\ ActiveOK BY DEF ConversationInv
<1>1. PICK t \in Turns, m \in Nat \ {0} :
         inflight[1].event = <<t, m>> /\ Alive(t) /\ m <= Len(run[t].log)
  BY Arrives
<1>2. /\ run[t] \in RunRec /\ run[t].log \in Seq(EventKinds) /\ RowOK(run[t]) /\ m \in DOMAIN run[t].log
  <2>1. run[t] \in RunRec /\ RowOK(run[t]) BY <1>0 DEF Typed, RunsOK
  <2>2. run[t].log \in Seq(EventKinds) BY <2>1 DEF RunRec
  <2> QED BY <1>1, <2>1, <2>2
<1>3. PICK kind \in EventKinds : kind = run[t].log[m] BY <1>2
<1>4. ApplyPlan(<<t, m>>) = IF kind \in Ended THEN FinishPlan(db, t, run[t].status) ELSE NormalizePlan(t, m, kind)
  BY <1>3 DEF ApplyPlan
<1>5. CASE kind \in Ended
  <2>1. ~run[t].live /\ run[t].status = kind BY <1>2, <1>3, <1>5 DEF RowOK
  <2>2. pc[t] # "created" BY <1>0, <2>1 DEF SendingOK
  <2>3. db.conv[ConvOf[t]].active = t BY <1>1, <2>2 DEF Alive
  <2>4. PlanKeeps(FinishPlan(db, t, run[t].status)) BY <1>0, <1>5, <2>1, <2>3, FinishKeeps
  <2> QED BY <1>1, <1>4, <1>5, <2>4
<1>6. CASE kind \notin Ended
  <2>1. db.reply[t].status \notin Ended
    <3>1. CASE pc[t] = "created" BY <1>0, <3>1 DEF SendingOK, InCreate, Ended
    <3>2. CASE db.conv[ConvOf[t]].active = t BY <1>0, <3>2 DEF ActiveOK, Open, Ended
    <3> QED BY <1>1, <3>1, <3>2 DEF Alive
  <2>2. PlanKeeps(NormalizePlan(t, m, kind)) BY <1>0, <1>6, <2>1, NormalizeKeeps
  <2> QED BY <1>1, <1>4, <1>6, <2>2
<1> QED BY <1>5, <1>6

\* The message that is being sent, and its conversation, are written.
LEMMA TurnKeeps ==
    ASSUME Typed, SendingOK, NEW t \in Turns, InCreate(t), NEW x \in ReplyRec, NEW y \in ConvRec
    PROVE  PlanKeeps(TurnPlan(db, t, x, y))
<1>0. db \in DB /\ ConvOf[t] \in Convs BY DEF Typed
<1>1. ConvOf[t] \in pending /\ db.reply[t].status \notin Ended BY DEF SendingOK, InCreate, Ended
<1>2. PICK e, m \in DB :
         /\ TurnPlan(db, t, x, y) \in Seq(DB)
         /\ e = After(db, TurnPlan(db, t, x, y))
         /\ e.conv = [db.conv EXCEPT ![ConvOf[t]] = y]
         /\ e.reply = [db.reply EXCEPT ![t] = x]
         /\ e.user = db.user /\ e.act = db.act /\ e.claimed = db.claimed
         /\ Agree(db) => Agree(e)
         /\ m = SaveMessage(db, t, x)
         /\ m = [db EXCEPT !.reply = [db.reply EXCEPT ![t] = x]]
         /\ \A z \in Short(db, TurnPlan(db, t, x, y)) : z = db \/ z = m \/ Like(z, e)
  BY <1>0, TurnPlanIs
<1>3. m.conv = db.conv /\ m.reply = e.reply BY <1>0, <1>2 DEF DB
<1>4. ASSUME NEW z, z.conv = db.conv \/ z.conv = e.conv, z.reply = db.reply \/ z.reply = e.reply PROVE Keeps(z)
  <2>1. OneWritten(z, ConvOf[t], t, y, x) BY <1>2, <1>4 DEF OneWritten
  <2> QED BY <1>0, <1>1, <2>1, KeepsOne
<1>5. Keeps(e) BY <1>4
<1>6. \A z \in Short(db, TurnPlan(db, t, x, y)) : Keeps(z) BY <1>2, <1>3, <1>4 DEF Like
<1> QED BY <1>2, <1>5, <1>6 DEF PlanKeeps

LEMMA SendingKeeps ==
    ASSUME Typed, SendingOK, NEW t \in Turns
    PROVE  /\ pc[t] = "creating" => PlanKeeps(FailPlan(db, t, copy[t]))
           /\ pc[t] = "created" => PlanKeeps(ResumePlan(t))
<1>0. copy[t] \in ConvRec BY DEF Typed
<1>00. <<>> \in Seq(Nat) OBVIOUS
<1>1. ASSUME pc[t] = "creating" PROVE PlanKeeps(FailPlan(db, t, copy[t]))
  <2> DEFINE y == [copy[t] EXCEPT !.status = "error"]
  <2>1. y \in ConvRec /\ Failed \in ReplyRec BY <1>0, <1>00 DEF ConvRec, Statuses, Failed, ReplyRec, Ended
  <2>2. FailPlan(db, t, copy[t]) = TurnPlan(db, t, Failed, y) BY DEF FailPlan, TurnPlan, Failed
  <2>3. InCreate(t) BY <1>1 DEF InCreate
  <2> HIDE DEF y
  <2> QED BY <2>1, <2>2, <2>3, TurnKeeps
<1>2. ASSUME pc[t] = "created" PROVE PlanKeeps(ResumePlan(t))
  <2>1. Responding(t) \in ConvRec /\ Streaming \in ReplyRec
    BY <1>0, <1>00 DEF Responding, ConvRec, Statuses, Streaming, ReplyRec, Open
  <2>2. ResumePlan(t) = TurnPlan(db, t, Streaming, Responding(t)) BY DEF ResumePlan, TurnPlan, Streaming
  <2>3. InCreate(t) BY <1>2 DEF InCreate
  <2> QED BY <2>1, <2>2, <2>3, TurnKeeps
<1> QED BY <1>1, <1>2

LEMMA EditKeeps ==
    ASSUME Typed, NEW c \in Convs, NEW y \in ConvRec, db.conv[c].status = "archived" => y.status = "archived",
           y.title >= db.conv[c].title
    PROVE  PlanKeeps(<<Save(db, c, y), PublishConv(Save(db, c, y), c)>>)
<1>0. db \in DB BY DEF Typed
<1>1. PICK plan : plan = <<Save(db, c, y), PublishConv(Save(db, c, y), c)>> OBVIOUS
<1>2. PICK e \in DB :
         /\ e = After(db, plan)
         /\ e.conv = [db.conv EXCEPT ![c] = y]
         /\ e.reply = db.reply /\ e.act = db.act /\ e.user = db.user /\ e.claimed = db.claimed
         /\ Agree(db) => Agree(e)
         /\ \A z \in Short(db, plan) : z = db \/ Like(z, e)
  BY <1>0, <1>1, ConvPlanIs
<1>3. ASSUME NEW z, z.conv = e.conv, z.reply = e.reply PROVE Keeps(z)
  <2>1. db.conv \in [Convs -> ConvRec] BY <1>0 DEF DB
  <2>2. ASSUME NEW a \in Convs
        PROVE  /\ db.conv[a].status = "archived" => z.conv[a].status = "archived"
               /\ z.conv[a].title >= db.conv[a].title
    <3>1. db.conv[a].title \in Nat BY <2>1 DEF ConvRec
    <3>2. db.conv[a].title >= db.conv[a].title BY <3>1
    <3>3. z.conv[a] = IF a = c THEN y ELSE db.conv[a] BY <1>2, <1>3, <2>1
    <3> QED BY <3>2, <3>3
  <2> QED BY <1>2, <1>3, <2>2 DEF Keeps
<1>4. Keeps(e) /\ \A z \in Short(db, plan) : Keeps(z) BY <1>2, <1>3, KeepsSame DEF Like
<1> QED BY <1>1, <1>2, <1>4 DEF PlanKeeps

LEMMA SendKeeps ==
    ASSUME Typed, StoreOK(db, run, edits), NEW t \in Turns, t \notin db.user
    PROVE  PlanKeeps(SendPlan(t))
<1>0. db \in DB /\ ConvOf[t] \in Convs BY DEF Typed
<1>1. db.reply[t].status \notin Ended
  <2>1. Untouched(db, run, t) BY DEF StoreOK
  <2> QED BY <2>1 DEF Untouched, Ended
<1>2. PICK e, m \in DB :
         /\ e = After(db, SendPlan(t))
         /\ e.user = db.user \cup {t}
         /\ e.reply = [db.reply EXCEPT ![t] = Queued]
         /\ e.conv = db.conv /\ e.act = db.act /\ e.claimed = db.claimed
         /\ Agree(db) => Agree(e)
         /\ m = [db EXCEPT !.user = db.user \cup {t}]
         /\ \A z \in Short(db, SendPlan(t)) : z = db \/ z = m \/ Like(z, e)
  BY <1>0, SendPlanIs
<1>3. m.conv = db.conv /\ m.reply = db.reply BY <1>0, <1>2 DEF DB
<1>4. ASSUME NEW z, z.conv = e.conv, z.reply = e.reply PROVE Keeps(z)
  <2>1. \A c \in Convs : db.conv[c].title \in Nat BY <1>0 DEF DB, ConvRec
  <2>2. \A c \in Convs : z.conv[c] = db.conv[c] /\ z.conv[c].title >= db.conv[c].title BY <1>2, <1>4, <2>1
  <2>3. \A s \in Turns : s # t => z.reply[s] = db.reply[s] BY <1>0, <1>2, <1>4 DEF DB
  <2> QED BY <1>1, <2>2, <2>3 DEF Keeps
<1>5. Keeps(e) BY <1>4
<1>6. \A z \in Short(db, SendPlan(t)) : Keeps(z) BY <1>2, <1>3, <1>4, KeepsSame DEF Like
<1> QED BY <1>2, <1>5, <1>6 DEF PlanKeeps

LEMMA ReconcileKeeps ==
    ASSUME Typed, StoreOK(db, run, edits), NEW c \in Convs, db.conv[c].active # NoTurn,
           \A s \in Turns : run[s].status # "open"
    PROVE  PlanKeeps(ReconcilePlan(c))
<1>0. db \in DB /\ db.conv[c] \in ConvRec /\ db.conv \in [Convs -> ConvRec] BY DEF Typed, DB
<1>1. PICK t \in Turns : t = db.conv[c].active BY <1>0 DEF ConvRec
<1>2. ConvOf[t] = c /\ db.conv[c].status = "responding"
  <2>1. ConvOK(db, c, edits) BY DEF StoreOK
  <2> QED BY <1>1, <2>1 DEF ConvOK
<1>3. run[t].status \in {"none"} \cup Ended
  <2>1. run[t] \in RunRec BY DEF Typed
  <2> QED BY <2>1 DEF RunRec
<1>4. CASE run[t].status = "none"
  <2> DEFINE y == [db.conv[c] EXCEPT !.active = NoTurn, !.status = "error"]
             x == [db.reply[t] EXCEPT !.status = "failed"]
  <2>1. PICK e, m \in DB :
           /\ e = After(db, ReconcilePlan(c))
           /\ e.conv = [db.conv EXCEPT ![c] = y]
           /\ e.reply = [db.reply EXCEPT ![t] = x]
           /\ e.user = db.user /\ e.act = db.act /\ e.claimed = db.claimed
           /\ m = [db EXCEPT !.conv = e.conv]
           /\ \A z \in Short(db, ReconcilePlan(c)) : z = db \/ z = m \/ Like(z, e)
    BY <1>0, <1>1, <1>4, LostPlanIs
  <2>2. m.conv = e.conv /\ m.reply = db.reply BY <1>0, <2>1 DEF DB
  <2>3. y.title >= db.conv[c].title
    <3>1. y.title = db.conv[c].title /\ db.conv[c].title \in Nat BY <1>0 DEF ConvRec
    <3> QED BY <3>1
  <2> HIDE DEF x, y
  <2>4. ASSUME NEW z, z.conv = db.conv \/ z.conv = e.conv, z.reply = db.reply \/ z.reply = e.reply PROVE Keeps(z)
    <3>1. OneWritten(z, c, t, y, x) BY <2>1, <2>4 DEF OneWritten
    <3>2. db.conv[c].status # "archived" BY <1>2
    <3> QED BY <1>4, <2>3, <3>1, <3>2, KeepsOne
  <2>5. Keeps(e) BY <2>4
  <2>6. \A z \in Short(db, ReconcilePlan(c)) : Keeps(z) BY <2>1, <2>2, <2>4 DEF Like
  <2> QED BY <2>1, <2>5, <2>6 DEF PlanKeeps
<1>5. CASE run[t].status \in Ended
  <2>1. ReconcilePlan(c) = FinishPlan(db, t, run[t].status) BY <1>1, <1>5 DEF ReconcilePlan, Ended
  <2> QED BY <1>1, <1>2, <1>5, <2>1, FinishKeeps
<1> QED BY <1>3, <1>4, <1>5

\* All that a step writes is what Keeps allows, and a Run that is gone stays gone
\* when its reply is written.
Kept ==
    /\ Keeps(db')
    /\ \A t \in Turns : run[t].status = "none" /\ db'.reply[t] # db.reply[t] => run'[t].status = "none"

LEMMA KeptByPlan ==
    ASSUME NEW plan, PlanKeeps(plan), db' = After(db, plan), run' = run
    PROVE  Kept
BY DEF Kept, PlanKeeps

LEMMA KeptAsIs ==
    ASSUME Typed, db'.conv = db.conv, db'.reply = db.reply
    PROVE  Kept
<1>1. PICK z : z = db' OBVIOUS
<1>2. Keeps(z) BY <1>1, KeepsSame
<1> QED BY <1>1, <1>2 DEF Kept

\* The actions that leave the conversations and the replies as they are
LEMMA KeptByOthers ==
    ASSUME ConversationInv
    PROVE  /\ \A t \in Turns : RunStored(t) => Kept
           /\ \A t \in Turns : SendReturns(t) => Kept
           /\ \A t \in Turns, how \in Ended : RunEnds(t, how) => Kept
           /\ \A t \in Turns : EndEmitted(t) => Kept
           /\ \A who \in Consumers : Consumes(who) => Kept
           /\ \A c \in Convs : Cancel(c) => Kept
           /\ \A t \in Turns, verdict \in {"allowed", "denied"} : Decide(t, verdict) => Kept
           /\ \A t \in Turns : EngineAsks(t) => Kept
           /\ \A t \in Turns, kind \in Kinds : EngineEmits(t, kind) => Kept
           /\ Boot => Kept
           /\ Ready => Kept
           /\ UNCHANGED vars => Kept
<1>1. Typed /\ db \in DB BY DEF ConversationInv, Typed
<1>2. db' = db => Kept BY <1>1, KeptAsIs
<1>3. ASSUME NEW who \in Consumers, Consumes(who) PROVE Kept
  <2>1. CASE SkipEvent(who) BY <1>2, <2>1 DEF SkipEvent
  <2>2. CASE ClaimEvent(who)
    <3>1. db' = [db EXCEPT !.claimed = @ \cup {EventFor(who)}] BY <2>2 DEF ClaimEvent, Claim
    <3>2. db'.conv = db.conv /\ db'.reply = db.reply BY <1>1, <3>1 DEF DB
    <3> QED BY <1>1, <3>2, KeptAsIs
  <2> QED BY <1>3, <2>1, <2>2 DEF Consumes
<1>4. Boot => Kept
  <2> SUFFICES ASSUME Boot PROVE Kept OBVIOUS
  <2>1. PICK old \in BOOLEAN : db' = Unclaimed(old) BY DEF Boot
  <2>2. db'.conv = db.conv /\ db'.reply = db.reply BY <1>1, <2>1 DEF DB, Unclaimed
  <2> QED BY <1>1, <2>2, KeptAsIs
<1>5. Ready => Kept
  <2> SUFFICES ASSUME Ready PROVE Kept OBVIOUS
  <2>1. db'.conv = db.conv /\ db'.reply = db.reply BY <1>1 DEF Ready, DB
  <2> QED BY <1>1, <2>1, KeptAsIs
<1>6. \A t \in Turns : /\ RunStored(t) \/ SendReturns(t) \/ EndEmitted(t) \/ EngineAsks(t) => Kept
                       /\ \A how \in Ended : RunEnds(t, how) => Kept
  BY <1>2 DEF RunStored, SendReturns, EndEmitted, EngineAsks, RunEnds
<1>7. /\ \A c \in Convs : Cancel(c) => Kept
      /\ \A t \in Turns, verdict \in {"allowed", "denied"} : Decide(t, verdict) => Kept
      /\ \A t \in Turns, kind \in Kinds : EngineEmits(t, kind) => Kept
      /\ UNCHANGED vars => Kept
  BY <1>2 DEF Cancel, Decide, EngineEmits, vars
<1> QED BY <1>3, <1>4, <1>5, <1>6, <1>7

\* create, rename and archive
LEMMA CreateKeeps ==
    ASSUME ConversationInv, NEW c \in Convs, db.conv[c].status = "absent"
    PROVE  PlanKeeps(CreatePlan(c))
<1>1. Typed /\ db.conv[c] \in ConvRec /\ ConvOK(db, c, edits) BY DEF ConversationInv, Typed, DB, StoreOK
<1>2. Fresh \in ConvRec /\ Fresh.title = 0 BY DEF Fresh, ConvRec, Statuses
<1>3. Fresh.title >= db.conv[c].title BY <1>1, <1>2 DEF ConvOK
<1>4. CreatePlan(c) = <<Save(db, c, Fresh), PublishConv(Save(db, c, Fresh), c)>> BY DEF CreatePlan, Fresh
<1>5. db.conv[c].status # "archived" OBVIOUS
<1> QED BY <1>1, <1>2, <1>3, <1>4, <1>5, EditKeeps

LEMMA KeptByEdits ==
    ASSUME ConversationInv, NEW c \in Convs
    PROVE  /\ Create(c) => Kept
           /\ Rename(c) => Kept
           /\ Archive(c) => Kept
<1>1. /\ Typed /\ db.conv[c] \in ConvRec /\ ConvOK(db, c, edits) /\ edits \in Nat
  BY DEF ConversationInv, Typed, DB, StoreOK
<1>2. ASSUME Create(c) PROVE Kept
  <2>1. db.conv[c].status = "absent" /\ db' = After(db, CreatePlan(c)) /\ run' = run BY <1>2 DEF Create
  <2>2. PlanKeeps(CreatePlan(c)) BY <2>1, CreateKeeps
  <2> QED BY <2>1, <2>2, KeptByPlan
<1>3. ASSUME Rename(c) PROVE Kept
  <2> DEFINE y == [db.conv[c] EXCEPT !.title = edits + 1]
  <2>1. db' = After(db, <<Save(db, c, y), PublishConv(Save(db, c, y), c)>>) /\ run' = run
    BY <1>3 DEF Rename, EditPlan
  <2>2. y \in ConvRec /\ y.status = db.conv[c].status /\ y.title = edits + 1 BY <1>1 DEF ConvRec
  <2> HIDE DEF y
  <2>3. db.conv[c].title <= edits /\ db.conv[c].title \in Nat BY <1>1 DEF ConvOK, ConvRec
  <2>4. y.title >= db.conv[c].title BY <1>1, <2>2, <2>3
  <2>5. PlanKeeps(<<Save(db, c, y), PublishConv(Save(db, c, y), c)>>) BY <1>1, <2>2, <2>4, EditKeeps
  <2> QED BY <2>1, <2>5, KeptByPlan
<1>4. ASSUME Archive(c) PROVE Kept
  <2> DEFINE y == [db.conv[c] EXCEPT !.status = "archived"]
  <2>1. db' = After(db, <<Save(db, c, y), PublishConv(Save(db, c, y), c)>>) /\ run' = run
    BY <1>4 DEF Archive, EditPlan
  <2>2. y \in ConvRec /\ y.status = "archived" /\ y.title = db.conv[c].title BY <1>1 DEF ConvRec, Statuses
  <2> HIDE DEF y
  <2>3. db.conv[c].title \in Nat BY <1>1 DEF ConvRec
  <2>4. y.title >= db.conv[c].title BY <2>2, <2>3
  <2>5. PlanKeeps(<<Save(db, c, y), PublishConv(Save(db, c, y), c)>>) BY <1>1, <2>2, <2>4, EditKeeps
  <2> QED BY <2>1, <2>5, KeptByPlan
<1> QED BY <1>2, <1>3, <1>4

\* sendMessage, an event that is applied, recovery
LEMMA KeptByTurns ==
    ASSUME ConversationInv, NEW t \in Turns
    PROVE  /\ Send(t) => Kept
           /\ CreateFails(t) => Kept
           /\ SendResumes(t) => Kept
           /\ ApplyEvent => Kept
<1>1. Typed /\ SendingOK /\ StoreOK(db, run, edits) BY DEF ConversationInv
<1>2. ASSUME Send(t) PROVE Kept
  <2>1. t \notin db.user /\ db' = After(db, SendPlan(t)) /\ run' = run BY <1>2 DEF Send, CanSend
  <2>2. PlanKeeps(SendPlan(t)) BY <1>1, <2>1, SendKeeps
  <2> QED BY <2>1, <2>2, KeptByPlan
<1>3. ASSUME CreateFails(t) PROVE Kept
  <2>1. pc[t] = "creating" /\ db' = After(db, FailPlan(db, t, copy[t])) /\ run' = run BY <1>3 DEF CreateFails
  <2>2. PlanKeeps(FailPlan(db, t, copy[t])) BY <1>1, <2>1, SendingKeeps
  <2> QED BY <2>1, <2>2, KeptByPlan
<1>4. ASSUME SendResumes(t) PROVE Kept
  <2>1. pc[t] = "created" /\ db' = After(db, ResumePlan(t)) /\ run' = run BY <1>4 DEF SendResumes
  <2>2. PlanKeeps(ResumePlan(t)) BY <1>1, <2>1, SendingKeeps
  <2> QED BY <2>1, <2>2, KeptByPlan
<1>5. ASSUME ApplyEvent PROVE Kept
  <2>1. up /\ inflight # <<>> /\ run' = run /\ db' = After(db, ApplyPlan(Head(inflight).event))
    BY <1>5 DEF ApplyEvent
  <2>2. Head(inflight).event = inflight[1].event BY <2>1, Arrives
  <2>3. PlanKeeps(ApplyPlan(inflight[1].event)) BY <2>1, ApplyKeeps
  <2> QED BY <2>1, <2>2, <2>3, KeptByPlan
<1> QED BY <1>2, <1>3, <1>4, <1>5

LEMMA KeptByReconcile ==
    ASSUME ConversationInv, NEW c \in listed, node = "starting"
    PROVE  PlanKeeps(ReconcilePlan(c))
<1>1. Typed /\ StoreOK(db, run, edits) /\ RunsOK /\ ActiveOK /\ ~up /\ c \in Convs
  BY DEF ConversationInv, Typed, up
<1>2. db.conv[c].active # NoTurn /\ \A s \in Turns : run[s].status # "open" BY <1>1 DEF ActiveOK, RunsOK
<1> QED BY <1>1, <1>2, ReconcileKeeps

\* The process dies in the middle of a plan.
LEMMA KeptByCrash ==
    ASSUME ConversationInv, Crash
    PROVE  Kept
<1>1. Typed /\ StoreOK(db, run, edits) /\ SendingOK BY DEF ConversationInv
<1>2. \A t \in Turns : run'[t].status = run[t].status
  <2> DEFINE r(t) == [run[t] EXCEPT !.live = FALSE, !.waiting = FALSE, !.cancelled = FALSE]
  <2>1. run' = [t \in Turns |-> r(t)] BY DEF Crash
  <2>2. ASSUME NEW t \in Turns PROVE r(t).status = run[t].status
    <3>1. run[t] \in RunRec BY <1>1 DEF Typed
    <3> QED BY <3>1 DEF RunRec
  <2> HIDE DEF r
  <2> QED BY <2>1, <2>2
<1>3. ASSUME NEW plan \in Underway PROVE PlanKeeps(plan)
  <2>1. ASSUME NEW c \in Convs, db.conv[c].status = "absent", plan = CreatePlan(c) PROVE PlanKeeps(plan)
    BY <2>1, CreateKeeps
  <2>2. ASSUME NEW t \in Turns, CanSend(t), plan = SendPlan(t) PROVE PlanKeeps(plan)
    BY <1>1, <2>2, SendKeeps DEF CanSend
  <2>3. ASSUME NEW t \in Turns, pc[t] = "created", plan = ResumePlan(t) PROVE PlanKeeps(plan)
    BY <1>1, <2>3, SendingKeeps
  <2>4. ASSUME NEW t \in Turns, pc[t] = "creating", plan = FailPlan(db, t, copy[t]) PROVE PlanKeeps(plan)
    BY <1>1, <2>4, SendingKeeps
  <2>5. ASSUME inflight # <<>>, plan = ApplyPlan(inflight[1].event), up PROVE PlanKeeps(plan)
    BY <2>5, ApplyKeeps
  <2>6. ASSUME NEW c \in listed, ~up, plan = ReconcilePlan(c) PROVE PlanKeeps(plan)
    <3>1. node = "starting" BY <1>1, <2>6 DEF Crash, up, Typed
    <3> QED BY <2>6, <3>1, KeptByReconcile
  <2>7. CASE up
    <3>1. \/ \E c \in Convs : db.conv[c].status = "absent" /\ plan = CreatePlan(c)
          \/ \E t \in Turns : CanSend(t) /\ plan = SendPlan(t)
          \/ \E t \in Turns : pc[t] = "created" /\ plan = ResumePlan(t)
          \/ \E t \in Turns : pc[t] = "creating" /\ plan = FailPlan(db, t, copy[t])
          \/ \E i \in DOMAIN inflight \cap {1} : plan = ApplyPlan(inflight[i].event)
      BY <1>3, <2>7 DEF Underway
    <3>2. 1 \in DOMAIN inflight => inflight # <<>> BY <1>1 DEF Typed
    <3> QED BY <2>1, <2>2, <2>3, <2>4, <2>5, <2>7, <3>1, <3>2
  <2>8. CASE ~up
    <3>1. \E c \in listed : plan = ReconcilePlan(c) BY <1>3, <2>8 DEF Underway
    <3> QED BY <2>6, <2>8, <3>1
  <2> QED BY <2>7, <2>8
<1>4. db' = db \/ \E plan \in Underway : db' \in Short(db, plan) BY DEF Crash
<1>5. CASE db' = db BY <1>1, <1>5, KeptAsIs
<1>6. ASSUME NEW plan \in Underway, db' \in Short(db, plan) PROVE Kept
  <2>1. PICK z : z = db' OBVIOUS
  <2>2. Keeps(z) BY <1>3, <1>6, <2>1 DEF PlanKeeps
  <2> QED BY <1>2, <2>1, <2>2 DEF Kept
<1> QED BY <1>4, <1>5, <1>6

LEMMA StepKeeps ==
    ASSUME ConversationInv, [Next]_vars
    PROVE  Kept
<1>1. ASSUME NEW t \in Turns, Goes(t) PROVE Kept BY <1>1, KeptByOthers, KeptByTurns DEF Goes
<1>2. ASSUME NEW c \in Convs, Reconcile(c) PROVE Kept
  <2>1. node = "starting" /\ c \in listed /\ db' = After(db, ReconcilePlan(c)) /\ run' = run
    BY <1>2 DEF Reconcile
  <2>2. PlanKeeps(ReconcilePlan(c)) BY <2>1, KeptByReconcile
  <2> QED BY <2>1, <2>2, KeptByPlan
<1>3. ApplyEvent => Kept
  <2> SUFFICES ASSUME ApplyEvent PROVE Kept OBVIOUS
  <2>1. inflight # <<>> BY DEF ApplyEvent
  <2>2. Turns # {} BY <2>1, Arrives
  <2> QED BY <2>2, KeptByTurns
<1>4. Progress => Kept BY <1>1, <1>2, <1>3, KeptByOthers DEF Progress
<1>5. \A c \in Convs : Requested(c) => Kept BY KeptByOthers, KeptByEdits DEF Requested
<1>6. \A t \in Turns : Commanded(t) => Kept BY KeptByOthers, KeptByTurns DEF Commanded
<1>7. \A t \in Turns : Outputs[t] \subseteq Kinds BY ConversationAssumption
<1>8. \A t \in Turns : \A kind \in Outputs[t] : EngineEmits(t, kind) => Kept BY <1>7, KeptByOthers
<1> QED BY <1>4, <1>5, <1>6, <1>8, KeptByOthers, KeptByCrash DEF Next

\* EditsLast: no step undoes a rename or an archive, but for the end of a send that
\* was under way.
THEOREM EditsAreKept == Spec => EditsLast
<1>1. ConversationInv /\ [Next]_vars =>
        [\A c \in Convs : c \notin pending =>
            /\ db.conv[c].status = "archived" => db'.conv[c].status = "archived"
            /\ db'.conv[c].title >= db.conv[c].title]_vars
  BY StepKeeps DEF Kept, Keeps
<1> QED BY <1>1, ConversationInvariant, PTL DEF Spec, EditsLast

\* EndedStaysEnded: no step, and no recovery, writes a reply that has ended again,
\* unless the store has forgotten its Run.
THEOREM EndsAreKept == Spec => EndedStaysEnded
<1>1. ConversationInv /\ [Next]_vars =>
        [\A t \in Turns :
            db.reply[t].status \in Ended /\ db'.reply[t] # db.reply[t] => run'[t].status = "none"]_vars
  BY StepKeeps DEF Kept, Keeps
<1> QED BY <1>1, ConversationInvariant, PTL DEF Spec, EndedStaysEnded
=============================================================================
