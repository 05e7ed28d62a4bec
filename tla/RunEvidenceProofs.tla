-------------------------- MODULE RunEvidenceProofs --------------------------
(***************************************************************************)
(* What the evidence of a run can be trusted for, for every capacity, view *)
(* limit and length of the telemetry: first the deferred observer on its   *)
(* own, then the stream of one engine on its own, then both within a run.  *)
(***************************************************************************)
EXTENDS RunEvidence, TLAPS

-----------------------------------------------------------------------------
(* The observer: nothing disappears between the anchor's reader and it *)

Reporting == worker = "finish" \/ report # NoReport

\* Lines still on their way are in order, after everything observed.
Upcoming ==
    /\ \A i \in 1 .. Len(queue) :
          /\ queue[i] <= sent
          /\ producer = "put" => queue[i] < sent
          /\ \A j \in 1 .. Len(queue) : i < j => queue[i] < queue[j]
    /\ producer = "put" => sent \in Info
    /\ worker = "observe" =>
          /\ hand \in Info /\ hand <= sent
          /\ producer = "put" => hand < sent
          /\ \A i \in 1 .. Len(queue) : hand < queue[i]

Past ==
    \A i \in 1 .. Len(observed) :
        /\ observed[i] <= sent
        /\ producer = "put" => observed[i] < sent
        /\ worker = "observe" => observed[i] < hand
        /\ \A k \in 1 .. Len(queue) : observed[i] < queue[k]

\* How far the two threads can be apart.
Stage ==
    /\ ~Reporting => \A i \in 1 .. Len(observed) : observed[i] # Terminal
    /\ report # NoReport => worker \in {"end", "exit"}
    /\ (worker = "final" \/ Reporting) => ready
    /\ ready => terminal /\ producer = "closed"
    /\ terminal => producer \in {"publish", "closed"}
    /\ producer = "publish" => terminal
    /\ worker \in {"end", "exit"} /\ ~aborted => report # NoReport
    /\ done => worker = "exit"

\* The inductive invariant.
IInv == TypeOK /\ Upcoming /\ Past /\ Stage /\ Conservation /\ Fifo

(* Sequences *)

LEMMA AppendFacts ==
    ASSUME NEW S, NEW s \in Seq(S), NEW e \in S
    PROVE  /\ Append(s, e) \in Seq(S) /\ Len(Append(s, e)) = Len(s) + 1
           /\ Append(s, e) # <<>> /\ Append(s, e)[Len(s) + 1] = e
           /\ \A i \in 1 .. Len(s) : Append(s, e)[i] = s[i]
OBVIOUS

LEMMA TailFacts ==
    ASSUME NEW S, NEW s \in Seq(S), s # <<>>
    PROVE  /\ Head(s) \in S /\ Head(s) = s[1] /\ Len(s) \in Nat \ {0}
           /\ Tail(s) \in Seq(S) /\ Len(Tail(s)) = Len(s) - 1
           /\ \A i \in 1 .. Len(Tail(s)) : Tail(s)[i] = s[i + 1]
OBVIOUS


LEMMA EmptyFacts == ASSUME NEW S PROVE <<>> \in Seq(S) /\ Len(<<>>) = 0
OBVIOUS

\* What t is to s when e is the new last element.
Extends(t, s, e) ==
    /\ Len(t) = Len(s) + 1 /\ t # <<>> /\ t[Len(s) + 1] = e
    /\ \A i \in 1 .. Len(s) : t[i] = s[i]

-----------------------------------------------------------------------------
(* What each action on a sequence does *)

LEMMA PutDoes ==
    ASSUME IInv, Put
    PROVE  /\ producer = "put" /\ producer' = "open" /\ sent \in Info
           /\ UNCHANGED <<sent, skipped, terminal, ready, aborted, observed,
                          report, worker, hand, done>>
           /\ \/ /\ queue' \in Seq(Info) /\ Len(queue') <= Capacity
                 /\ Extends(queue', queue, sent) /\ lost' = lost
              \/ lost' = lost + 1 /\ queue' = queue
<1>1. queue \in Seq(Info) /\ sent \in Info /\ Len(queue) \in Nat
  BY DEF IInv, TypeOK, Upcoming, Put
<1>2. CASE Len(queue) < Capacity
  <2>1. queue' = Append(queue, sent) /\ lost' = lost
    BY <1>2, CapacityAssumption, <1>1 DEF Put
  <2>2. queue' \in Seq(Info) /\ Extends(queue', queue, sent)
    BY <1>1, <2>1, AppendFacts DEF Extends
  <2> QED BY <1>1, <1>2, <2>1, <2>2, CapacityAssumption DEF Put, Extends, observing
<1>3. CASE Len(queue) = Capacity
  BY <1>1, <1>3, CapacityAssumption DEF Put, observing
<1> QED BY <1>2, <1>3 DEF Put

LEMMA GetDoes ==
    ASSUME IInv, Get
    PROVE  /\ worker = "get"
           /\ UNCHANGED <<lost, aborted, observed, report, done, sent, skipped,
                          producer, terminal, ready>>
           /\ \/ /\ worker' = "observe" /\ queue # <<>>
                 /\ Len(queue) \in Nat \ {0} /\ hand' = queue[1] /\ hand' \in Info
                 /\ queue' \in Seq(Info) /\ Len(queue') = Len(queue) - 1
                 /\ \A i \in 1 .. Len(queue') : queue'[i] = queue[i + 1]
              \/ worker' = "empty" /\ queue' = queue /\ hand' = hand
<1>1. queue \in Seq(Info) BY DEF IInv, TypeOK
<1>2. CASE queue # <<>>
  <2>1. queue' = Tail(queue) /\ hand' = Head(queue) /\ worker' = "observe"
    BY <1>2 DEF Get
  <2> QED BY <1>1, <1>2, <2>1, TailFacts DEF Get, producing
<1>3. CASE queue = <<>> BY <1>3 DEF Get, producing
<1> QED BY <1>2, <1>3

LEMMA ObserveDoes ==
    ASSUME IInv, Observe \/ Final
    PROVE  /\ UNCHANGED <<queue, aborted, report, hand, done, sent, skipped,
                          producer, terminal, ready>>
           /\ \/ worker = "observe" /\ worker' = "check"
              \/ worker = "final" /\ worker' = "finish"
           /\ \/ /\ observed' \in Seq(Info \cup {Terminal}) /\ lost' = lost
                 /\ Extends(observed', observed, IF worker = "observe" THEN hand ELSE Terminal)
              \/ lost' = lost + 1 /\ observed' = observed
<1>1. observed \in Seq(Info \cup {Terminal}) /\ hand \in Info \cup {Terminal}
  BY DEF IInv, TypeOK
<1>2. CASE Observe
  <2>1. CASE observed' = Append(observed, hand)
    <3>0. PICK S : S = Info \cup {Terminal} OBVIOUS
    <3>a. observed \in Seq(S) /\ hand \in S BY <1>1, <3>0
    <3>b. observed' \in Seq(S) /\ Extends(observed', observed, hand)
      BY <2>1, <3>a, AppendFacts DEF Extends
    <3>1. observed' \in Seq(Info \cup {Terminal}) /\ Extends(observed', observed, hand)
      BY <3>0, <3>b
    <3> QED BY <1>2, <2>1, <3>1 DEF Observe, producing, Info, Terminal
  <2> QED BY <1>2, <2>1 DEF Observe, producing
<1>3. CASE Final
  <2>1. CASE observed' = Append(observed, Terminal)
    BY <1>1, <1>3, <2>1, AppendFacts DEF Final, Extends, producing
  <2> QED BY <1>3, <2>1 DEF Final, producing
<1> QED BY <1>2, <1>3

-----------------------------------------------------------------------------
(* The invariant *)

LEMMA Facts ==
    ASSUME IInv
    PROVE  /\ Len(queue) \in Nat /\ Len(observed) \in Nat
           /\ \A i \in 1 .. Len(queue) : queue[i] \in Info
           /\ \A i \in 1 .. Len(observed) : observed[i] \in Nat
           /\ sent \in Nat /\ lost \in Nat /\ skipped \in Nat /\ hand \in Nat
           /\ report \in Int
           /\ Info \subseteq Nat /\ Terminal \notin Info
           /\ queue # <<>> <=> Len(queue) # 0
           /\ observed # <<>> <=> Len(observed) # 0
<1>1. queue \in Seq(Info) /\ observed \in Seq(Info \cup {Terminal})
  BY DEF IInv, TypeOK
<1>2. Info \subseteq Nat /\ Terminal \in Nat /\ Terminal \notin Info
  BY BoundAssumption DEF Info, Terminal
<1>3. /\ \A i \in 1 .. Len(queue) : queue[i] \in Info
      /\ Len(queue) \in Nat /\ (queue # <<>> <=> Len(queue) # 0)
  BY <1>1
<1>4. /\ \A i \in 1 .. Len(observed) : observed[i] \in Info \cup {Terminal}
      /\ Len(observed) \in Nat /\ (observed # <<>> <=> Len(observed) # 0)
  BY <1>1
<1>5. sent \in Nat /\ lost \in Nat /\ skipped \in Nat /\ hand \in Nat /\ report \in Int
  BY <1>2, BoundAssumption DEF IInv, TypeOK, NoReport
<1> QED BY <1>2, <1>3, <1>4, <1>5

LEMMA InitInv == Init => IInv
<1> SUFFICES ASSUME Init PROVE IInv OBVIOUS
<1>1. queue \in Seq(Info) /\ observed \in Seq(Info \cup {Terminal})
      /\ Len(queue) = 0 /\ Len(observed) = 0
  BY EmptyFacts DEF Init
<1>2. TypeOK
  <2>1. Len(queue) <= Capacity BY <1>1, CapacityAssumption
  <2>2. sent \in 0 .. MaxInfo BY BoundAssumption DEF Init
  <2>3. hand \in Info \cup {Terminal} /\ report \in Nat \cup {NoReport} BY DEF Init
  <2> QED BY <1>1, <2>1, <2>2, <2>3 DEF Init, TypeOK
<1>3. Upcoming /\ Past /\ Fifo BY <1>1 DEF Init, Upcoming, Past, Fifo
<1>4. Stage BY <1>1 DEF Init, Stage, Reporting
<1>5. Conservation
  BY <1>1 DEF Init, Conservation, Pending, InHand, InfoSeen, InfoLost, TerminalSeen, NoReport
<1> QED BY <1>2, <1>3, <1>4, <1>5 DEF IInv

LEMMA PutTypes == ASSUME IInv, Put PROVE TypeOK'
<1>1. TypeOK /\ lost \in Nat BY DEF IInv, TypeOK
<1>2. /\ producer' \in {"open", "put", "bestmove", "publish", "closed"}
      /\ UNCHANGED <<sent, skipped, terminal, ready, aborted, observed, report, worker, hand, done>>
  BY PutDoes
<1>3. queue' \in Seq(Info) /\ Len(queue') <= Capacity /\ lost' \in Nat
  <2>1. CASE queue' \in Seq(Info) /\ Len(queue') <= Capacity /\ lost' = lost
    BY <1>1, <2>1
  <2>2. CASE lost' = lost + 1 /\ queue' = queue
    BY <1>1, <2>2 DEF TypeOK
  <2> QED BY <2>1, <2>2, PutDoes
<1> QED BY <1>1, <1>2, <1>3 DEF TypeOK

LEMMA StepTypes == ASSUME IInv, [Next]_vars PROVE TypeOK'
<1> USE CapacityAssumption, BoundAssumption DEF IInv, TypeOK, Upcoming, Info, Terminal, NoReport, observing, producing
<1>1. CASE SubmitInfo BY <1>1 DEF SubmitInfo
<1>2. CASE Put BY <1>2, PutTypes
<1>3. CASE SubmitBestmove BY <1>3 DEF SubmitBestmove
<1>4. CASE SetTerminal BY <1>4 DEF SetTerminal
<1>5. CASE PublishTerminal BY <1>5 DEF PublishTerminal
<1>6. CASE Abort BY <1>6 DEF Abort
<1>7. CASE Check BY <1>7 DEF Check
<1>8. CASE Get
  <2> HIDE DEF IInv, Upcoming, Info, TypeOK
  <2>1. Len(queue) \in Nat /\ Len(queue) <= Capacity /\ hand \in Info \cup {Terminal}
    BY Facts DEF IInv, TypeOK
  <2>2. queue \in Seq(Info) BY DEF IInv, TypeOK
  <2>3. queue' \in Seq(Info) /\ Len(queue') <= Capacity
    BY <1>8, GetDoes, <2>1, <2>2, CapacityAssumption
  <2>4. worker' \in {"observe", "empty"} /\ hand' \in Info \cup {Terminal}
        /\ UNCHANGED <<lost, aborted, observed, report, done, sent, skipped,
                       producer, terminal, ready>>
    BY <1>8, GetDoes, <2>1
  <2> QED BY <2>3, <2>4 DEF IInv, TypeOK
<1>9. CASE Observe BY SMTT(60), <1>9, ObserveDoes
<1>10. CASE Empty BY <1>10 DEF Empty
<1>11. CASE Final BY SMTT(60), <1>11, ObserveDoes
<1>12. CASE Finish BY <1>12 DEF Finish
<1>13. CASE End BY <1>13 DEF End
<1>14. CASE UNCHANGED vars BY <1>14 DEF vars
<1> QED BY <1>1, <1>2, <1>3, <1>4, <1>5, <1>6, <1>7, <1>8, <1>9, <1>10, <1>11,
           <1>12, <1>13, <1>14 DEF Next, Produce, Work

\* A step that moves no line.
Quiet ==
    /\ UNCHANGED <<queue, observed, sent, hand>>
    /\ producer' = "put" => producer = "put"
    /\ worker' = "observe" => worker = "observe"

LEMMA QuietSteps ==
    ASSUME SubmitBestmove \/ SetTerminal \/ PublishTerminal \/ Abort \/ Check \/ Empty
           \/ Finish \/ End \/ UNCHANGED vars
    PROVE  Quiet
BY DEF SubmitBestmove, SetTerminal, PublishTerminal, Abort, Check, Empty, Finish, End,
       vars, observing, producing, Quiet

LEMMA QuietKeeps ==
    ASSUME IInv, Quiet PROVE Upcoming' /\ Past' /\ Fifo'
<1>1. Upcoming' BY DEF IInv, Quiet, Upcoming
<1>2. Past' BY DEF IInv, Quiet, Past
<1>3. Fifo' BY DEF IInv, Quiet, Fifo
<1> QED BY <1>1, <1>2, <1>3

LEMMA StepUpcoming == ASSUME IInv, [Next]_vars PROVE Upcoming'
<1>a. Upcoming BY DEF IInv
<1>1. CASE Quiet BY <1>1, QuietKeeps
<1>2. CASE Put
  <2>1. CASE Extends(queue', queue, sent)
    <3>1. producer = "put" /\ producer' = "open" /\ sent' = sent /\ worker' = worker /\ hand' = hand
      BY <1>2, PutDoes
    <3>2. \A k \in 1 .. Len(queue') :
             \/ k \in 1 .. Len(queue) /\ queue'[k] = queue[k]
             \/ k = Len(queue) + 1 /\ queue'[k] = sent
      BY <2>1, Facts DEF Extends
    <3>3. \A k \in 1 .. Len(queue) : queue[k] < sent /\ queue[k] \in Nat
      BY <1>a, <3>1, Facts DEF Upcoming
    <3>4. ASSUME NEW k \in 1 .. Len(queue'), NEW n \in 1 .. Len(queue'), k < n
          PROVE  queue'[k] < queue'[n]
      <4>1. k \in 1 .. Len(queue) /\ queue'[k] = queue[k]
        BY <2>1, <3>2, <3>4, Facts DEF Extends
      <4> QED BY <4>1, <3>2, <3>3, <3>4, <1>a DEF Upcoming
    <3>6. \A k \in 1 .. Len(queue') : queue'[k] <= sent
      BY SMTT(60), <3>2, <3>3, Facts
    <3>5. worker = "observe" => \A k \in 1 .. Len(queue') : hand < queue'[k]
      BY <3>1, <3>2, <1>a DEF Upcoming
    <3> QED BY <3>1, <3>4, <3>5, <3>6, <1>a DEF Upcoming
  <2>2. CASE queue' = queue BY <1>2, <2>2, <1>a, PutDoes DEF Upcoming
  <2> QED BY <1>2, <2>1, <2>2, PutDoes
<1>8. CASE Get
  <2>1. CASE worker' = "empty" BY <1>8, <2>1, <1>a, GetDoes DEF Upcoming
  <2>2. CASE worker' = "observe"
    <3>1. /\ sent' = sent /\ producer' = producer /\ hand' = queue[1]
          /\ hand' \in Info /\ Len(queue) \in Nat \ {0}
          /\ Len(queue') = Len(queue) - 1
          /\ \A k \in 1 .. Len(queue') : queue'[k] = queue[k + 1]
      BY <1>8, <2>2, GetDoes
    <3>2. \A k \in 1 .. Len(queue') : k + 1 \in 1 .. Len(queue) /\ 1 < k + 1
      BY <3>1
    <3>3. 1 \in 1 .. Len(queue) BY <3>1
    <3>4. \A k \in 1 .. Len(queue') : hand' < queue'[k]
      BY <3>1, <3>2, <3>3, <1>a DEF Upcoming
    <3>5. ASSUME NEW k \in 1 .. Len(queue')
          PROVE  queue'[k] <= sent /\ (producer = "put" => queue'[k] < sent)
      BY <3>1, <3>2, <1>a DEF Upcoming
    <3>7. ASSUME NEW k \in 1 .. Len(queue'), NEW n \in 1 .. Len(queue'), k < n
          PROVE  queue'[k] < queue'[n]
      <4>1. k + 1 < n + 1 BY <3>1, <3>7
      <4> QED BY <4>1, <3>1, <3>2, <1>a DEF Upcoming
    <3>6. hand' <= sent /\ (producer = "put" => hand' < sent)
      <4>1. \A k \in 1 .. Len(queue) :
               queue[k] <= sent /\ (producer = "put" => queue[k] < sent)
        BY <1>a DEF Upcoming
      <4>2. queue[1] <= sent /\ (producer = "put" => queue[1] < sent)
        BY <3>3, <4>1
      <4> QED BY <3>1, <4>2
    <3> QED BY <2>2, <3>1, <3>4, <3>5, <3>6, <3>7, <1>a DEF Upcoming
  <2> QED BY <1>8, <2>1, <2>2, GetDoes
<1>9. CASE Observe \/ Final BY <1>9, <1>a, ObserveDoes DEF Upcoming
<1>10. CASE SubmitInfo
  <2>1. /\ sent' = sent + 1 /\ sent' \in Info /\ UNCHANGED <<queue, worker, hand>>
    BY <1>10, BoundAssumption, Facts DEF SubmitInfo, Info, observing
  <2>2. \A k \in 1 .. Len(queue) : queue[k] <= sent /\ queue[k] \in Nat /\ sent \in Nat
    BY <1>a, Facts DEF Upcoming
  <2>3. \A k \in 1 .. Len(queue) : queue[k] < sent + 1 BY <2>2
  <2>4. worker = "observe" => hand < sent + 1 /\ hand <= sent + 1
    BY <1>a, Facts DEF Upcoming
  <2> QED BY <1>a, <2>1, <2>2, <2>3, <2>4 DEF Upcoming
<1> QED BY <1>1, <1>2, <1>8, <1>9, <1>10, QuietSteps DEF Next, Produce, Work

LEMMA StepPast == ASSUME IInv, [Next]_vars PROVE Past'
<1>a. Past /\ Upcoming BY DEF IInv
<1>1. CASE Quiet BY <1>1, QuietKeeps
<1>2. CASE Put
  <2>1. /\ producer = "put" /\ producer' # "put" /\ UNCHANGED <<observed, sent, worker, hand>>
        /\ queue' = queue \/ Extends(queue', queue, sent)
    BY <1>2, PutDoes
  <2>2. ASSUME NEW i \in 1 .. Len(observed), NEW k \in 1 .. Len(queue')
        PROVE  observed[i] < queue'[k]
    <3>1. observed[i] < sent /\ \A n \in 1 .. Len(queue) : observed[i] < queue[n]
      BY <1>a, <2>1 DEF Past
    <3>2. CASE Extends(queue', queue, sent)
      <4>0. k = Len(queue) + 1 \/ k \in 1 .. Len(queue)
        BY <3>2, Facts DEF Extends
      <4>1. queue'[k] = sent \/ \E n \in 1 .. Len(queue) : queue'[k] = queue[n]
        BY <3>2, <4>0 DEF Extends
      <4> QED BY <3>1, <4>1
    <3> QED BY <2>1, <3>1, <3>2
  <2> QED BY <1>a, <2>1, <2>2 DEF Past
<1>8. CASE Get
  <2>1. /\ UNCHANGED <<observed, sent, producer>>
        /\ \/ worker' = "observe" /\ Len(queue) \in Nat \ {0} /\ hand' = queue[1]
              /\ Len(queue') = Len(queue) - 1
              /\ \A k \in 1 .. Len(queue') : queue'[k] = queue[k + 1]
           \/ worker' # "observe" /\ queue' = queue
    BY <1>8, GetDoes
  <2>2. \A k \in 1 .. Len(queue') : \E n \in 1 .. Len(queue) : queue'[k] = queue[n]
    BY <2>1
  <2>3. worker' = "observe" => \E n \in 1 .. Len(queue) : hand' = queue[n]
    BY <2>1
  <2>4. \A i \in 1 .. Len(observed) : \A n \in 1 .. Len(queue) : observed[i] < queue[n]
    BY <1>a DEF Past
  <2> QED BY <1>a, <2>1, <2>2, <2>3, <2>4 DEF Past
<1>9. CASE Observe \/ Final
  <2>1. CASE observed' = observed BY <1>9, <1>a, <2>1, ObserveDoes DEF Past
  <2>2. CASE Extends(observed', observed, IF worker = "observe" THEN hand ELSE Terminal)
    <3>1. /\ worker' # "observe" /\ UNCHANGED <<queue, sent, producer, hand>>
      BY <1>9, ObserveDoes
    <3>2. \A k \in 1 .. Len(queue) : queue[k] \in Info BY Facts
    <3>3. CASE worker = "observe"
      <4>1. /\ hand <= sent /\ (producer = "put" => hand < sent)
            /\ \A k \in 1 .. Len(queue) : hand < queue[k]
        BY <1>a, <3>3 DEF Upcoming
      <4>2. \A i \in 1 .. Len(observed') :
               observed'[i] = hand \/ \E n \in 1 .. Len(observed) : observed'[i] = observed[n]
        BY SMTT(60), <2>2, <3>3, Facts DEF Extends
      <4> QED BY <1>a, <3>1, <4>1, <4>2 DEF Past
    <3>4. CASE worker # "observe"
      <4>1. producer # "put" BY <1>9, <3>4, ObserveDoes DEF IInv, Stage
      <4> QED BY SMTT(60), <1>a, <2>2, <3>1, <3>2, <3>4, <4>1, BoundAssumption, Facts
                 DEF Extends, Past, Terminal, Info
    <3> QED BY <3>3, <3>4
  <2> QED BY <1>9, <2>1, <2>2, ObserveDoes
<1>10. CASE SubmitInfo
  <2>1. /\ sent' = sent + 1 /\ UNCHANGED <<queue, observed, worker, hand>>
    BY <1>10 DEF SubmitInfo, observing
  <2> QED BY <1>a, <2>1, Facts DEF Past
<1> QED BY <1>1, <1>2, <1>8, <1>9, <1>10, QuietSteps DEF Next, Produce, Work

LEMMA StepFifo == ASSUME IInv, [Next]_vars PROVE Fifo'
<1>a. Fifo BY DEF IInv
<1>1. CASE Quiet BY <1>1, QuietKeeps
<1>2. CASE Put BY <1>2, <1>a, PutDoes DEF Fifo
<1>8. CASE Get BY <1>8, <1>a, GetDoes DEF Fifo
<1>9. CASE Observe \/ Final
  <2>1. CASE observed' = observed BY <1>9, <1>a, <2>1, ObserveDoes DEF Fifo
  <2>2. CASE Extends(observed', observed, IF worker = "observe" THEN hand ELSE Terminal)
    <3>1. ~Reporting BY <1>9, ObserveDoes DEF IInv, Stage, Reporting
    <3>2. \A k \in 1 .. Len(observed) : observed[k] # Terminal
      BY <3>1 DEF IInv, Stage
    <3>3. worker = "observe" => \A k \in 1 .. Len(observed) : observed[k] < hand
      BY DEF IInv, Past
    <3>4. ASSUME NEW k \in 1 .. Len(observed'), NEW n \in 1 .. Len(observed'), k < n
          PROVE  observed'[k] # Terminal /\ (observed'[n] = Terminal \/ observed'[k] < observed'[n])
      <4>1. k \in 1 .. Len(observed) /\ observed'[k] = observed[k]
        BY <2>2, <3>4, Facts DEF Extends
      <4>2. CASE n \in 1 .. Len(observed)
        BY <1>a, <2>2, <3>2, <3>4, <4>1, <4>2 DEF Extends, Fifo
      <4>3. CASE n = Len(observed) + 1
        BY <2>2, <3>2, <3>3, <4>1, <4>3 DEF Extends
      <4> QED BY <4>2, <4>3, <2>2, Facts DEF Extends
    <3> QED BY <3>4 DEF Fifo
  <2> QED BY <1>9, <2>1, <2>2, ObserveDoes
<1>10. CASE SubmitInfo BY <1>10, <1>a DEF SubmitInfo, observing, Fifo
<1> QED BY <1>1, <1>2, <1>8, <1>9, <1>10, QuietSteps DEF Next, Produce, Work

LEMMA StepStage == ASSUME IInv, [Next]_vars PROVE Stage'
<1> USE Facts DEF observing, producing, NoReport
<1>a. Upcoming /\ Past /\ Fifo /\ Stage /\ Conservation BY DEF IInv
<1>1. CASE SubmitInfo BY <1>1, <1>a DEF SubmitInfo, Stage, Upcoming, Reporting, Terminal
<1>2. CASE Put BY <1>2, <1>a, PutDoes DEF Extends, Stage, Upcoming, Reporting, Terminal
<1>3. CASE SubmitBestmove BY <1>3, <1>a DEF SubmitBestmove, Stage, Upcoming, Reporting, Terminal
<1>4. CASE SetTerminal BY <1>4, <1>a DEF SetTerminal, Stage, Upcoming, Reporting, Terminal
<1>5. CASE PublishTerminal BY <1>5, <1>a DEF PublishTerminal, Stage, Upcoming, Reporting, Terminal
<1>6. CASE Abort BY <1>6, <1>a DEF Abort, Stage, Upcoming, Reporting, Terminal
<1>7. CASE Check BY <1>7, <1>a DEF Check, Stage, Upcoming, Reporting, Terminal
<1>8. CASE Get BY <1>8, <1>a, GetDoes DEF Stage, Upcoming, Reporting, Terminal
<1>9. CASE Observe BY SMTT(60), <1>9, <1>a, ObserveDoes DEF Extends, Observe, Stage, Upcoming, Reporting, Terminal
<1>10. CASE Empty BY <1>10, <1>a DEF Empty, Stage, Upcoming, Reporting, Terminal
<1>11. CASE Final BY <1>11, <1>a, ObserveDoes DEF Extends, Final, Stage, Upcoming, Reporting, Terminal
<1>12. CASE Finish BY <1>12, <1>a DEF Finish, Stage, Upcoming, Reporting, Terminal
<1>13. CASE End BY <1>13, <1>a DEF End, Stage, Reporting
<1>14. CASE UNCHANGED vars BY <1>14, <1>a DEF vars, Stage, Upcoming, Reporting, Terminal
<1> QED BY <1>1, <1>2, <1>3, <1>4, <1>5, <1>6, <1>7, <1>8, <1>9, <1>10, <1>11,
           <1>12, <1>13, <1>14 DEF Next, Produce, Work

\* The terminal is in observed only once the worker is past Final.
LEMMA SeenLate == ASSUME IInv, ~Reporting PROVE ~TerminalSeen
BY Facts DEF IInv, Stage, TerminalSeen

LEMMA Counts ==
    ASSUME IInv
    PROVE  /\ InfoSeen \in Int /\ InfoLost \in Int /\ Pending \in Int /\ InHand \in Int
           /\ Len(queue) \in Int /\ sent \in Int /\ skipped \in Int /\ lost \in Int
<1>1. Len(queue) \in Int /\ Len(observed) \in Int /\ sent \in Int /\ skipped \in Int /\ lost \in Int
  BY Facts
<1>2. InfoSeen \in Int /\ InfoLost \in Int BY <1>1 DEF InfoSeen, InfoLost
<1>3. Pending \in Int /\ InHand \in Int BY DEF Pending, InHand
<1> QED BY <1>1, <1>2, <1>3

LEMMA StepCount == ASSUME IInv, [Next]_vars PROVE Conservation'
<1>a. Conservation BY DEF IInv
<1>b. /\ InfoSeen \in Int /\ InfoLost \in Int /\ Pending \in Int /\ InHand \in Int
      /\ Len(queue) \in Int /\ sent \in Int /\ skipped \in Int /\ lost \in Int
  BY Counts
<1>c. Len(observed) \in Int /\ (observed # <<>> => Len(observed) # 0) BY Facts
<1>2. CASE Put
  <2>1. /\ Pending = 1 /\ Pending' = 0 /\ UNCHANGED <<InHand, InfoSeen, sent, skipped>>
        /\ UNCHANGED <<observed, report, worker>>
    BY <1>2, PutDoes DEF Pending, InHand, InfoSeen, TerminalSeen
  <2>2. CASE lost' = lost /\ Extends(queue', queue, sent)
    <3>1. InfoLost' = InfoLost BY <2>1, <2>2 DEF InfoLost, TerminalSeen
    <3>2. Len(queue') = Len(queue) + 1 BY <2>2 DEF Extends
    <3> QED BY <1>a, <1>b, <2>1, <3>1, <3>2 DEF Conservation
  <2>3. CASE lost' = lost + 1 /\ queue' = queue
    <3>1. InfoLost' = InfoLost + 1 BY <1>b, <2>1, <2>3 DEF InfoLost, TerminalSeen
    <3> QED BY <1>a, <1>b, <2>1, <2>3, <3>1 DEF Conservation
  <2> QED BY <1>2, <2>2, <2>3, PutDoes
<1>3. CASE SubmitBestmove \/ SetTerminal \/ PublishTerminal \/ Abort \/ Check \/ Empty
           \/ End \/ UNCHANGED vars
  <2>1. UNCHANGED <<observed, report, lost, sent, skipped, queue, InHand, Pending>>
    BY <1>3 DEF SubmitBestmove, SetTerminal, PublishTerminal, Abort, Check, Empty, End, vars,
                observing, producing, InHand, Pending
  <2>2. worker = "finish" <=> worker' = "finish"
    BY <1>3 DEF SubmitBestmove, SetTerminal, PublishTerminal, Abort, Check, Empty, End, vars,
                observing, producing
  <2> QED BY <1>a, <2>1, <2>2 DEF Conservation, InfoSeen, InfoLost, TerminalSeen
<1>8. CASE Get
  <2>1. /\ UNCHANGED <<observed, report, lost, sent, skipped, producer>>
        /\ worker = "get" /\ worker' # "finish"
    BY <1>8, GetDoes
  <2>2. UNCHANGED <<InfoSeen, InfoLost, Pending>>
    BY <2>1 DEF InfoSeen, InfoLost, TerminalSeen, Pending
  <2>3. InHand = 0 /\ Len(queue) = Len(queue)' + InHand'
    BY <1>8, GetDoes, Facts DEF InHand
  <2>4. InHand' \in Int /\ Len(queue') \in Int
    <3>1. Len(queue') = Len(queue) - 1 \/ queue' = queue BY <1>8, GetDoes
    <3> QED BY <1>b, <3>1 DEF InHand
  <2> QED BY SMTT(60), <1>a, <1>b, <2>1, <2>2, <2>3, <2>4 DEF Conservation
<1>9. CASE Observe \/ Final
  <2>1. ~Reporting BY <1>9, ObserveDoes DEF IInv, Stage, Reporting
  <2>2. ~TerminalSeen /\ InfoSeen = Len(observed) /\ InfoLost = lost
    BY <2>1, SeenLate DEF InfoSeen, InfoLost, Reporting
  <2>3. /\ UNCHANGED <<queue, sent, skipped, Pending>> /\ report = NoReport
    BY <1>9, <2>1, ObserveDoes DEF Pending, Reporting
  <2>4. report' = NoReport BY <2>3, <1>9, ObserveDoes
  <2>5. CASE worker = "observe"
    <3>1. InHand = 1 /\ InHand' = 0 /\ worker' = "check" /\ hand \in Info
      BY <1>9, <2>5, ObserveDoes DEF InHand, IInv, Upcoming
    <3>2. CASE observed' = observed /\ lost' = lost + 1
      <4>1. InfoSeen' = Len(observed) /\ InfoLost' = lost + 1
        BY <2>2, <2>4, <3>1, <3>2 DEF InfoSeen, InfoLost, TerminalSeen
      <4> QED BY <1>a, <1>b, <1>c, <2>2, <2>3, <3>1, <4>1 DEF Conservation
    <3>3. CASE Extends(observed', observed, hand) /\ lost' = lost
      <4>1. InfoSeen' = Len(observed) + 1 /\ InfoLost' = lost
        <5>1. /\ Len(observed') = Len(observed) + 1 /\ observed' # <<>>
              /\ observed'[Len(observed')] = hand /\ hand # Terminal
          BY <3>1, <3>3, <1>c, Facts DEF Extends
        <5> QED BY <2>4, <3>1, <3>3, <5>1 DEF InfoSeen, InfoLost, TerminalSeen
      <4> QED BY <1>a, <1>b, <1>c, <2>2, <2>3, <3>1, <4>1 DEF Conservation
    <3> QED BY <1>9, <2>5, <3>2, <3>3, ObserveDoes
  <2>6. CASE worker = "final"
    <3>1. InHand = 0 /\ InHand' = 0 /\ worker' = "finish"
      BY <1>9, <2>6, ObserveDoes DEF InHand
    <3>2. CASE observed' = observed /\ lost' = lost + 1
      <4>1. InfoSeen' = Len(observed) /\ InfoLost' = lost
        BY <2>2, <3>1, <3>2, <1>b, <1>c DEF InfoSeen, InfoLost, TerminalSeen
      <4> QED BY <1>a, <1>b, <1>c, <2>2, <2>3, <3>1, <4>1 DEF Conservation
    <3>3. CASE Extends(observed', observed, Terminal) /\ lost' = lost
      <4>1. InfoSeen' = Len(observed) /\ InfoLost' = lost
        BY <3>1, <3>3, <1>b, <1>c DEF Extends, InfoSeen, InfoLost, TerminalSeen
      <4> QED BY <1>a, <1>b, <1>c, <2>2, <2>3, <3>1, <4>1 DEF Conservation
    <3> QED BY <1>9, <2>6, <3>2, <3>3, ObserveDoes
  <2> QED BY <1>9, <2>5, <2>6, ObserveDoes
<1>10. CASE SubmitInfo
  <2>1. /\ UNCHANGED <<queue, observed, report, worker, lost, InHand>>
        /\ sent' = sent + 1 /\ Pending = 0
        /\ \/ skipped' = skipped + 1 /\ Pending' = 0
           \/ skipped' = skipped /\ Pending' = 1
    BY <1>10 DEF SubmitInfo, observing, InHand, Pending
  <2>2. UNCHANGED <<InfoSeen, InfoLost>> BY <2>1 DEF InfoSeen, InfoLost, TerminalSeen
  <2>3. CASE skipped' = skipped + 1 /\ Pending' = 0
    BY <1>a, <1>b, <2>1, <2>2, <2>3 DEF Conservation
  <2>4. CASE skipped' = skipped /\ Pending' = 1
    BY <1>a, <1>b, <2>1, <2>2, <2>4 DEF Conservation
  <2> QED BY <2>1, <2>3, <2>4
<1>12. CASE Finish
  <2>1. /\ UNCHANGED <<queue, observed, lost, InHand, sent, skipped, Pending>>
        /\ worker = "finish" /\ report' = lost
    BY <1>12 DEF Finish, producing, InHand, Pending
  <2>2. UNCHANGED <<InfoSeen, InfoLost>>
    BY <2>1, Facts DEF InfoSeen, InfoLost, TerminalSeen, NoReport
  <2> QED BY <1>a, <2>1, <2>2 DEF Conservation
<1> QED BY <1>2, <1>3, <1>8, <1>9, <1>10, <1>12 DEF Next, Produce, Work

\* The invariant holds of every reachable state of producer, worker and abort.
THEOREM Invariance == Spec => []IInv
<1>1. IInv /\ [Next]_vars => IInv'
  BY StepTypes, StepUpcoming, StepPast, StepFifo, StepStage, StepCount DEF IInv
<1>2. QED BY InitInv, <1>1, PTL DEF Spec

\* Nothing the engine printed disappears: for every capacity each info line is
\* observed, counted, refused by an abort or still on its way.
THEOREM NothingDisappears == Spec => []Conservation
BY Invariance, PTL DEF IInv

\* The replay sees the lines in the order the engine printed them.
THEOREM InOrder == Spec => []Fifo
BY Invariance, PTL DEF IInv

\* The worker does not end unnoticed.
THEOREM Reports == Spec => []NoSilentExit
<1>1. IInv => NoSilentExit BY DEF IInv, Stage, NoSilentExit
<1> QED BY Invariance, <1>1, PTL

\* The loss _finished was given stays the loss of the stream.
THEOREM ReportStands == Spec => ReportIsFinal
<1>1. IInv /\ [Next]_vars => [report # NoReport => UNCHANGED <<report, observed, lost>>]_vars
  BY DEF IInv, Stage, Reporting, Next, Produce, Work, vars, observing, producing, SubmitInfo, Put,
         SubmitBestmove, SetTerminal, PublishTerminal, Abort, Check, Get, Observe, Empty,
         Final, Finish, End
<1> QED BY Invariance, <1>1, PTL DEF Spec, ReportIsFinal

-----------------------------------------------------------------------------
(* The stream: queue, writer, close and checkpoints, for any items *)

USE DEF Stream!producing, Stream!writing, Stream!closingUp, Stream!deciding

Piped    == Stream!Item \cup {Sentinel}

Shape ==
    /\ pipe \in Seq(Piped) /\ sending \in Stream!Item \cup {None} /\ pending \in Int
    /\ file \in Seq(Stream!Item) /\ offered \subseteq Stream!Item /\ view \subseteq Stream!Item
    /\ lossy \in BOOLEAN /\ truncated \in BOOLEAN /\ tracked \in BOOLEAN
    /\ givenUp \in BOOLEAN /\ closer \in {"open", "join", "shut", "closed"}
    /\ writer \in {"take", "apply", "write", "record", "exit"}
    /\ reading \in {"backlog", "events", "truncated", "lossy"}
    /\ writer \in {"apply", "write", "record"} => item \in Stream!Item
    /\ full => sending # None
    /\ givenUp => lossy

\* The sentinel is queued once, by close.
HasEnd == \E i \in 1 .. Len(pipe) : pipe[i] = Sentinel
OneEnd ==
    /\ \A i, j \in 1 .. Len(pipe) : pipe[i] = Sentinel /\ pipe[j] = Sentinel => i = j
    /\ closer = "open" => ~HasEnd

\* Until close gives up, the backlog is what is being put, what is queued and
\* what the writer has in hand.
Sending  == IF sending = None THEN 0 ELSE 1
Queued   == IF HasEnd THEN Len(pipe) - 1 ELSE Len(pipe)
Handling == IF writer \in {"apply", "write"} THEN 1 ELSE 0
Counted  == ~givenUp => pending = Sending + Queued + Handling

\* What was offered to a tracked stream is on view, is still on its way, or its
\* loss is on record; or the writer is about to record it.
Located ==
    tracked /\ ~lossy /\ ~truncated =>
        \A x \in offered :
            \/ x \in view \/ x = sending
            \/ \E i \in 1 .. Len(pipe) : pipe[i] = x
            \/ writer \in {"apply", "write", "record"} /\ item = x

\* What a checkpoint under way has established.
Failing == IF writer = "record" THEN {item} ELSE {}
Deciding ==
    /\ reading = "events"    => lossy \/ truncated \/ due \subseteq view \cup Failing
    /\ reading = "truncated" => lossy \/ truncated \/ due \subseteq seen \cup Failing
    /\ reading = "lossy"     => lossy \/ due \subseteq seen \cup Failing

SInv == Shape /\ OneEnd /\ Counted /\ Located /\ Deciding

-----------------------------------------------------------------------------
(* Sequences *)

LEMMA Appended ==
  ASSUME NEW T, NEW s \in Seq(T), NEW x \in T
  PROVE  /\ Append(s, x) \in Seq(T) /\ Len(Append(s, x)) = Len(s) + 1 /\ Len(s) \in Nat
         /\ \A i \in 1 .. Len(s) : Append(s, x)[i] = s[i]
         /\ Append(s, x)[Len(s) + 1] = x
  OBVIOUS

LEMMA Shortened ==
  ASSUME NEW T, NEW s \in Seq(T), s # <<>>
  PROVE  /\ Tail(s) \in Seq(T) /\ Len(Tail(s)) = Len(s) - 1 /\ Len(s) \in Nat \ {0}
         /\ \A i \in 1 .. Len(s) - 1 : Tail(s)[i] = s[i + 1]
         /\ Head(s) = s[1] /\ Head(s) \in T
  OBVIOUS

-----------------------------------------------------------------------------
(* The steps *)

LEMMA Initially == Stream!StreamInit => SInv
<1> SUFFICES ASSUME Stream!StreamInit PROVE SInv
  OBVIOUS
<1>1. Shape
  <2>1. pipe \in Seq(Piped) /\ file \in Seq(Stream!Item)
    BY DEF Stream!StreamInit
  <2>2. lossy \in BOOLEAN /\ truncated \in BOOLEAN /\ tracked \in BOOLEAN /\ givenUp \in BOOLEAN
    BY DEF Stream!StreamInit
  <2>3. sending = None /\ pending \in Int /\ offered = {} /\ view = {} /\ closer = "open"
        /\ writer = "take" /\ reading = "backlog" /\ ~full /\ ~givenUp
    BY DEF Stream!StreamInit
  <2> QED
    BY <2>1, <2>2, <2>3 DEF Shape
<1>2. OneEnd /\ ~HasEnd
  BY DEF Stream!StreamInit, OneEnd, HasEnd
<1>3. Counted
  BY <1>2 DEF Stream!StreamInit, Counted, Sending, Queued, Handling
<1>4. Located /\ Deciding
  BY DEF Stream!StreamInit, Located, Deciding
<1> QED
  BY <1>1, <1>2, <1>3, <1>4 DEF SInv

\* Steps that leave the queue, its counts and the writer's item alone.
Aside ==
    \/ Stream!Overflow \/ Stream!Leave \/ Stream!NoteLoss \/ Stream!Joined \/ Stream!Shut
        \/ Stream!Checkpoint

LEMMA ShapeStep == ASSUME SInv, Stream!StreamNext PROVE Shape'
<1> USE DEF SInv, Shape
<1>1. ASSUME NEW x \in Stream!Item, Stream!Offer(x) PROVE Shape'
  BY <1>1, StreamAssumption DEF Stream!Offer
<1>2. CASE Stream!Put
  <2>1. sending \in Piped
    BY <1>2 DEF Stream!Put, Piped
  <2>2. pipe' \in Seq(Piped)
    BY <1>2, <2>1, Appended DEF Stream!Put
  <2> QED
    BY <1>2, <2>2 DEF Stream!Put
<1>3. CASE Stream!Drop
  BY <1>3 DEF Stream!Drop
<1>4. CASE Stream!Take
  <2>1. pipe' \in Seq(Piped) /\ Head(pipe) \in Piped
    BY <1>4, Shortened DEF Stream!Take
  <2> QED
    BY <1>4, <2>1 DEF Stream!Take, Piped
<1>5. CASE Stream!Translate
  BY <1>5 DEF Stream!Translate, Stream!Applied
<1>6. CASE Stream!Reject
  BY <1>6 DEF Stream!Reject, Stream!Applied
<1>7. CASE Stream!Write
  <2>1. file' \in Seq(Stream!Item)
    BY <1>7, Appended DEF Stream!Write
  <2> QED
    BY <1>7, <2>1 DEF Stream!Write, Stream!Applied
<1>11. CASE Stream!Raise
  BY <1>11 DEF Stream!Raise
<1>12. CASE Stream!Record
  BY <1>12 DEF Stream!Record
<1>8. CASE Stream!Close
  <2>1. pipe' \in Seq(Piped)
    BY <1>8, Appended DEF Stream!Close, Piped
  <2> QED
    BY <1>8, <2>1 DEF Stream!Close
<1>9. CASE Stream!Abandon
  BY <1>9 DEF Stream!Abandon, Stream!Backlog
<1>10. CASE Aside
  <2>1. CASE Stream!Overflow
    BY <2>1 DEF Stream!Overflow
  <2>4. CASE Stream!Leave
    BY <2>4 DEF Stream!Leave
  <2>5. CASE Stream!NoteLoss
    BY <2>5 DEF Stream!NoteLoss
  <2>2. CASE Stream!Joined \/ Stream!Shut
    BY <2>2 DEF Stream!Joined, Stream!Shut
  <2>3. CASE Stream!Checkpoint
    BY <2>3 DEF Stream!Checkpoint, Stream!ReadBacklog, Stream!ReadEvents,
       Stream!ReadTruncated, Stream!ReadLossy
  <2> QED
    BY <1>10, <2>1, <2>2, <2>3, <2>4, <2>5 DEF Aside
<1> QED
  BY <1>1, <1>2, <1>3, <1>4, <1>5, <1>6, <1>7, <1>8, <1>9, <1>10, <1>11, <1>12
  DEF Stream!StreamNext, Stream!Writer, Stream!CloseSteps, Aside

\* The three actions that change the queue.
LEMMA PutPipe ==
  ASSUME SInv, Stream!Put
  PROVE  /\ OneEnd' /\ Len(pipe') = Len(pipe) + 1 /\ HasEnd' = HasEnd
         /\ \A i \in 1 .. Len(pipe) : pipe'[i] = pipe[i]
         /\ pipe'[Len(pipe) + 1] = sending
<1> USE DEF SInv, Shape
<1>1. sending \in Stream!Item /\ sending \in Piped /\ sending # Sentinel
      /\ pipe' = Append(pipe, sending)
  BY StreamAssumption DEF Stream!Put, Piped
<1>2. /\ Len(pipe') = Len(pipe) + 1 /\ Len(pipe) \in Nat
      /\ \A i \in 1 .. Len(pipe) : pipe'[i] = pipe[i]
      /\ pipe'[Len(pipe) + 1] = sending
  BY <1>1, Appended
<1>3. \A i \in 1 .. Len(pipe') : pipe'[i] = Sentinel => i \in 1 .. Len(pipe)
      /\ pipe[i] = Sentinel
  BY <1>1, <1>2
<1>4. HasEnd' <=> HasEnd
  BY <1>2, <1>3 DEF HasEnd
<1>5. closer' = closer
  BY DEF Stream!Put
<1> QED
  BY <1>2, <1>3, <1>4, <1>5 DEF OneEnd, HasEnd

LEMMA TakePipe ==
  ASSUME SInv, Stream!Take
  PROVE  /\ OneEnd' /\ Len(pipe') = Len(pipe) - 1 /\ Len(pipe) \in Nat \ {0}
         /\ HasEnd' <=> (HasEnd /\ pipe[1] # Sentinel)
         /\ \A i \in 1 .. Len(pipe) - 1 : pipe'[i] = pipe[i + 1]
         /\ Head(pipe) = pipe[1] /\ pipe[1] \in Piped
<1> USE DEF SInv, Shape
<1>1. pipe # <<>> /\ pipe' = Tail(pipe) /\ closer' = closer
  BY DEF Stream!Take
<1>2. /\ Len(pipe') = Len(pipe) - 1 /\ Len(pipe) \in Nat \ {0}
      /\ \A i \in 1 .. Len(pipe) - 1 : pipe'[i] = pipe[i + 1]
      /\ Head(pipe) = pipe[1] /\ pipe[1] \in Piped
  BY <1>1, Shortened
<1>3. \A i \in 1 .. Len(pipe') : i \in 1 .. Len(pipe) - 1 /\ i + 1 \in 1 .. Len(pipe)
  BY <1>2
<1>4. \A i, j \in 1 .. Len(pipe') : pipe'[i] = Sentinel /\ pipe'[j] = Sentinel => i = j
  <2> SUFFICES ASSUME NEW i \in 1 .. Len(pipe'), NEW j \in 1 .. Len(pipe'),
                      pipe'[i] = Sentinel, pipe'[j] = Sentinel
               PROVE  i = j
    OBVIOUS
  <2>1. pipe[i + 1] = Sentinel /\ pipe[j + 1] = Sentinel
    BY <1>2, <1>3
  <2>2. i + 1 = j + 1
    BY <2>1, <1>3 DEF OneEnd
  <2> QED
    BY <2>2, <1>3
<1>5. HasEnd' => HasEnd /\ pipe[1] # Sentinel
  <2> SUFFICES ASSUME NEW i \in 1 .. Len(pipe'), pipe'[i] = Sentinel
               PROVE  HasEnd /\ pipe[1] # Sentinel
    BY DEF HasEnd
  <2>1. pipe[i + 1] = Sentinel /\ i + 1 \in 1 .. Len(pipe) /\ i + 1 # 1
    BY <1>2, <1>3
  <2> QED
    BY <2>1, <1>2 DEF HasEnd, OneEnd
<1>6. HasEnd /\ pipe[1] # Sentinel => HasEnd'
  <2> SUFFICES ASSUME NEW i \in 1 .. Len(pipe), pipe[i] = Sentinel, pipe[1] # Sentinel
               PROVE  HasEnd'
    BY DEF HasEnd
  <2>1. i # 1 /\ i - 1 \in 1 .. Len(pipe')
    BY <1>2
  <2>2. pipe'[i - 1] = Sentinel
    BY <2>1, <1>2
  <2> QED
    BY <2>1, <2>2 DEF HasEnd
<1> QED
  BY <1>1, <1>2, <1>4, <1>5, <1>6 DEF OneEnd

LEMMA ClosePipe ==
  ASSUME SInv, Stream!Close
  PROVE  /\ OneEnd'
         /\ \/ pipe' = pipe /\ ~HasEnd /\ ~HasEnd'
            \/ ~HasEnd /\ HasEnd' /\ Len(pipe') = Len(pipe) + 1
         /\ \A i \in 1 .. Len(pipe) : i \in 1 .. Len(pipe') /\ pipe'[i] = pipe[i]
<1> USE DEF SInv, Shape
<1>1. ~HasEnd /\ closer' = "join"
  BY DEF Stream!Close, OneEnd
<1>2. CASE Len(pipe) < StreamCapacity
  <2>1. pipe' = Append(pipe, Sentinel)
    BY <1>2 DEF Stream!Close
  <2>2. /\ Len(pipe') = Len(pipe) + 1 /\ Len(pipe) \in Nat
        /\ \A i \in 1 .. Len(pipe) : pipe'[i] = pipe[i]
        /\ pipe'[Len(pipe) + 1] = Sentinel
    BY <2>1, Appended DEF Piped
  <2>3. \A i \in 1 .. Len(pipe') : pipe'[i] = Sentinel => i = Len(pipe) + 1
    BY <2>2, <1>1 DEF HasEnd
  <2>4. HasEnd'
    BY <2>2 DEF HasEnd
  <2> QED
    BY <1>1, <2>2, <2>3, <2>4 DEF OneEnd
<1>3. CASE ~(Len(pipe) < StreamCapacity)
  <2>1. pipe' = pipe
    BY <1>3 DEF Stream!Close
  <2> QED
    BY <1>1, <2>1 DEF OneEnd, HasEnd
<1> QED
  BY <1>2, <1>3

\* Every other action leaves the queue as it is.
LEMMA SamePipe ==
  ASSUME SInv, Stream!StreamNext
  PROVE  Stream!Put \/ Stream!Take \/ Stream!Close \/ (pipe' = pipe /\ (closer' = "open"
        => closer = "open"))
<1> USE DEF SInv, Shape
<1>1. ASSUME NEW x \in Stream!Item, Stream!Offer(x) PROVE pipe' = pipe /\ closer' = closer
  BY <1>1 DEF Stream!Offer
<1>2. CASE Stream!Overflow \/ Stream!Drop \/ Stream!NoteLoss \/ Stream!Leave
  BY <1>2 DEF Stream!Overflow, Stream!Drop, Stream!NoteLoss, Stream!Leave
<1>3. CASE Stream!Translate \/ Stream!Reject \/ Stream!Write \/ Stream!Raise \/ Stream!Record
  BY <1>3 DEF Stream!Translate, Stream!Reject, Stream!Write, Stream!Raise, Stream!Record
<1>4. CASE Stream!CloseSteps \/ Stream!Checkpoint
  BY <1>4 DEF Stream!CloseSteps, Stream!Joined, Stream!Abandon, Stream!Shut,
     Stream!Checkpoint, Stream!ReadBacklog, Stream!ReadEvents, Stream!ReadTruncated,
        Stream!ReadLossy
<1> QED
  BY <1>1, <1>2, <1>3, <1>4 DEF Stream!StreamNext, Stream!Writer

LEMMA OneEndStep == ASSUME SInv, Stream!StreamNext PROVE OneEnd'
<1>1. CASE Stream!Put \/ Stream!Take \/ Stream!Close
  BY <1>1, PutPipe, TakePipe, ClosePipe
<1>2. CASE pipe' = pipe /\ (closer' = "open" => closer = "open")
  BY <1>2 DEF SInv, OneEnd, HasEnd
<1> QED
  BY <1>1, <1>2, SamePipe

LEMMA CountedStep == ASSUME SInv, Stream!StreamNext PROVE Counted'
<1> USE DEF SInv, Shape, Counted
<1>1. ASSUME pipe' = pipe PROVE Queued' = Queued
  BY <1>1 DEF Queued, HasEnd
<1>2. Len(pipe) \in Nat /\ Queued \in Int
  BY DEF Queued
<1>3. ASSUME NEW x \in Stream!Item, Stream!Offer(x) PROVE Counted'
  <2>1. Queued' = Queued /\ Sending = 0 /\ Sending' = 1 /\ Handling' = Handling
        /\ pending' = pending + 1
    BY <1>1, <1>3, StreamAssumption DEF Stream!Offer, Sending, Handling
  <2>2. givenUp' = givenUp /\ Handling \in Int
    BY <1>3 DEF Stream!Offer, Handling
  <2> QED
    BY <2>1, <2>2, <1>2
<1>4. CASE Stream!Put
  <2>1. Queued' = Queued + 1
    BY <1>4, <1>2, PutPipe DEF Queued
  <2>2. Sending = 1 /\ Sending' = 0 /\ Handling' = Handling /\ pending' = pending
        /\ givenUp' = givenUp
    BY <1>4 DEF Stream!Put, Sending, Handling
  <2> QED
    BY <2>1, <2>2, <1>2 DEF Handling
<1>5. CASE Stream!Drop
  <2>1. Queued' = Queued /\ Sending = 1 /\ Sending' = 0 /\ Handling' = Handling
        /\ pending' = pending - 1
        /\ givenUp' = givenUp
    BY <1>1, <1>5 DEF Stream!Drop, Sending, Handling
  <2> QED
    BY <2>1, <1>2 DEF Handling
<1>6. CASE Stream!Take
  <2>1. /\ Sending' = Sending /\ pending' = pending /\ givenUp' = givenUp /\ Handling = 0
        /\ Handling' = IF Head(pipe) = Sentinel THEN 0 ELSE 1
    BY <1>6 DEF Stream!Take, Sending, Handling
  <2>2. Queued' = IF pipe[1] = Sentinel THEN Queued ELSE Queued - 1
    <3>1. Len(pipe') = Len(pipe) - 1 /\ Len(pipe) \in Nat \ {0} /\ (HasEnd' <=> (HasEnd
          /\ pipe[1] # Sentinel))
      BY <1>6, TakePipe
    <3>2. pipe[1] = Sentinel => HasEnd
      BY <3>1 DEF HasEnd
    <3> QED
      BY <3>1, <3>2 DEF Queued
  <2> QED
    BY <1>6, TakePipe, <2>1, <2>2, <1>2 DEF Sending
<1>7. CASE Stream!Close
  <2>1. Sending' = Sending /\ pending' = pending /\ givenUp' = givenUp /\ Handling' = Handling
    BY <1>7 DEF Stream!Close, Sending, Handling
  <2>2. Queued' = Queued
    BY <1>7, <1>2, ClosePipe DEF Queued
  <2> QED
    BY <2>1, <2>2
<1>8. CASE Stream!Abandon
  BY <1>8 DEF Stream!Abandon
<1>9. CASE Stream!Translate /\ ~givenUp
  <2>1. Queued' = Queued /\ Sending' = Sending /\ Handling' = Handling /\ pending' = pending
        /\ givenUp' = givenUp
    BY <1>1, <1>9 DEF Stream!Translate, Sending, Handling
  <2> QED
    BY <2>1
<1>10. CASE Stream!Translate /\ givenUp
  BY <1>10 DEF Stream!Translate
<1>11. CASE Stream!Reject \/ Stream!Write \/ Stream!Raise
  <2>1. Queued' = Queued /\ Sending' = Sending
    BY <1>1, <1>11 DEF Stream!Reject, Stream!Write, Stream!Raise, Sending
  <2>2. Handling = 1 /\ Handling' = 0 /\ pending' = pending - 1 /\ givenUp' = givenUp
    BY <1>11 DEF Stream!Reject, Stream!Write, Stream!Raise, Stream!Applied, Handling
  <2> QED
    BY <2>1, <2>2, <1>2 DEF Sending
<1>12. CASE Stream!Record \/ Aside
  <2>1. Sending' = Sending /\ Handling' = Handling /\ pending' = pending /\ givenUp' = givenUp
        /\ pipe' = pipe
    BY <1>12 DEF Stream!Record, Aside, Stream!Overflow, Stream!Leave, Stream!NoteLoss,
       Stream!Joined, Stream!Shut, Stream!Checkpoint,
       Stream!ReadBacklog, Stream!ReadEvents, Stream!ReadTruncated, Stream!ReadLossy, Sending,
          Handling
  <2> QED
    BY <2>1, <1>1
<1> QED
  BY <1>3, <1>4, <1>5, <1>6, <1>7, <1>8, <1>9, <1>10, <1>11, <1>12
  DEF Stream!StreamNext, Stream!Writer, Stream!CloseSteps, Aside

LEMMA LocatedStep == ASSUME SInv, Stream!StreamNext PROVE Located'
<1> USE DEF SInv, Shape, Located
<1>1. ASSUME NEW x \in Stream!Item, Stream!Offer(x) PROVE Located'
  BY <1>1, StreamAssumption DEF Stream!Offer
<1>2. CASE Stream!Put
  <2>1. UNCHANGED <<tracked, lossy, truncated, offered, view, writer, item>>
    BY <1>2 DEF Stream!Put
  <2>2. \A x \in Stream!Item : x = sending => \E i \in 1 .. Len(pipe') : pipe'[i] = x
    BY <1>2, PutPipe
  <2>3. \A x : (\E i \in 1 .. Len(pipe) : pipe[i] = x)
        => \E i \in 1 .. Len(pipe') : pipe'[i] = x
    BY <1>2, PutPipe
  <2> QED
    BY <2>1, <2>2, <2>3
<1>3. CASE Stream!Drop \/ Stream!Reject \/ Stream!Record \/ Stream!NoteLoss \/ Stream!Abandon
  BY <1>3 DEF Stream!Drop, Stream!Reject, Stream!Record, Stream!NoteLoss, Stream!Abandon
<1>4. CASE Stream!Take
  <2>1. UNCHANGED <<tracked, lossy, truncated, offered, view, sending>> /\ writer = "take"
    BY <1>4 DEF Stream!Take
  <2>2. ASSUME NEW x \in Stream!Item, NEW i \in 1 .. Len(pipe), pipe[i] = x
        PROVE  \/ \E j \in 1 .. Len(pipe') : pipe'[j] = x
               \/ writer' = "apply" /\ item' = x
    <3>1. CASE i = 1
      BY <1>4, <2>2, <3>1, TakePipe, StreamAssumption DEF Stream!Take
    <3>2. CASE i # 1
      <4>1. i - 1 \in 1 .. Len(pipe') /\ pipe'[i - 1] = x
        BY <1>4, <2>2, <3>2, TakePipe
      <4> QED
        BY <4>1
    <3> QED
      BY <3>1, <3>2
  <2> QED
    BY <2>1, <2>2
<1>5. CASE Stream!Close
  <2>1. UNCHANGED <<tracked, lossy, truncated, offered, view, sending, writer, item>>
    BY <1>5 DEF Stream!Close
  <2>2. \A x : (\E i \in 1 .. Len(pipe) : pipe[i] = x)
        => \E i \in 1 .. Len(pipe') : pipe'[i] = x
    BY <1>5, ClosePipe
  <2> QED
    BY <2>1, <2>2
<1>6. CASE Stream!Translate
  BY <1>6 DEF Stream!Translate
<1>7. CASE Stream!Write
  <2>1. /\ UNCHANGED <<tracked, lossy, offered, pipe, sending>> /\ writer = "write"
        /\ truncated' = (truncated \/ (tracked /\ Len(file) >= ViewLimit))
        /\ view' = IF tracked /\ Len(file) < ViewLimit THEN view \cup {item} ELSE view
    BY <1>7 DEF Stream!Write
  <2>2. Len(file) < ViewLimit \/ Len(file) >= ViewLimit
    BY StreamAssumption
  <2>3. tracked /\ ~truncated' => view' = view \cup {item} /\ ~truncated
    BY <2>1, <2>2
  <2> QED
    BY <2>1, <2>3
<1>8. CASE Stream!Raise
  BY <1>8 DEF Stream!Raise
<1>9. CASE Stream!Overflow \/ Stream!Leave \/ Stream!Joined \/ Stream!Shut
  BY <1>9 DEF Stream!Overflow, Stream!Leave, Stream!Joined, Stream!Shut
<1>10. CASE Stream!Checkpoint
  BY <1>10 DEF Stream!Checkpoint, Stream!ReadBacklog, Stream!ReadEvents, Stream!ReadTruncated,
     Stream!ReadLossy
<1> QED
  BY <1>1, <1>2, <1>3, <1>4, <1>5, <1>6, <1>7, <1>8, <1>9, <1>10
  DEF Stream!StreamNext, Stream!Writer, Stream!CloseSteps

\* Without a backlog and without a loss nothing is on its way.
LEMMA NoBacklog ==
  ASSUME SInv, tracked, ~Stream!Backlog
  PROVE  lossy \/ truncated \/ offered \subseteq view \cup Failing
<1> USE DEF SInv, Shape
<1>1. SUFFICES ASSUME ~lossy, ~truncated, NEW x \in offered PROVE x \in view \cup Failing
  OBVIOUS
<1>2. pending = Sending + Queued + Handling /\ pending \in Int /\ ~(pending > 0)
  BY <1>1 DEF Counted, Stream!Backlog
<1>3. Sending \in {0, 1} /\ Handling \in {0, 1} /\ Queued \in Nat
  BY DEF Sending, Handling, Queued, HasEnd
<1>4. Sending = 0 /\ Handling = 0 /\ Queued = 0
  BY <1>2, <1>3
<1>5. sending = None /\ writer \notin {"apply", "write"}
  BY <1>4 DEF Sending, Handling
<1>6. \A i \in 1 .. Len(pipe) : pipe[i] = Sentinel
  BY <1>4 DEF Queued, HasEnd
<1>7. x \in Stream!Item /\ x # Sentinel /\ x # None
  BY <1>1, StreamAssumption
<1> QED
  BY <1>1, <1>5, <1>6, <1>7 DEF Located, Failing

\* Losses stay on record, and so does what is on view.
LEMMA Monotone ==
  ASSUME SInv, Stream!StreamNext
  PROVE  /\ lossy => lossy'
         /\ truncated => truncated'
         /\ view \subseteq view'
         /\ Failing \subseteq Failing' \/ lossy'
<1> USE DEF SInv, Shape, Failing
<1>1. ASSUME NEW x \in Stream!Item, Stream!Offer(x)
      PROVE  UNCHANGED <<lossy, truncated, view, writer, item>>
  BY <1>1 DEF Stream!Offer
<1>2. CASE Stream!Put \/ Stream!Overflow \/ Stream!Close \/ Stream!Joined \/ Stream!Shut
      \/ Stream!Checkpoint
  BY <1>2 DEF Stream!Put, Stream!Overflow, Stream!Close, Stream!Joined, Stream!Shut,
     Stream!Checkpoint, Stream!ReadBacklog, Stream!ReadEvents, Stream!ReadTruncated,
        Stream!ReadLossy
<1>3. CASE Stream!Drop \/ Stream!NoteLoss \/ Stream!Abandon
  BY <1>3 DEF Stream!Drop, Stream!NoteLoss, Stream!Abandon
<1>4. CASE Stream!Take \/ Stream!Leave \/ Stream!Translate \/ Stream!Reject
  BY <1>4 DEF Stream!Take, Stream!Leave, Stream!Translate, Stream!Reject
<1>5. CASE Stream!Write
  BY <1>5 DEF Stream!Write
<1>6. CASE Stream!Raise \/ Stream!Record
  BY <1>6 DEF Stream!Raise, Stream!Record
<1> QED
  BY <1>1, <1>2, <1>3, <1>4, <1>5, <1>6 DEF Stream!StreamNext, Stream!Writer, Stream!CloseSteps

LEMMA DecidingStep == ASSUME SInv, Stream!StreamNext PROVE Deciding'
<1> USE DEF SInv, Shape, Deciding
<1>1. CASE Stream!ReadBacklog
  <2>1. UNCHANGED <<lossy, truncated, view, writer, item>> /\ due' = offered /\ tracked
    BY <1>1 DEF Stream!ReadBacklog
  <2>2. Stream!Backlog => reading' = "backlog"
    BY <1>1 DEF Stream!ReadBacklog
  <2>3. ~Stream!Backlog => reading' = "events"
    BY <1>1 DEF Stream!ReadBacklog
  <2>4. CASE ~Stream!Backlog
    BY <2>1, <2>3, <2>4, NoBacklog DEF Failing
  <2> QED
    BY <2>2, <2>4
<1>2. CASE Stream!ReadEvents
  BY <1>2 DEF Stream!ReadEvents, Failing
<1>3. CASE Stream!ReadTruncated
  BY <1>3 DEF Stream!ReadTruncated, Failing
<1>4. CASE Stream!ReadLossy
  BY <1>4 DEF Stream!ReadLossy
<1>5. CASE UNCHANGED <<reading, due, seen>>
  BY <1>5, Monotone
<1>6. \/ Stream!ReadBacklog \/ Stream!ReadEvents \/ Stream!ReadTruncated \/ Stream!ReadLossy
      \/ UNCHANGED <<reading, due, seen>>
  <2>1. ASSUME NEW x \in Stream!Item, Stream!Offer(x) PROVE UNCHANGED <<reading, due, seen>>
    BY <2>1 DEF Stream!Offer
  <2>2. CASE Stream!Put \/ Stream!Overflow \/ Stream!Drop \/ Stream!NoteLoss \/ Stream!Take
        \/ Stream!Leave \/ Stream!Translate \/ Stream!Reject
    BY <2>2 DEF Stream!Put, Stream!Overflow, Stream!Drop, Stream!NoteLoss, Stream!Take,
       Stream!Leave, Stream!Translate, Stream!Reject
  <2>3. CASE Stream!Write \/ Stream!Raise \/ Stream!Record \/ Stream!Close \/ Stream!CloseSteps
    BY <2>3 DEF Stream!Write, Stream!Raise, Stream!Record, Stream!Close, Stream!CloseSteps,
       Stream!Joined, Stream!Abandon, Stream!Shut
  <2> QED
    BY <2>1, <2>2, <2>3 DEF Stream!StreamNext, Stream!Writer, Stream!Checkpoint
<1> QED
  BY <1>1, <1>2, <1>3, <1>4, <1>5, <1>6

LEMMA StreamInductive == SInv /\ [Stream!StreamNext]_(Stream!streamVars) => SInv'
<1> SUFFICES ASSUME SInv, [Stream!StreamNext]_(Stream!streamVars) PROVE SInv'
  OBVIOUS
<1>1. CASE Stream!StreamNext
  BY <1>1, ShapeStep, OneEndStep, CountedStep, LocatedStep, DecidingStep DEF SInv
<1>2. CASE UNCHANGED Stream!streamVars
  <2> USE DEF SInv
  <2>a. UNCHANGED <<tracked, pipe, pending, lossy, sending, full, offered>>
    BY <1>2 DEF Stream!streamVars
  <2>b. UNCHANGED <<file, view, truncated, writer, item, givenUp, closer, reading, due, seen>>
    BY <1>2 DEF Stream!streamVars
  <2>1. Shape'
    BY <2>a, <2>b DEF Shape
  <2>4. OneEnd'
    BY <2>a, <2>b DEF OneEnd, HasEnd
  <2>2. Counted'
    BY <2>a, <2>b DEF Counted, Sending, Queued, Handling, HasEnd
  <2>3. Located'
    BY <2>a, <2>b DEF Located
  <2>5. Deciding'
    BY <2>a, <2>b DEF Deciding, Failing
  <2> QED
    BY <2>1, <2>2, <2>3, <2>4, <2>5
<1> QED
  BY <1>1, <1>2

LEMMA StreamInvariance == Stream!StreamSpec => []SInv
BY StreamInductive, Initially, PTL DEF Stream!StreamSpec

LEMMA TrustStep ==
  SInv /\ [Stream!StreamNext]_(Stream!streamVars) =>
    [verdict' = "trusted" /\ verdict # "trusted" =>
       due \ seen \subseteq (IF writer = "record" THEN {item} ELSE {})]_(Stream!streamVars)
<1>1. ASSUME SInv, Stream!StreamNext, verdict' = "trusted", verdict # "trusted"
      PROVE  due \ seen \subseteq (IF writer = "record" THEN {item} ELSE {})
  <2>1. Stream!ReadLossy
    <3>1. ASSUME NEW x \in Stream!Item, Stream!Offer(x) PROVE verdict' = verdict
      BY <3>1 DEF Stream!Offer
    <3>2. CASE Stream!Put \/ Stream!Overflow \/ Stream!Drop \/ Stream!NoteLoss
          \/ Stream!Take \/ Stream!Leave \/ Stream!Translate \/ Stream!Reject
      BY <3>2, <1>1 DEF Stream!Put, Stream!Overflow, Stream!Drop, Stream!NoteLoss,
         Stream!Take, Stream!Leave, Stream!Translate, Stream!Reject
    <3>3. CASE Stream!Write \/ Stream!Raise \/ Stream!Record \/ Stream!Close
          \/ Stream!CloseSteps
      BY <3>3, <1>1 DEF Stream!Write, Stream!Raise, Stream!Record, Stream!Close,
         Stream!CloseSteps, Stream!Joined, Stream!Abandon, Stream!Shut
    <3>4. CASE Stream!ReadBacklog \/ Stream!ReadEvents \/ Stream!ReadTruncated
      BY <3>4, <1>1 DEF Stream!ReadBacklog, Stream!ReadEvents, Stream!ReadTruncated
    <3> QED
      BY <1>1, <3>1, <3>2, <3>3, <3>4 DEF Stream!StreamNext, Stream!Writer, Stream!Checkpoint
  <2>2. reading = "lossy" /\ ~lossy
    BY <1>1, <2>1 DEF Stream!ReadLossy
  <2> QED
    BY <1>1, <2>2 DEF SInv, Deciding, Failing
<1> QED
  BY <1>1

-----------------------------------------------------------------------------
(* Theorems *)

\* A router's checkpoint that trusts a worker engine's evidence has seen every
\* line handed to the stream before it looked (routing.py:1829-1870), but for
\* one the writer is just failing on.
THEOREM TrustTheorem ==
  Stream!StreamSpec => Stream!TrustedIsComplete
BY TrustStep, StreamInvariance, PTL DEF Stream!StreamSpec, Stream!TrustedIsComplete

\* Until close gives up on the writer, the backlog a checkpoint or a barrier reads
\* is exactly what is on its way: no item is counted twice or forgotten
\* (replay.py:276, 309).
THEOREM BacklogTheorem ==
  Stream!StreamSpec => []Counted
  BY StreamInvariance, PTL DEF SInv

-----------------------------------------------------------------------------
(* The run: its preparation *)

\* The run takes over the prepared slot.
Moved == setup = "begin" /\ outcome["open"] # "ok"

PrepShape ==
    /\ folders \subseteq {"slot", "run"} /\ files \subseteq {"slot", "run"}
    /\ writers \subseteq {"prepared", "opened", "bound"}
    /\ prep \in {"none", "working", "built", "broken", "undo"}
    /\ slot \in BOOLEAN /\ claimed \in BOOLEAN /\ shut \in BOOLEAN /\ spilled \in BOOLEAN
    /\ helper \in [Prep!Steps -> {"off", "working", "did", "raised", "late", "ended"}]
    /\ outcome \in [Prep!Steps -> {"none", "ok", "error"}] /\ abandoned \subseteq Prep!Steps
    /\ setup \in {"idle", "move", "mkdir", "open", "begin", "made", "failed"}

\* Who answers for what the preparing thread has made.
SlotSide ==
    /\ "slot" \in folders => prep \in {"built", "broken", "undo"} \/ slot \/ setup = "move"
    /\ "slot" \in files => prep \in {"built", "broken", "undo"} \/ slot \/ setup = "move"
    /\ "prepared" \in writers => prep \in {"built", "undo"} \/ slot \/ setup = "move" \/ Moved
    /\ prep = "built" \/ slot \/ setup = "move" =>
           "slot" \in folders \cap files /\ "prepared" \in writers
    /\ slot \/ setup = "move" \/ Moved => prep = "none"
    /\ slot => ~claimed /\ ~shut
    /\ setup = "idle" => ~claimed
    /\ setup \notin {"idle", "failed"} => claimed
    /\ Moved => "prepared" \in writers /\ "run" \in folders \cap files
    /\ setup = "made" <=> "bound" \in writers
    /\ setup = "made" => "run" \in folders \cap files

\* How far the helpers are, and what they were told.
HelperSide ==
    /\ setup \in {"idle", "move", "made"} \/ Moved => \A s \in Prep!Steps : helper[s] = "off"
    /\ \A s \in Prep!Steps :
          /\ outcome[s] # "none" => helper[s] = "ended" /\ s \notin abandoned
          /\ helper[s] = "ended" => s \in abandoned \/ outcome[s] # "none"
          /\ helper[s] = "late" => s \in abandoned
          /\ s \in abandoned => setup = "failed" /\ helper[s] # "off"
          /\ helper[s] \in {"working", "did", "raised"} => setup = s \/ s \in abandoned
    /\ helper["open"] # "off" => outcome["mkdir"] = "ok"
    /\ setup = "mkdir" => helper["open"] = "off"
    /\ setup = "open" => outcome["mkdir"] = "ok"
    /\ setup = "failed" => outcome["open"] # "ok"

\* Who answers for what they have made.
RunSide ==
    /\ helper["open"] = "did" \/ outcome["open"] = "ok" =>
           "opened" \in writers /\ "run" \in folders \cap files
    /\ "opened" \in writers => helper["open"] \in {"did", "late"} \/ outcome["open"] = "ok"
    /\ "run" \in files => "opened" \in writers \/ spilled \/ Moved \/ setup = "made"
    /\ spilled =>
           /\ "run" \in folders \cap files /\ "opened" \notin writers
           /\ helper["open"] \in {"raised", "late", "ended"} /\ outcome["open"] # "ok"
           /\ setup \in {"open", "failed"}
    /\ "run" \in folders =>
          \/ spilled
          \/ Moved \/ setup = "made" \/ outcome["open"] = "ok" \/ helper["open"] \in {"did", "raised", "late"}
          \/ helper["mkdir"] \in {"did", "late"}
          \/ outcome["mkdir"] = "ok" /\ setup # "failed"

PInv == PrepShape /\ SlotSide /\ HelperSide /\ RunSide

-----------------------------------------------------------------------------
(* The run: its stream holds the lines in order, and all of them *)

\* x is printed before y.
Prec(x, y)   == x # Terminal /\ (y = Terminal \/ x < y)
Before(A, B) == \A x \in A, y \in B : Prec(x, y)
Sorted(s)    == \A i, j \in 1 .. Len(s) :
                    i < j /\ s[i] # Sentinel /\ s[j] # Sentinel => Prec(s[i], s[j])

OnFile   == {file[i] : i \in 1 .. Len(file)}
AtWriter == IF writer \in {"apply", "write", "record"} THEN {item} ELSE {}
InPipe   == {pipe[i] : i \in 1 .. Len(pipe)} \ {Sentinel}
AtSender == {sending} \ {None}

Ordered ==
    /\ OnFile \cup AtWriter \cup InPipe \cup AtSender \subseteq offered
    /\ Sorted(file) /\ Sorted(pipe)
    /\ Before(OnFile, AtWriter \cup InPipe \cup AtSender)
    /\ Before(AtWriter, InPipe \cup AtSender) /\ Before(InPipe, AtSender)

Complete ==
    ~lossy => /\ offered \subseteq OnFile \cup AtWriter \cup InPipe \cup AtSender
              /\ adapter = "complete" => Terminal \in OnFile \cup AtWriter

Sealed ==
    /\ closer = "shut" => lossy
    /\ closer = "closed" => ~handle /\ (lossy \/ writer = "exit")

FInv == Ordered /\ Complete /\ Sealed

-----------------------------------------------------------------------------
(* The run: how its parts hang together *)

\* Every info line is where a line may be, unless one was refused or lost.
Kept ==
    /\ lost = 0 /\ skipped = 0 =>
          \A k \in 1 .. sent :
              \/ producer = "put" /\ k = sent
              \/ worker = "observe" /\ k = hand
              \/ \E i \in 1 .. Len(queue) : queue[i] = k
              \/ \E i \in 1 .. Len(observed) : observed[i] = k
    /\ ~aborted \/ producer \in {"bestmove", "publish"} \/ terminal => skipped = 0

Seen == {observed[i] : i \in 1 .. Len(observed)}

\* Which thread has the stream.
Phase ==
    /\ setup # "made" <=> run = "none"
    /\ run \in {"none", "wait", "seal", "finished"}
    /\ setup # "made" => /\ worker = "check" /\ observed = <<>> /\ offered \subseteq {Opening}
                         /\ offered # {} => setup = "begin" /\ sending = Opening
    /\ setup = "made" => Opening \in offered
    /\ closer # "open" => run \in {"seal", "finished"}
    /\ manifest # None => run = "finished"

\* The stream of a worker engine: its reader counts what it offers.
ByReader ==
    tracked => /\ setup \in {"begin", "made"} /\ ending = "open" /\ sent = 0 /\ ~noted
               /\ 1 .. spoken \subseteq offered /\ spoken \in 0 .. MaxInfo
               /\ offered \subseteq {Opening, Terminal} \cup 1 .. spoken

\* The anchor's: the observer's worker offers what it observes.
ByObserver ==
    ~tracked => /\ spoken = 0 /\ (ending # "open" => shut)
                /\ setup = "made" /\ sending # None =>
                      \/ worker = "observe" /\ sending = hand
                      \/ worker = "final" /\ sending = Terminal
                /\ offered \subseteq {Opening} \cup Seen \cup AtSender
                /\ Heard \/ Terminal \in offered => Seen \subseteq offered
                /\ noted /\ ~lossy => report # NoReport /\ lost = 0

Manifested ==
    manifest # None => /\ manifest.file = file /\ manifest.noted = noted
                       /\ closer = "closed"
                       /\ manifest.whole => ~lossy /\ adapter = "complete"

RInv == IInv /\ SInv /\ FInv /\ Kept /\ Phase /\ ByReader /\ ByObserver /\ Manifested

-----------------------------------------------------------------------------
(* The preparation *)

USE DEF Prep!onDisk, Prep!priming, Prep!helping

LEMMA PrepShapeStep == ASSUME PInv, Prep!PrepNext PROVE PrepShape'
<1> USE DEF PInv, PrepShape
<1>1. CASE Prep!Prime \/ Prep!PrepMake \/ Prep!PrepKeep \/ Prep!PrepUndo
  BY <1>1 DEF Prep!Prime, Prep!PrepMake, Prep!PrepKeep, Prep!PrepUndo
<1>2. CASE Prep!Refuse \/ Prep!Claim \/ Prep!Move \/ Prep!Begun \/ Prep!Shutdown
  BY <1>2 DEF Prep!Refuse, Prep!Claim, Prep!Move, Prep!Begun, Prep!Used, Prep!Shutdown
<1>3. ASSUME NEW s \in Prep!Steps, Prep!Ask(s) \/ Prep!Settle(s) PROVE PrepShape'
  BY ZenonT(60), <1>3 DEF Prep!Ask, Prep!Settle
<1>4. ASSUME NEW s \in Prep!Steps, Prep!Work(s) PROVE PrepShape'
  BY ZenonT(60), <1>4 DEF Prep!Work
<1>5. ASSUME NEW s \in Prep!Steps, Prep!Discard(s) PROVE PrepShape'
  BY <1>5 DEF Prep!Discard, Prep!Emptied
<1>6. ASSUME NEW s \in Prep!Steps, Prep!Await(s) PROVE PrepShape'
  BY <1>6 DEF Prep!Await, Prep!Emptied
<1> QED
  BY <1>1, <1>2, <1>3, <1>4, <1>5, <1>6 DEF Prep!PrepNext, Prep!Prepare, Prep!Helpers

LEMMA TwoSteps == \A s : s \in Prep!Steps <=> s = "mkdir" \/ s = "open"
BY DEF Prep!Steps

LEMMA SettleDoes ==
  ASSUME PInv, NEW s \in Prep!Steps, Prep!Settle(s)
  PROVE  /\ UNCHANGED <<folders, files, writers, prep, slot, spilled, claimed, abandoned,
                        setup, shut>>
         /\ \A t \in Prep!Steps : t # s => helper'[t] = helper[t] /\ outcome'[t] = outcome[t]
         /\ \/ s \in abandoned /\ helper'[s] = "late" /\ outcome'[s] = outcome[s]
            \/ /\ s \notin abandoned /\ helper'[s] = "ended"
               /\ outcome'[s] = IF helper[s] = "did" THEN "ok" ELSE "error"
         /\ helper[s] \in {"did", "raised"}
<1> USE DEF PInv, PrepShape
<1>1. CASE s \in abandoned
  BY <1>1 DEF Prep!Settle
<1>2. CASE s \notin abandoned
  BY <1>2 DEF Prep!Settle
<1> QED
  BY <1>1, <1>2

LEMMA SlotSideStep == ASSUME PInv, Prep!PrepNext PROVE SlotSide'
<1> USE DEF PInv, PrepShape, SlotSide, Moved
<1>1. CASE Prep!Prime \/ Prep!PrepMake \/ Prep!PrepKeep \/ Prep!PrepUndo
  BY <1>1 DEF Prep!Prime, Prep!PrepMake, Prep!PrepKeep, Prep!PrepUndo
<1>2. CASE Prep!Refuse \/ Prep!Claim \/ Prep!Shutdown
  BY <1>2 DEF Prep!Refuse, Prep!Claim, Prep!Shutdown, HelperSide
<1>8. CASE Prep!Begun
  BY <1>8, TwoSteps DEF Prep!Begun, Prep!Used, HelperSide, RunSide
<1>7. CASE Prep!Move
  BY <1>7, TwoSteps DEF Prep!Move, HelperSide
<1>3. ASSUME NEW s \in Prep!Steps, Prep!Ask(s) \/ Prep!Settle(s) PROVE SlotSide'
  BY <1>3, TwoSteps DEF Prep!Ask, Prep!Settle, HelperSide
<1>4. ASSUME NEW s \in Prep!Steps, Prep!Work(s) PROVE SlotSide'
  BY <1>4 DEF Prep!Work
<1>5. ASSUME NEW s \in Prep!Steps, Prep!Discard(s) PROVE SlotSide'
  BY <1>5, TwoSteps DEF Prep!Discard, Prep!Emptied, HelperSide
<1>6. ASSUME NEW s \in Prep!Steps, Prep!Await(s) PROVE SlotSide'
  BY <1>6, TwoSteps DEF Prep!Await, Prep!Emptied, HelperSide
<1> QED
  BY <1>1, <1>2, <1>3, <1>4, <1>5, <1>6, <1>7, <1>8
     DEF Prep!PrepNext, Prep!Prepare, Prep!Helpers

LEMMA HelperSideStep == ASSUME PInv, Prep!PrepNext PROVE HelperSide'
<1> USE DEF PInv, PrepShape, HelperSide, Moved
<1>1. CASE Prep!Prime \/ Prep!PrepMake \/ Prep!PrepKeep \/ Prep!PrepUndo
  BY <1>1 DEF Prep!Prime, Prep!PrepMake, Prep!PrepKeep, Prep!PrepUndo
<1>2. CASE Prep!Refuse \/ Prep!Claim \/ Prep!Move \/ Prep!Begun \/ Prep!Shutdown
  BY <1>2, TwoSteps DEF Prep!Refuse, Prep!Claim, Prep!Move, Prep!Begun, Prep!Used, Prep!Shutdown
<1>3. ASSUME NEW s \in Prep!Steps, Prep!Ask(s) \/ Prep!Settle(s) PROVE HelperSide'
  <2>1. CASE Prep!Ask(s)
    BY <2>1, TwoSteps DEF Prep!Ask
  <2>2. CASE Prep!Settle("mkdir")
    BY <2>2, SettleDoes, TwoSteps
  <2>3. CASE Prep!Settle("open")
    BY <2>3, SettleDoes, TwoSteps
  <2> QED
    BY <1>3, <2>1, <2>2, <2>3, TwoSteps
<1>4. ASSUME NEW s \in Prep!Steps, Prep!Work(s) PROVE HelperSide'
  BY <1>4, TwoSteps DEF Prep!Work
<1>5. ASSUME NEW s \in Prep!Steps, Prep!Discard(s) PROVE HelperSide'
  BY <1>5, TwoSteps DEF Prep!Discard
<1>6. ASSUME NEW s \in Prep!Steps, Prep!Await(s) PROVE HelperSide'
  BY <1>6, TwoSteps DEF Prep!Await
<1> QED
  BY <1>1, <1>2, <1>3, <1>4, <1>5, <1>6 DEF Prep!PrepNext, Prep!Prepare, Prep!Helpers

LEMMA RunSideStep == ASSUME PInv, Prep!PrepNext PROVE RunSide'
<1> USE DEF PInv, PrepShape, RunSide, Moved
<1>1. CASE Prep!Prime \/ Prep!PrepMake \/ Prep!PrepKeep \/ Prep!PrepUndo
  BY <1>1 DEF Prep!Prime, Prep!PrepMake, Prep!PrepKeep, Prep!PrepUndo
<1>2. CASE Prep!Refuse \/ Prep!Claim \/ Prep!Begun \/ Prep!Shutdown
  BY <1>2, TwoSteps DEF Prep!Refuse, Prep!Claim, Prep!Begun, Prep!Used, Prep!Shutdown, HelperSide
<1>7. CASE Prep!Move
  BY <1>7, TwoSteps DEF Prep!Move, HelperSide
<1>3. ASSUME NEW s \in Prep!Steps, Prep!Ask(s) \/ Prep!Settle(s) PROVE RunSide'
  <2>1. CASE Prep!Ask(s)
    BY <2>1, TwoSteps DEF Prep!Ask, HelperSide
  <2>2. CASE Prep!Settle("mkdir")
    BY <2>2, SettleDoes, TwoSteps DEF HelperSide
  <2>3. CASE Prep!Settle("open")
    BY <2>3, SettleDoes, TwoSteps DEF HelperSide
  <2> QED
    BY <1>3, <2>1, <2>2, <2>3, TwoSteps
<1>4. ASSUME NEW s \in Prep!Steps, Prep!Work(s) PROVE RunSide'
  <2>1. CASE s = "mkdir"
    BY <1>4, <2>1, TwoSteps DEF Prep!Work, HelperSide
  <2>2. CASE s = "open" /\ helper' = [helper EXCEPT !["open"] = "did"]
    BY <1>4, <2>2, TwoSteps DEF Prep!Work, HelperSide
  <2>3. CASE s = "open" /\ helper' = [helper EXCEPT !["open"] = "raised"]
    <3>1. "opened" \notin writers /\ ~spilled /\ outcome["open"] = "none" /\ setup \in {"open", "failed"}
      BY <1>4, <2>3, TwoSteps DEF Prep!Work, HelperSide
    <3>2. helper["mkdir"] = "ended" /\ outcome["mkdir"] = "ok"
      BY <1>4, <2>3, TwoSteps DEF Prep!Work, HelperSide
    <3>3. helper'["open"] = "raised" /\ helper'["mkdir"] = "ended"
      BY <2>3, <3>2, TwoSteps
    <3>4. "run" \notin files /\ ~Moved /\ setup # "made"
      BY <1>4, <2>3, <3>1, TwoSteps DEF Prep!Work, HelperSide
    <3>5. /\ UNCHANGED <<writers, outcome, setup>>
          /\ \/ UNCHANGED <<folders, files, spilled>>
             \/ /\ folders' = folders \cup {"run"}
                /\ \/ UNCHANGED <<files, spilled>>
                   \/ files' = files \cup {"run"} /\ spilled' = TRUE
      <4>1. helper["open"] = "working" /\ [helper EXCEPT !["open"] = "did"] # helper'
        BY <1>4, <2>3, TwoSteps DEF Prep!Work
      <4> QED
        BY <1>4, <2>3, <3>1, <4>1 DEF Prep!Work
    <3> QED
      BY <3>1, <3>2, <3>3, <3>4, <3>5
  <2> QED
    BY <1>4, <2>1, <2>2, <2>3, TwoSteps DEF Prep!Work
<1>5. ASSUME NEW s \in Prep!Steps, Prep!Discard(s) PROVE RunSide'
  BY <1>5, TwoSteps DEF Prep!Discard, Prep!Emptied, HelperSide
<1>6. ASSUME NEW s \in Prep!Steps, Prep!Await(s) PROVE RunSide'
  BY <1>6, TwoSteps DEF Prep!Await, Prep!Emptied, HelperSide
<1> QED
  BY <1>1, <1>2, <1>3, <1>4, <1>5, <1>6, <1>7 DEF Prep!PrepNext, Prep!Prepare, Prep!Helpers

LEMMA PrepKeeps == ASSUME PInv, [Prep!PrepNext]_(Prep!prepVars) PROVE PInv'
<1>1. CASE UNCHANGED Prep!prepVars
  BY <1>1 DEF Prep!prepVars, PInv, PrepShape, SlotSide, HelperSide, RunSide, Moved
<1> QED
  BY <1>1, PrepShapeStep, SlotSideStep, HelperSideStep, RunSideStep DEF PInv

\* What the invariant says of a preparation that is over.
LEMMA PrepSays == PInv => Prep!UsedOrReleased
<1> SUFFICES ASSUME PInv PROVE Prep!UsedOrReleased
  OBVIOUS
<1> DEFINE used == IF setup = "made" THEN "bound" ELSE Prep!Used
           mine == setup \in {"begin", "made"}
<1>1. mine => used \in writers /\ "run" \in folders \cap files /\ ~spilled
  BY DEF PInv, SlotSide, RunSide, Moved, Prep!Used
<1>2. ASSUME Prep!Ended
      PROVE  writers = (IF mine THEN {used} ELSE {})
  <2>1. "prepared" \in writers <=> mine /\ used = "prepared"
    BY <1>2, TwoSteps DEF PInv, PrepShape, SlotSide, HelperSide, Moved, Prep!Ended, Prep!Quiet,
       Prep!Used
  <2>2. "opened" \in writers <=> mine /\ used = "opened"
    BY <1>2, TwoSteps DEF PInv, PrepShape, HelperSide, RunSide, Moved, Prep!Ended, Prep!Quiet,
       Prep!Used
  <2>3. "bound" \in writers <=> mine /\ used = "bound"
    BY DEF PInv, SlotSide, Prep!Used
  <2>4. /\ writers \subseteq {"prepared", "opened", "bound"}
        /\ used \in {"prepared", "opened", "bound"}
    BY DEF PInv, PrepShape, Prep!Used
  <2> QED
    BY <2>1, <2>2, <2>3, <2>4
<1>3. ASSUME Prep!Ended
      PROVE  folders = (IF mine \/ spilled THEN {"run"} ELSE {}) /\ files = folders
  <2>1. "slot" \notin folders /\ "slot" \notin files
    BY <1>3, TwoSteps DEF PInv, PrepShape, SlotSide, HelperSide, Moved, Prep!Ended, Prep!Quiet
  <2>2. ~mine /\ ~spilled => "run" \notin folders /\ "run" \notin files
    BY <1>3, TwoSteps DEF PInv, PrepShape, HelperSide, RunSide, Moved, Prep!Ended, Prep!Quiet
  <2>3. folders \subseteq {"slot", "run"} /\ files \subseteq {"slot", "run"}
    BY DEF PInv, PrepShape
  <2>4. CASE mine \/ spilled
    <3>1. "run" \in folders \cap files
      BY <1>1, <2>4 DEF PInv, RunSide
    <3>2. folders = {"run"} /\ files = {"run"}
      BY <2>1, <2>3, <3>1
    <3> QED
      BY <2>4, <3>2
  <2>5. CASE ~mine /\ ~spilled
    <3>1. folders = {} /\ files = {}
      BY <2>1, <2>2, <2>3, <2>5
    <3> QED
      BY <2>5, <3>1
  <2> QED
    BY <2>4, <2>5
<1> QED
  BY <1>1, <1>2, <1>3 DEF Prep!UsedOrReleased

-----------------------------------------------------------------------------
(* The stream in order *)

LEMMA Transitive ==
  ASSUME NEW x \in Stream!Item, NEW y \in Stream!Item, NEW z \in Stream!Item,
         Prec(x, y), Prec(y, z)
  PROVE  Prec(x, z)
BY BoundAssumption DEF Prec, Stream!Item, Info, Opening, Terminal

\* What is on its way, and nothing else, are items.
LEMMA Places ==
  ASSUME SInv, Ordered
  PROVE  /\ OnFile \subseteq Stream!Item /\ AtWriter \subseteq Stream!Item
         /\ InPipe \subseteq Stream!Item /\ AtSender \subseteq Stream!Item
BY DEF SInv, Shape, Ordered

\* An item that comes after all that were offered keeps the order.
LEMMA OfferPlaces ==
  ASSUME SInv, FInv, NEW x \in Stream!Item, Stream!Offer(x),
         \A y \in offered : Prec(y, x)
  PROVE  Ordered' /\ Complete'
<1>1. /\ UNCHANGED <<file, writer, item, pipe, lossy, adapter>> /\ sending = None
      /\ sending' = x /\ offered' = offered \cup {x} /\ x # None
  BY StreamAssumption DEF Stream!Offer
<1>2. UNCHANGED <<OnFile, AtWriter, InPipe>> /\ AtSender = {} /\ AtSender' = {x}
  BY <1>1 DEF OnFile, AtWriter, InPipe, AtSender
<1>3. Sorted(file)' /\ Sorted(pipe)'
  BY <1>1 DEF FInv, Ordered, Sorted
<1>4. Ordered'
  BY <1>1, <1>2, <1>3 DEF FInv, Ordered, Before
<1> QED
  BY <1>1, <1>2, <1>4 DEF FInv, Complete

LEMMA PutPlaces ==
  ASSUME SInv, FInv, Stream!Put
  PROVE  Ordered' /\ Complete'
<1> USE DEF FInv
<1>1. /\ UNCHANGED <<file, writer, item, offered, lossy, adapter>> /\ sending # None
      /\ sending' = None /\ AtSender = {sending} /\ AtSender' = {}
  BY DEF Stream!Put, AtSender
<1>2. /\ Len(pipe') = Len(pipe) + 1 /\ Len(pipe) \in Nat
      /\ \A i \in 1 .. Len(pipe) : pipe'[i] = pipe[i]
      /\ pipe'[Len(pipe) + 1] = sending
  BY PutPipe DEF SInv, Shape
<1>3. sending # Sentinel
  BY <1>1, StreamAssumption DEF SInv, Shape
<1>4. InPipe' = InPipe \cup {sending}
  <2>1. ASSUME NEW y \in InPipe' PROVE y \in InPipe \cup {sending}
    <3>1. PICK i \in 1 .. Len(pipe') : y = pipe'[i] /\ y # Sentinel
      BY DEF InPipe
    <3>2. i \in 1 .. Len(pipe) \/ i = Len(pipe) + 1
      BY <1>2
    <3> QED
      BY <1>2, <3>1, <3>2 DEF InPipe
  <2>2. ASSUME NEW y \in InPipe \cup {sending} PROVE y \in InPipe'
    <3>1. CASE y = sending
      BY <1>2, <1>3, <3>1 DEF InPipe
    <3>2. CASE y \in InPipe
      <4>1. PICK i \in 1 .. Len(pipe) : y = pipe[i] /\ y # Sentinel
        BY <3>2 DEF InPipe
      <4>2. i \in 1 .. Len(pipe') /\ y = pipe'[i]
        BY <1>2, <4>1
      <4> QED
        BY <4>1, <4>2 DEF InPipe
    <3> QED
      BY <3>1, <3>2
  <2> QED
    BY <2>1, <2>2
<1>5. Sorted(pipe)'
  <2> SUFFICES ASSUME NEW i \in 1 .. Len(pipe'), NEW j \in 1 .. Len(pipe'), i < j,
                      pipe'[i] # Sentinel, pipe'[j] # Sentinel
               PROVE  Prec(pipe'[i], pipe'[j])
    BY DEF Sorted
  <2>1. i \in 1 .. Len(pipe) /\ pipe'[i] = pipe[i] /\ pipe[i] \in InPipe
    BY <1>2 DEF InPipe
  <2>2. CASE j \in 1 .. Len(pipe)
    BY <1>2, <2>1, <2>2 DEF Ordered, Sorted
  <2>3. CASE j = Len(pipe) + 1
    BY <1>1, <1>2, <2>1, <2>3 DEF Ordered, Before
  <2> QED
    BY <1>2, <2>2, <2>3
<1>6. UNCHANGED <<OnFile, AtWriter>> /\ Sorted(file)'
  BY <1>1 DEF OnFile, AtWriter, Ordered, Sorted
<1>7. Ordered'
  BY <1>1, <1>4, <1>5, <1>6 DEF Ordered, Before
<1> QED
  BY <1>1, <1>4, <1>6, <1>7 DEF Complete

LEMMA TakePlaces ==
  ASSUME SInv, FInv, Stream!Take
  PROVE  Ordered' /\ Complete'
<1> USE DEF FInv
<1>1. /\ UNCHANGED <<file, offered, lossy, adapter, sending>> /\ AtWriter = {}
      /\ AtWriter' = {pipe[1]} \ {Sentinel}
  BY TakePipe DEF Stream!Take, AtWriter
<1>2. /\ Len(pipe') = Len(pipe) - 1 /\ Len(pipe) \in Nat \ {0}
      /\ \A i \in 1 .. Len(pipe) - 1 : pipe'[i] = pipe[i + 1]
  BY TakePipe
<1>3. \A i \in 1 .. Len(pipe') : i + 1 \in 1 .. Len(pipe) /\ 1 < i + 1 /\ pipe'[i] = pipe[i + 1]
  BY <1>2
<1>4. InPipe = InPipe' \cup AtWriter'
  <2>1. ASSUME NEW y \in InPipe PROVE y \in InPipe' \cup AtWriter'
    <3>1. PICK i \in 1 .. Len(pipe) : y = pipe[i] /\ y # Sentinel
      BY DEF InPipe
    <3>2. CASE i = 1
      BY <1>1, <3>1, <3>2
    <3>3. CASE i # 1
      <4>1. i - 1 \in 1 .. Len(pipe') /\ pipe'[i - 1] = y
        BY <1>2, <3>1, <3>3
      <4> QED
        BY <3>1, <4>1 DEF InPipe
    <3> QED
      BY <3>2, <3>3
  <2>2. ASSUME NEW y \in InPipe' PROVE y \in InPipe
    <3>1. PICK i \in 1 .. Len(pipe') : y = pipe'[i] /\ y # Sentinel
      BY DEF InPipe
    <3> QED
      BY <1>3, <3>1 DEF InPipe
  <2>3. AtWriter' \subseteq InPipe
    BY <1>1, <1>2 DEF InPipe
  <2> QED
    BY <2>1, <2>2, <2>3
<1>5. Sorted(pipe)'
  <2> SUFFICES ASSUME NEW i \in 1 .. Len(pipe'), NEW j \in 1 .. Len(pipe'), i < j,
                      pipe'[i] # Sentinel, pipe'[j] # Sentinel
               PROVE  Prec(pipe'[i], pipe'[j])
    BY DEF Sorted
  <2>1. i + 1 \in 1 .. Len(pipe) /\ j + 1 \in 1 .. Len(pipe) /\ i + 1 < j + 1
    BY <1>2
  <2> QED
    BY <1>3, <2>1 DEF Ordered, Sorted
<1>6. Before(AtWriter', InPipe')
  <2> SUFFICES ASSUME pipe[1] # Sentinel, NEW y \in InPipe' PROVE Prec(pipe[1], y)
    BY <1>1 DEF Before
  <2>1. PICK i \in 1 .. Len(pipe') : y = pipe'[i] /\ y # Sentinel
    BY DEF InPipe
  <2>2. 1 \in 1 .. Len(pipe)
    BY <1>2
  <2> QED
    BY <1>3, <2>1, <2>2 DEF Ordered, Sorted
<1>7. UNCHANGED <<OnFile, AtSender>> /\ Sorted(file)'
  BY <1>1 DEF OnFile, AtSender, Ordered, Sorted
<1>8. Ordered'
  BY <1>1, <1>4, <1>5, <1>6, <1>7 DEF Ordered, Before
<1> QED
  BY <1>1, <1>4, <1>7, <1>8 DEF Complete

LEMMA WritePlaces ==
  ASSUME SInv, FInv, Stream!Write
  PROVE  Ordered' /\ Complete'
<1> USE DEF FInv
<1>1. /\ UNCHANGED <<pipe, offered, lossy, adapter, sending>> /\ AtWriter = {item}
      /\ AtWriter' = {} /\ item \in Stream!Item /\ file \in Seq(Stream!Item)
      /\ file' = Append(file, item)
  BY DEF Stream!Write, Stream!Applied, AtWriter, SInv, Shape
<1>2. /\ Len(file') = Len(file) + 1 /\ Len(file) \in Nat
      /\ \A i \in 1 .. Len(file) : file'[i] = file[i]
      /\ file'[Len(file) + 1] = item
  BY <1>1, Appended
<1>4. OnFile' = OnFile \cup {item}
  <2>1. ASSUME NEW y \in OnFile' PROVE y \in OnFile \cup {item}
    <3>1. PICK i \in 1 .. Len(file') : y = file'[i]
      BY DEF OnFile
    <3>2. i \in 1 .. Len(file) \/ i = Len(file) + 1
      BY <1>2
    <3> QED
      BY <1>2, <3>1, <3>2 DEF OnFile
  <2>2. ASSUME NEW y \in OnFile \cup {item} PROVE y \in OnFile'
    <3>1. CASE y = item
      BY <1>2, <3>1 DEF OnFile
    <3>2. CASE y \in OnFile
      <4>1. PICK i \in 1 .. Len(file) : y = file[i]
        BY <3>2 DEF OnFile
      <4>2. i \in 1 .. Len(file') /\ y = file'[i]
        BY <1>2, <4>1
      <4> QED
        BY <4>2 DEF OnFile
    <3> QED
      BY <3>1, <3>2
  <2> QED
    BY <2>1, <2>2
<1>5. Sorted(file)'
  <2> SUFFICES ASSUME NEW i \in 1 .. Len(file'), NEW j \in 1 .. Len(file'), i < j,
                      file'[i] # Sentinel, file'[j] # Sentinel
               PROVE  Prec(file'[i], file'[j])
    BY DEF Sorted
  <2>1. i \in 1 .. Len(file) /\ file'[i] = file[i] /\ file[i] \in OnFile
    BY <1>2 DEF OnFile
  <2>2. CASE j \in 1 .. Len(file)
    BY <1>2, <2>1, <2>2 DEF Ordered, Sorted
  <2>3. CASE j = Len(file) + 1
    BY <1>1, <1>2, <2>1, <2>3 DEF Ordered, Before
  <2> QED
    BY <1>2, <2>2, <2>3
<1>6. UNCHANGED <<InPipe, AtSender>> /\ Sorted(pipe)'
  BY <1>1 DEF InPipe, AtSender, Ordered, Sorted
<1>7. Ordered'
  BY <1>1, <1>4, <1>5, <1>6 DEF Ordered, Before
<1> QED
  BY <1>1, <1>4, <1>6, <1>7 DEF Complete

LEMMA ClosePlaces ==
  ASSUME SInv, FInv, Stream!Close
  PROVE  Ordered' /\ Complete'
<1> USE DEF FInv
<1>1. UNCHANGED <<file, writer, item, offered, lossy, adapter, sending>>
  BY DEF Stream!Close
<1>2. CASE pipe' = pipe
  BY <1>1, <1>2 DEF Ordered, Complete, Sorted, OnFile, AtWriter, InPipe, AtSender
<1>3. CASE pipe' = Append(pipe, Sentinel)
  <2>1. /\ Len(pipe') = Len(pipe) + 1 /\ Len(pipe) \in Nat
        /\ \A i \in 1 .. Len(pipe) : pipe'[i] = pipe[i]
        /\ pipe'[Len(pipe) + 1] = Sentinel
    BY <1>3, Appended DEF SInv, Shape, Piped
  <2>2. \A i \in 1 .. Len(pipe') : pipe'[i] # Sentinel => i \in 1 .. Len(pipe)
    BY <2>1
  <2>3. \A i \in 1 .. Len(pipe) : i \in 1 .. Len(pipe')
    BY <2>1
  <2>4. InPipe' = InPipe
    BY <2>1, <2>2, <2>3 DEF InPipe
  <2>5. Sorted(pipe)'
    BY <2>1, <2>2 DEF Ordered, Sorted
  <2>6. UNCHANGED <<OnFile, AtWriter, AtSender>> /\ Sorted(file)'
    BY <1>1 DEF OnFile, AtWriter, AtSender, Ordered, Sorted
  <2> QED
    BY <1>1, <2>4, <2>5, <2>6 DEF Ordered, Complete
<1> QED
  BY <1>2, <1>3 DEF Stream!Close

\* No other step brings an item anywhere.
LEMMA OtherPlaces ==
  ASSUME SInv, FInv,
         \/ Stream!Overflow \/ Stream!Drop \/ Stream!NoteLoss \/ Stream!Leave
         \/ Stream!Translate \/ Stream!Reject \/ Stream!Raise \/ Stream!Record
         \/ Stream!CloseSteps \/ Stream!Checkpoint
  PROVE  Ordered' /\ Complete'
<1> USE DEF FInv
<1>1. UNCHANGED <<file, pipe, offered>>
  BY DEF Stream!Overflow, Stream!Drop, Stream!NoteLoss, Stream!Leave, Stream!Translate,
         Stream!Reject, Stream!Raise, Stream!Record, Stream!CloseSteps, Stream!Joined,
         Stream!Abandon, Stream!Shut, Stream!Checkpoint, Stream!ReadBacklog,
         Stream!ReadEvents, Stream!ReadTruncated, Stream!ReadLossy
<1>2. UNCHANGED <<OnFile, InPipe>> /\ Sorted(file)' /\ Sorted(pipe)'
  BY <1>1 DEF OnFile, InPipe, Ordered, Sorted
<1>3. AtSender' \subseteq AtSender /\ (AtSender' # AtSender => lossy')
  BY DEF AtSender, Stream!Overflow, Stream!Drop, Stream!NoteLoss, Stream!Leave,
         Stream!Translate, Stream!Reject, Stream!Raise, Stream!Record, Stream!CloseSteps,
         Stream!Joined, Stream!Abandon, Stream!Shut, Stream!Checkpoint, Stream!ReadBacklog,
         Stream!ReadEvents, Stream!ReadTruncated, Stream!ReadLossy
<1>4. AtWriter' \subseteq AtWriter /\ (AtWriter' # AtWriter => lossy')
  <2>1. CASE Stream!Translate
    BY <2>1 DEF Stream!Translate, Stream!Applied, AtWriter, SInv, Shape
  <2>2. CASE Stream!Reject \/ Stream!Raise \/ Stream!Record \/ Stream!Leave
    BY <2>2 DEF Stream!Reject, Stream!Raise, Stream!Record, Stream!Leave, Stream!Applied, AtWriter
  <2>3. CASE UNCHANGED <<writer, item>>
    BY <2>3 DEF AtWriter
  <2> QED
    BY <2>1, <2>2, <2>3
    DEF Stream!Overflow, Stream!Drop, Stream!NoteLoss, Stream!CloseSteps, Stream!Joined,
        Stream!Abandon, Stream!Shut, Stream!Checkpoint, Stream!ReadBacklog,
        Stream!ReadEvents, Stream!ReadTruncated, Stream!ReadLossy
<1>5. (lossy => lossy') /\ (adapter' # adapter => Stream!Translate)
  BY DEF Stream!Overflow, Stream!Drop, Stream!NoteLoss, Stream!Leave, Stream!Translate,
         Stream!Reject, Stream!Raise, Stream!Record, Stream!CloseSteps, Stream!Joined,
         Stream!Abandon, Stream!Shut, Stream!Checkpoint, Stream!ReadBacklog,
         Stream!ReadEvents, Stream!ReadTruncated, Stream!ReadLossy
<1>6. Stream!Translate => item \in AtWriter /\ (adapter' = "complete" <=> item = Terminal)
  BY DEF Stream!Translate, AtWriter
<1>7. Ordered'
  BY <1>1, <1>2, <1>3, <1>4 DEF Ordered, Before
<1>8. ASSUME ~lossy' PROVE AtWriter' = AtWriter /\ AtSender' = AtSender /\ ~lossy
  BY <1>3, <1>4, <1>5, <1>8
<1>9. Complete'
  BY <1>1, <1>2, <1>5, <1>6, <1>8 DEF Complete
<1> QED
  BY <1>7, <1>9

LEMMA SealedStep == ASSUME SInv, Sealed, Stream!StreamNext PROVE Sealed'
<1> USE DEF SInv, Shape, Sealed
<1>1. ASSUME NEW x \in Stream!Item, Stream!Offer(x) PROVE Sealed'
  BY <1>1 DEF Stream!Offer
<1>2. CASE Stream!Put \/ Stream!Overflow \/ Stream!Drop \/ Stream!NoteLoss
  BY <1>2 DEF Stream!Put, Stream!Overflow, Stream!Drop, Stream!NoteLoss
<1>3. CASE Stream!Writer
  BY <1>3 DEF Stream!Writer, Stream!Take, Stream!Leave, Stream!Translate, Stream!Reject,
     Stream!Write, Stream!Raise, Stream!Record, Stream!Applied
<1>4. CASE Stream!Close \/ Stream!CloseSteps
  BY <1>4 DEF Stream!Close, Stream!CloseSteps, Stream!Joined, Stream!Abandon, Stream!Shut
<1>5. CASE Stream!Checkpoint
  BY <1>5 DEF Stream!Checkpoint, Stream!ReadBacklog, Stream!ReadEvents, Stream!ReadTruncated,
     Stream!ReadLossy
<1> QED
  BY <1>1, <1>2, <1>3, <1>4, <1>5 DEF Stream!StreamNext

\* The step of a stream to which only later items are offered.
LEMMA FStep ==
  ASSUME SInv, FInv, Stream!StreamNext,
         \A x \in Stream!Item : Stream!Offer(x) => \A y \in offered : Prec(y, x)
  PROVE  FInv'
<1>1. ASSUME NEW x \in Stream!Item, Stream!Offer(x) PROVE Ordered' /\ Complete'
  BY <1>1, OfferPlaces
<1>2. ASSUME Stream!Put \/ Stream!Take \/ Stream!Write \/ Stream!Close
      PROVE  Ordered' /\ Complete'
  BY <1>2, PutPlaces, TakePlaces, WritePlaces, ClosePlaces
<1>3. Ordered' /\ Complete'
  BY <1>1, <1>2, OtherPlaces DEF Stream!StreamNext, Stream!Writer
<1> QED
  BY <1>3, SealedStep DEF FInv

-----------------------------------------------------------------------------
(* What a step of the run is to each of its parts *)

LEMMA ObserverStep == EvidenceNext => [Next]_vars
<1> USE DEF Next, Produce, Work
<1>1. Setup \/ BeginStage \/ Started \/ Answer \/ Fail => UNCHANGED vars
  BY DEF Setup, BeginStage, Started, Answer, Fail
<1>2. InfoLine \/ Bestmove \/ Submitting \/ AbortObserver => Next
  BY DEF InfoLine, Bestmove, Submitting, AbortObserver
<1>3. Watching => [Next]_vars
  BY DEF Watching, Polling, Take, Full, Taken, Unheard, Missed, Observed, ReportEnd
<1>4. Full \/ Hear \/ Handed \/ Decide \/ WriteOn => UNCHANGED vars
  BY DEF Full, Hear, Handed, Decide, WriteOn
<1>5. Sealing \/ Closing => UNCHANGED vars
  BY DEF Sealing, Wait, SealStream, Describe, Closing, CloseCoordinator, ForceLoss, CloseRuntime
<1> QED
  BY <1>1, <1>2, <1>3, <1>4, <1>5 DEF EvidenceNext

LEMMA SameStream == UNCHANGED stream => UNCHANGED Stream!streamVars
BY DEF stream, Stream!streamVars

\* A step that gives the stream nothing new.
StreamOnly ==
    \/ Stream!Put \/ Stream!Overflow \/ Stream!Drop \/ Stream!NoteLoss
    \/ Stream!Writer \/ Stream!Close \/ Stream!CloseSteps \/ Stream!Checkpoint

Offering ==
    \/ BeginStage \/ Take \/ Hear

LEMMA StreamStep == EvidenceNext => Offering \/ StreamOnly \/ UNCHANGED stream
<1> USE DEF StreamOnly, Offering
<1>1. Setup \/ Started \/ Answer \/ Fail => StreamOnly \/ UNCHANGED stream
  BY DEF Setup, Started, Answer, Fail
<1>2. InfoLine \/ Bestmove \/ Submitting \/ AbortObserver => UNCHANGED stream
  BY DEF InfoLine, Bestmove, Submitting, AbortObserver
<1>3. Watching => Take \/ StreamOnly \/ UNCHANGED stream
  BY DEF Watching, Polling, Full, Taken, Unheard, Missed, ReportEnd
<1>4. Full \/ Handed \/ Decide \/ WriteOn => StreamOnly
  BY DEF Full, Handed, Decide, WriteOn
<1>5. Sealing \/ Closing => StreamOnly \/ UNCHANGED stream
  BY DEF Sealing, Wait, SealStream, Describe, Closing, CloseCoordinator, ForceLoss, CloseRuntime
<1> QED
  BY <1>1, <1>2, <1>3, <1>4, <1>5 DEF EvidenceNext

LEMMA PrepStep == EvidenceNext => [Prep!PrepNext]_(Prep!prepVars)
<1> USE DEF Prep!PrepNext
<1>a. UNCHANGED prepared => UNCHANGED Prep!prepVars
  BY DEF prepared, Prep!prepVars
<1>1. Setup \/ BeginStage \/ Started \/ Answer \/ Fail => [Prep!PrepNext]_(Prep!prepVars)
  BY <1>a DEF Setup, BeginStage, Started, Answer, Fail
<1>2. InfoLine \/ Bestmove \/ Submitting \/ AbortObserver => UNCHANGED prepared
  BY DEF InfoLine, Bestmove, Submitting, AbortObserver
<1>3. Watching => UNCHANGED prepared
  BY DEF Watching, Polling, Take, Full, Taken, Unheard, Missed, ReportEnd
<1>4. Full \/ Hear \/ Handed \/ Decide \/ WriteOn => UNCHANGED prepared
  BY DEF Full, Hear, Handed, Decide, WriteOn
<1>5. Sealing \/ Closing => [Prep!PrepNext]_(Prep!prepVars)
  BY <1>a DEF Sealing, Wait, SealStream, Describe, Closing, CloseCoordinator, ForceLoss, CloseRuntime
<1> QED
  BY <1>a, <1>1, <1>2, <1>3, <1>4, <1>5 DEF EvidenceNext

\* What the steps that offer nothing may do to the stream.
LEMMA OnlyDoes ==
  ASSUME SInv, StreamOnly \/ UNCHANGED stream
  PROVE  /\ UNCHANGED <<offered, tracked>> /\ sending' \in {sending, None}
         /\ (closed => closed') /\ (lossy => lossy')
<1> USE DEF SInv, Shape
<1>1. CASE Stream!Put \/ Stream!Overflow \/ Stream!Drop \/ Stream!NoteLoss
  BY <1>1 DEF Stream!Put, Stream!Overflow, Stream!Drop, Stream!NoteLoss
<1>2. CASE Stream!Writer
  BY <1>2 DEF Stream!Writer, Stream!Take, Stream!Leave, Stream!Translate, Stream!Reject,
     Stream!Write, Stream!Raise, Stream!Record
<1>3. CASE Stream!Close \/ Stream!CloseSteps
  BY <1>3 DEF Stream!Close, Stream!CloseSteps, Stream!Joined, Stream!Abandon, Stream!Shut
<1>4. CASE Stream!Checkpoint
  BY <1>4 DEF Stream!Checkpoint, Stream!ReadBacklog, Stream!ReadEvents, Stream!ReadTruncated,
     Stream!ReadLossy
<1>5. CASE UNCHANGED stream
  BY <1>5 DEF stream
<1> QED
  BY <1>1, <1>2, <1>3, <1>4, <1>5 DEF StreamOnly

LEMMA OfferingDoes ==
  ASSUME IInv, ByReader, Offering
  PROVE  \E x \in Stream!Item :
            /\ Stream!Offer(x) /\ offered' = offered \cup {x} /\ sending' = x /\ sending = None
            /\ UNCHANGED <<tracked, closed, lossy, file, adapter, closer>>
<1>1. ASSUME NEW x \in Stream!Item, Stream!Offer(x)
      PROVE  /\ offered' = offered \cup {x} /\ sending' = x /\ sending = None
             /\ UNCHANGED <<tracked, closed, lossy, file, adapter, closer>>
  BY <1>1 DEF Stream!Offer
<1>2. CASE BeginStage
  BY <1>1, <1>2 DEF BeginStage, Stream!Item
<1>3. CASE Take
  BY <1>1, <1>3 DEF Take, Stream!Item, Observing, IInv, Upcoming
<1>4. CASE Hear
  <2>1. spoken < MaxInfo => spoken + 1 \in Stream!Item
    BY <1>4, BoundAssumption DEF Hear, Reading, ByReader, Stream!Item, Info
  <2> QED
    BY <1>1, <1>4, <2>1 DEF Hear, Stream!Item
<1> QED
  BY <1>2, <1>3, <1>4 DEF Offering

LEMMA StreamKeeps ==
  ASSUME IInv, SInv, ByReader, EvidenceNext
  PROVE  SInv' /\ [Stream!StreamNext]_(Stream!streamVars) /\ tracked' = tracked
<1>1. Stream!StreamNext \/ UNCHANGED Stream!streamVars
  BY StreamStep, OfferingDoes, SameStream DEF Stream!StreamNext, StreamOnly
<1>2. tracked' = tracked
  BY StreamStep, OfferingDoes, OnlyDoes
<1> QED
  BY <1>1, <1>2, StreamInductive

-----------------------------------------------------------------------------
(* The steps of the run's invariant *)

LEMMA SeenGrows ==
  ASSUME IInv, Observed
  PROVE  /\ Seen' = Seen \cup {IF worker = "observe" THEN hand ELSE Terminal}
         /\ UNCHANGED <<lost, report>>
<1>1. /\ Extends(observed', observed, IF worker = "observe" THEN hand ELSE Terminal)
      /\ lost' = lost /\ report' = report /\ Len(observed) \in Nat
  BY ObserveDoes, Facts DEF Observed
<1> DEFINE e == IF worker = "observe" THEN hand ELSE Terminal
<1> HIDE DEF e
<1>2. Seen' = Seen \cup {e}
  <2>1. ASSUME NEW y \in Seen' PROVE y \in Seen \cup {e}
    <3>1. PICK i \in 1 .. Len(observed') : y = observed'[i]
      BY DEF Seen
    <3>2. i \in 1 .. Len(observed) \/ i = Len(observed) + 1
      BY <1>1 DEF Extends
    <3> QED
      BY <1>1, <3>1, <3>2 DEF Extends, Seen, e
  <2>2. ASSUME NEW y \in Seen \cup {e} PROVE y \in Seen'
    <3>1. CASE y = e
      BY <1>1, <3>1 DEF Seen, Extends, e
    <3>2. CASE y \in Seen
      <4>1. PICK i \in 1 .. Len(observed) : y = observed[i]
        BY <3>2 DEF Seen
      <4>2. i \in 1 .. Len(observed') /\ y = observed'[i]
        BY <1>1, <4>1 DEF Extends
      <4> QED
        BY <4>2 DEF Seen
    <3> QED
      BY <3>1, <3>2
  <2> QED
    BY <2>1, <2>2
<1> QED
  BY <1>1, <1>2 DEF e

\* Where an info line may be.
Somewhere(k) ==
    \/ producer = "put" /\ k = sent
    \/ worker = "observe" /\ k = hand
    \/ \E i \in 1 .. Len(queue) : queue[i] = k
    \/ k \in Seen

LEMMA KeptMeans ==
  Kept <=> /\ lost = 0 /\ skipped = 0 => \A k \in 1 .. sent : Somewhere(k)
           /\ ~aborted \/ producer \in {"bestmove", "publish"} \/ terminal => skipped = 0
BY DEF Kept, Somewhere, Seen

LEMMA SomewhereStep ==
  ASSUME IInv, [Next]_vars, ~SubmitInfo, lost' = 0, NEW k, Somewhere(k)
  PROVE  Somewhere(k)'
<1> USE DEF Somewhere
<1>1. CASE SubmitBestmove \/ SetTerminal \/ PublishTerminal \/ Abort \/ Check \/ Empty
           \/ Finish \/ End \/ UNCHANGED vars
  BY <1>1 DEF SubmitBestmove, SetTerminal, PublishTerminal, Abort, Check, Empty, Finish, End,
     vars, observing, producing, Seen
<1>2. CASE Put
  <2>1. /\ UNCHANGED <<sent, observed, worker, hand>> /\ Extends(queue', queue, sent)
        /\ Len(queue) \in Nat
    BY <1>2, PutDoes, Facts
  <2>2. UNCHANGED Seen
    BY <2>1 DEF Seen
  <2>3. \A i \in 1 .. Len(queue) : i \in 1 .. Len(queue') /\ queue'[i] = queue[i]
    BY <2>1 DEF Extends
  <2>4. Len(queue) + 1 \in 1 .. Len(queue') /\ queue'[Len(queue) + 1] = sent
    BY <2>1 DEF Extends
  <2> QED
    BY <2>1, <2>2, <2>3, <2>4
<1>3. CASE Get
  <2>1. UNCHANGED <<sent, observed, producer>> /\ worker = "get"
    BY <1>3, GetDoes
  <2>2. UNCHANGED Seen
    BY <2>1 DEF Seen
  <2>3. CASE queue' = queue /\ hand' = hand
    BY <2>1, <2>2, <2>3
  <2>4. CASE worker' = "observe" /\ hand' = queue[1] /\ Len(queue) \in Nat \ {0}
             /\ Len(queue') = Len(queue) - 1
             /\ \A i \in 1 .. Len(queue') : queue'[i] = queue[i + 1]
    <3>1. ASSUME NEW i \in 1 .. Len(queue), queue[i] = k, i # 1 PROVE Somewhere(k)'
      <4>1. i - 1 \in 1 .. Len(queue') /\ queue'[i - 1] = queue[i]
        BY <2>4, <3>1
      <4> QED
        BY <3>1, <4>1
    <3> QED
      BY <2>1, <2>2, <2>4, <3>1
  <2> QED
    BY <1>3, <2>3, <2>4, GetDoes
<1>4. CASE Observe \/ Final
  <2>1. Observed
    BY <1>4, ObserveDoes, Facts DEF Observed
  <2>2. /\ UNCHANGED <<sent, producer, queue>>
        /\ worker = "observe" \/ worker = "final"
    BY <1>4, ObserveDoes
  <2> QED
    BY <2>1, <2>2, SeenGrows
<1> QED
  BY <1>1, <1>2, <1>3, <1>4 DEF Next, Produce, Work

LEMMA KeptStep == ASSUME IInv, Kept, [Next]_vars PROVE Kept'
<1>1. CASE SubmitInfo
  <2>1. /\ UNCHANGED <<lost, queue, observed, worker, hand, terminal, aborted>>
        /\ sent' = sent + 1 /\ producer = "open" /\ sent \in Nat /\ skipped \in Nat
    BY <1>1, Facts DEF SubmitInfo, observing
  <2>2. CASE aborted
    BY <1>1, <2>1, <2>2 DEF SubmitInfo, Kept, IInv, Stage
  <2>3. CASE ~aborted
    <3>1. producer' = "put" /\ skipped' = skipped
      BY <1>1, <2>3 DEF SubmitInfo
    <3>2. ASSUME lost' = 0, skipped' = 0, NEW k \in 1 .. sent' PROVE Somewhere(k)'
      <4>1. CASE k = sent'
        BY <3>1, <4>1 DEF Somewhere
      <4>2. CASE k # sent'
        <5>1. k \in 1 .. sent /\ lost = 0 /\ skipped = 0
          BY <2>1, <3>1, <3>2, <4>2
        <5>2. Somewhere(k)
          BY <5>1, KeptMeans
        <5>3. UNCHANGED Seen
          BY <2>1 DEF Seen
        <5> QED
          BY <2>1, <5>2, <5>3 DEF Somewhere
      <4> QED
        BY <4>1, <4>2
    <3> QED
      BY <2>1, <2>3, <3>1, <3>2 DEF Kept, Somewhere, Seen
  <2> QED
    BY <2>2, <2>3
<1>2. CASE ~SubmitInfo
  <2>1. UNCHANGED <<sent, skipped>> /\ (lost' = 0 => lost = 0)
    BY <1>2, PutDoes, GetDoes, ObserveDoes, Facts
    DEF Next, Produce, Work, vars, observing, producing, SubmitBestmove, SetTerminal,
        PublishTerminal, Abort, Check, Empty, Finish, End
  <2>2. lost' = 0 /\ skipped' = 0 => \A k \in 1 .. sent' : Somewhere(k)'
    BY <1>2, <2>1, SomewhereStep, KeptMeans
  <2>3. (~aborted \/ producer \in {"bestmove", "publish"} \/ terminal => skipped = 0)'
    BY <1>2, <2>1, PutDoes, GetDoes, ObserveDoes
    DEF Kept, Next, Produce, Work, vars, observing, producing, SubmitBestmove, SetTerminal,
        PublishTerminal, Abort, Check, Empty, Finish, End
  <2> QED
    BY <2>2, <2>3 DEF Kept, Somewhere, Seen
<1> QED
  BY <1>1, <1>2

\* Once the bestmove is offered, the observer's worker has nothing before it.
LEMMA TerminalLate ==
  ASSUME IInv, Phase, ByObserver, ~tracked, Terminal \in offered
  PROVE  ready /\ worker \in {"final", "finish", "end", "exit"}
<1>1. setup = "made"
  BY DEF Phase, Opening, Terminal
<1>2. Terminal \in Seen \/ sending = Terminal
  BY DEF ByObserver, Opening, Terminal, AtSender
<1>3. CASE Terminal \in Seen
  BY <1>3 DEF Seen, IInv, Stage, Reporting
<1>4. CASE sending = Terminal /\ sending # None
  <2>1. worker = "final"
    BY <1>1, <1>4, Facts DEF ByObserver, IInv, Upcoming
  <2> QED
    BY <2>1 DEF IInv, Stage
<1> QED
  BY <1>2, <1>3, <1>4, StreamAssumption DEF Stream!Item

LEMMA OffersLater ==
  ASSUME RInv, EvidenceNext, NEW x \in Stream!Item, Stream!Offer(x), NEW y \in offered
  PROVE  Prec(y, x)
<1> USE DEF RInv
<1>1. sending' = x /\ sending = None /\ x # None
  BY StreamAssumption DEF Stream!Offer
<1>2. Offering
  BY <1>1, StreamStep, OnlyDoes
<1>3. CASE BeginStage
  BY <1>3 DEF BeginStage
<1>4. CASE Take
  <2>1. /\ setup = "made" /\ ~tracked /\ x = IF worker = "final" THEN Terminal ELSE hand
        /\ worker \in {"observe", "final"}
    BY <1>1, <1>4 DEF Take, Observing, Alive, Stream!Offer
  <2>2. worker = "observe" => x = hand /\ hand \in Info
    BY <2>1 DEF IInv, Upcoming
  <2>3. y = Opening \/ y \in Seen
    BY <1>1, <2>1 DEF ByObserver, AtSender
  <2>4. CASE y = Opening
    BY <2>1, <2>2, <2>4, BoundAssumption DEF Prec, Opening, Terminal, Info
  <2>5. CASE y \in Seen
    <3>1. PICK i \in 1 .. Len(observed) : y = observed[i]
      BY <2>5 DEF Seen
    <3>2. observed[i] # Terminal /\ (worker = "observe" => observed[i] < hand)
      BY <2>1 DEF IInv, Stage, Reporting, Past
    <3> QED
      BY <2>1, <3>1, <3>2 DEF Prec
  <2> QED
    BY <2>3, <2>4, <2>5
<1>5. CASE Hear
  <2>1. /\ x = Terminal \/ (x = spoken + 1 /\ spoken < MaxInfo)
        /\ tracked /\ Terminal \notin offered
    BY <1>1, <1>5 DEF Hear, Reading, Stream!Offer
  <2>2. y = Opening \/ y \in 1 .. spoken
    BY <2>1 DEF ByReader
  <2> QED
    BY <2>1, <2>2, BoundAssumption DEF ByReader, Prec, Opening, Terminal
<1> QED
  BY <1>2, <1>3, <1>4, <1>5 DEF Offering

LEMMA FKeeps == ASSUME RInv, EvidenceNext PROVE FInv'
<1> USE DEF RInv
<1>1. CASE Stream!StreamNext
  BY <1>1, OffersLater, FStep
<1>2. CASE UNCHANGED Stream!streamVars
  <2>1. UNCHANGED <<offered, file, writer, item, pipe, sending, lossy, adapter, closer, handle>>
    BY <1>2 DEF Stream!streamVars
  <2>2. UNCHANGED <<OnFile, AtWriter, InPipe, AtSender, Sorted(file), Sorted(pipe)>>
    BY <2>1 DEF OnFile, AtWriter, InPipe, AtSender, Sorted
  <2> QED
    BY <2>1, <2>2 DEF FInv, Ordered, Complete, Sealed, Before
<1> QED
  BY <1>1, <1>2, StreamKeeps

\* What a step of the preparation does to the run.
LEMMA PrepareDoes ==
  ASSUME Prep!Prepare
  PROVE  (setup' # "made" /\ setup # "made") \/ setup' = setup
<1>1. CASE Prep!Prime \/ Prep!PrepMake \/ Prep!PrepKeep \/ Prep!PrepUndo \/ Prep!Refuse
           \/ Prep!Claim \/ Prep!Move
  BY <1>1 DEF Prep!Prime, Prep!PrepMake, Prep!PrepKeep, Prep!PrepUndo, Prep!Refuse,
     Prep!Claim, Prep!Move
<1>2. CASE Prep!Helpers
  BY <1>2 DEF Prep!Helpers, Prep!Ask, Prep!Work, Prep!Settle, Prep!Discard, Prep!Await, Prep!Steps
<1> QED
  BY <1>1, <1>2 DEF Prep!Prepare

LEMMA BeginStays == ASSUME Prep!Prepare PROVE setup = "begin" => setup' = "begin"
<1>1. CASE Prep!Prime \/ Prep!PrepMake \/ Prep!PrepKeep \/ Prep!PrepUndo \/ Prep!Refuse
           \/ Prep!Claim \/ Prep!Move
  BY <1>1 DEF Prep!Prime, Prep!PrepMake, Prep!PrepKeep, Prep!PrepUndo, Prep!Refuse,
     Prep!Claim, Prep!Move
<1>2. CASE Prep!Helpers
  BY <1>2 DEF Prep!Helpers, Prep!Ask, Prep!Work, Prep!Settle, Prep!Discard, Prep!Await, Prep!Steps
<1> QED
  BY <1>1, <1>2 DEF Prep!Prepare

LEMMA PhaseStep == ASSUME RInv, EvidenceNext PROVE Phase'
<1> USE DEF RInv
<1>a. StreamOnly \/ UNCHANGED stream =>
        UNCHANGED offered /\ sending' \in {sending, None}
  BY OnlyDoes
<1>1. CASE Setup
  <2>1. Prep!Prepare /\ UNCHANGED <<vars, stream, running, others>>
    BY <1>1 DEF Setup
  <2> QED
    BY <2>1, PrepareDoes, BeginStays DEF Phase, vars, stream, running, others
<1>2. CASE BeginStage
  BY <1>2 DEF BeginStage, Phase, Stream!Offer, vars, prepared, running
<1>3. CASE Started
  <2>1. /\ setup' = "made" /\ run' = "wait" /\ UNCHANGED <<offered, closer, manifest>>
        /\ Opening \in offered /\ run = "none"
    BY <1>3, StreamAssumption DEF Started, Stream!Put, Prep!Begun, Phase, FInv, Ordered,
       AtSender, Stream!Item, Opening
  <2> QED
    BY <2>1 DEF Phase
<1>4. CASE Wait
  BY <1>4 DEF Wait, Phase, vars, prepared, stream
<1>5. CASE Describe
  BY <1>5 DEF Describe, Phase, vars, prepared, stream
<1>6. CASE SealStream
  <2>1. run = "seal" /\ UNCHANGED <<setup, run, manifest, offered>>
    BY <1>6, <1>a DEF SealStream, prepared, running, StreamOnly
  <2> QED
    BY <2>1 DEF Phase
<1>7. CASE CloseCoordinator
  BY <1>7 DEF CloseCoordinator, Prep!Shutdown, Phase, vars, stream, running
<1>8. CASE ForceLoss \/ CloseRuntime
  BY <1>8 DEF ForceLoss, CloseRuntime, Stream!NoteLoss, Phase, vars, prepared, stream, running
<1>9. CASE \/ InfoLine \/ Answer \/ Bestmove \/ Submitting \/ Fail \/ AbortObserver
           \/ Watching \/ (Full /\ Reading) \/ Hear \/ Handed \/ Decide
  <2>1. setup = "made" /\ UNCHANGED <<prepared, run, manifest>>
    BY <1>9 DEF InfoLine, Answer, Bestmove, Submitting, Fail, AbortObserver, Watching, Polling,
       Take, Full, Taken, Unheard, Missed, ReportEnd, Hear, Handed, Decide, Alive, Reading,
       Observing, running
  <2>2. closer' = closer
    BY <1>9 DEF InfoLine, Answer, Bestmove, Submitting, Fail, AbortObserver, Watching, Polling,
       Take, Full, Taken, Unheard, Missed, ReportEnd, Hear, Handed, Decide, stream,
       Stream!Offer, Stream!Put, Stream!Overflow, Stream!Drop, Stream!NoteLoss,
       Stream!Checkpoint, Stream!ReadBacklog, Stream!ReadEvents, Stream!ReadTruncated,
       Stream!ReadLossy
  <2>3. offered \subseteq offered'
    BY StreamStep, OfferingDoes, <1>a
  <2> QED
    BY <2>1, <2>2, <2>3 DEF Phase, prepared
<1>10. CASE WriteOn
  <2>1. Stream!Writer /\ UNCHANGED <<vars, prepared, running>>
    BY <1>10 DEF WriteOn
  <2>2. UNCHANGED <<offered, closer, sending>>
    BY <2>1 DEF Stream!Writer, Stream!Take, Stream!Leave, Stream!Translate, Stream!Reject,
       Stream!Write, Stream!Raise, Stream!Record
  <2> QED
    BY <2>1, <2>2 DEF Phase, vars, prepared, running
<1> QED
  BY <1>1, <1>2, <1>3, <1>4, <1>5, <1>6, <1>7, <1>8, <1>9, <1>10
  DEF EvidenceNext, Sealing, Closing

\* The steps about an engine's own stream, and about the anchor's.
LEMMA WhoActs ==
  ASSUME EvidenceNext
  PROVE  /\ tracked => \/ BeginStage \/ Started \/ (Full /\ Reading) \/ Hear \/ Handed
                       \/ Decide \/ WriteOn \/ Sealing \/ ForceLoss \/ CloseRuntime
         /\ ~tracked => \/ Setup \/ BeginStage \/ Started \/ InfoLine \/ Answer \/ Bestmove
                        \/ Submitting \/ Fail \/ AbortObserver \/ Watching \/ WriteOn
                        \/ Sealing \/ Closing
<1>1. tracked => ~(\/ Setup \/ InfoLine \/ Answer \/ Bestmove \/ Submitting \/ Fail
                   \/ AbortObserver \/ Watching \/ CloseCoordinator)
  BY DEF Setup, InfoLine, Answer, Bestmove, Submitting, Fail, AbortObserver, Watching, Polling,
     Take, Taken, Unheard, Missed, ReportEnd, CloseCoordinator, Observing, Alive
<1>2. ~tracked => ~(Reading \/ Hear \/ Handed \/ Decide)
  BY DEF Reading, Hear, Handed, Decide
<1> QED
  BY <1>1, <1>2 DEF EvidenceNext, Closing

LEMMA ByReaderStep == ASSUME RInv, EvidenceNext PROVE ByReader'
<1> USE DEF RInv
<1>a. StreamOnly \/ UNCHANGED stream => offered' = offered
  BY OnlyDoes
<1>b. tracked' = tracked
  BY StreamKeeps
<1>0. SUFFICES ASSUME tracked PROVE ByReader'
  BY <1>b DEF ByReader
<1>1. CASE BeginStage
  BY <1>0, <1>1 DEF BeginStage, ByReader, Stream!Offer, vars, prepared, running, others
<1>2. CASE Started
  BY <1>0, <1>2 DEF Started, ByReader, Stream!Put, Prep!Begun, vars, others
<1>3. CASE Hear
  <2>1. /\ UNCHANGED <<setup, ending, sent, noted>>
        /\ spoken \in 0 .. MaxInfo /\ offered \subseteq {Opening, Terminal} \cup 1 .. spoken
    BY <1>0, <1>3 DEF Hear, ByReader, vars, prepared, running
  <2>2. CASE Stream!Offer(Terminal) /\ UNCHANGED spoken
    BY <1>0, <2>1, <2>2 DEF ByReader, Stream!Offer
  <2>3. CASE spoken < MaxInfo /\ Stream!Offer(spoken + 1) /\ spoken' = spoken + 1
    <3>1. offered' = offered \cup {spoken + 1}
      BY <2>3 DEF Stream!Offer
    <3>2. spoken' \in 0 .. MaxInfo /\ 1 .. spoken' = (1 .. spoken) \cup {spoken + 1}
      BY <2>1, <2>3, BoundAssumption
    <3> QED
      BY <1>0, <2>1, <3>1, <3>2 DEF ByReader
  <2> QED
    BY <1>3, <2>2, <2>3 DEF Hear
<1>4. CASE \/ (Full /\ Reading) \/ Handed \/ Decide \/ WriteOn \/ Sealing
  <2>1. UNCHANGED <<setup, ending, sent, noted, spoken>>
    BY <1>4 DEF Full, Handed, Decide, WriteOn, Sealing, Wait, SealStream, Describe, vars,
       prepared, running, others
  <2>2. StreamOnly \/ UNCHANGED stream
    BY <1>4 DEF Full, Handed, Decide, WriteOn, Sealing, Wait, SealStream, Describe, StreamOnly
  <2> QED
    BY <1>0, <1>a, <2>1, <2>2 DEF ByReader
<1>5. CASE ForceLoss \/ CloseRuntime
  BY <1>0, <1>5 DEF ForceLoss, CloseRuntime, ByReader
<1> QED
  BY <1>0, <1>1, <1>2, <1>3, <1>4, <1>5, WhoActs

\* What the report said stays so.
LEMMA ReportKept ==
  IInv /\ [Next]_vars => (report # NoReport => UNCHANGED <<report, observed, lost>>)
BY DEF IInv, Stage, Reporting, Next, Produce, Work, vars, observing, producing, SubmitInfo, Put,
       SubmitBestmove, SetTerminal, PublishTerminal, Abort, Check, Get, Observe, Empty,
       Final, Finish, End

\* A step of the anchor's run that moves no line between observer and stream.
Idle ==
    /\ UNCHANGED <<sending, offered, observed>>
    /\ UNCHANGED <<worker, hand>> \/ worker \notin {"observe", "final"}
    /\ (setup = "made" <=> setup' = "made")

LEMMA AnchorSteps ==
  ASSUME RInv, EvidenceNext, ~tracked
  PROVE  BeginStage \/ Started \/ Take \/ Taken \/ Unheard \/ Missed \/ Idle
<1> USE DEF Idle
<1>1. CASE Setup
  BY <1>1, PrepareDoes DEF Setup, vars, stream
<1>2. CASE InfoLine \/ Bestmove \/ Submitting \/ AbortObserver
  BY <1>2 DEF InfoLine, Bestmove, Submitting, AbortObserver, SubmitInfo, SubmitBestmove, Put,
     SetTerminal, PublishTerminal, Abort, stream, prepared, observing, producing
<1>3. CASE Answer \/ Fail
  BY <1>3 DEF Answer, Fail, vars, stream, prepared
<1>4. CASE Polling
  BY <1>4 DEF Polling, Check, Get, Empty, End, stream, prepared
<1>5. CASE ReportEnd
  BY <1>5 DEF ReportEnd, Finish, stream, prepared, Stream!NoteLoss
<1>6. CASE Full
  BY <1>6 DEF Full, Stream!Overflow, vars, prepared
<1>7. CASE WriteOn
  BY <1>7 DEF WriteOn, vars, prepared, Stream!Writer, Stream!Take, Stream!Leave,
     Stream!Translate, Stream!Reject, Stream!Write, Stream!Raise, Stream!Record
<1>8. CASE Sealing
  BY <1>8 DEF Sealing, Wait, SealStream, Describe, vars, prepared, stream, Stream!Close,
     Stream!CloseSteps, Stream!Joined, Stream!Abandon, Stream!Shut
<1>9. CASE Closing
  BY <1>9 DEF Closing, CloseCoordinator, ForceLoss, CloseRuntime, vars, prepared, stream,
     Prep!Shutdown, Stream!NoteLoss
<1> QED
  BY <1>1, <1>2, <1>3, <1>4, <1>5, <1>6, <1>7, <1>8, <1>9, WhoActs DEF Watching

\* Whether anything is heard does not come back.
LEMMA HeardOnce == ASSUME RInv, EvidenceNext PROVE Heard' => Heard
<1>1. closed => closed'
  BY StreamStep, OnlyDoes, OfferingDoes DEF RInv
<1>2. ending = "over" => ending' = "over"
  BY DEF EvidenceNext, Setup, BeginStage, Started, InfoLine, Answer, Bestmove, Submitting, Fail,
     AbortObserver, Watching, Polling, Take, Full, Taken, Unheard, Missed, ReportEnd, Hear,
     Handed, Decide, WriteOn, Sealing, Wait, SealStream, Describe, Closing, CloseCoordinator,
     Prep!Shutdown, ForceLoss, CloseRuntime, others, ByObserver, RInv, ByReader
<1> QED
  BY <1>1, <1>2 DEF Heard

LEMMA SendingStep ==
  ASSUME RInv, EvidenceNext, ~tracked
  PROVE  /\ setup' = "made" /\ sending' # None =>
               \/ worker' = "observe" /\ sending' = hand'
               \/ worker' = "final" /\ sending' = Terminal
         /\ offered' \subseteq {Opening} \cup Seen' \cup AtSender'
<1> USE DEF RInv
<1>1. CASE BeginStage
  <2>1. /\ setup' = "begin" /\ offered' = {Opening} /\ sending' = Opening
    BY <1>1 DEF BeginStage, prepared, Stream!Offer
  <2> QED
    BY <2>1
<1>2. CASE Started
  BY <1>2 DEF Started, Prep!Begun, Stream!Put, Phase
<1>3. CASE Take
  <2>1. /\ UNCHANGED <<worker, hand, observed>> /\ worker \in {"observe", "final"}
        /\ Stream!Offer(IF worker = "final" THEN Terminal ELSE hand) /\ sending = None
    BY <1>3 DEF Take, Observing, vars, Stream!Offer
  <2>2. \E x : x = (IF worker = "final" THEN Terminal ELSE hand) /\ sending' = x
               /\ offered' = offered \cup {x} /\ x # None
    <3>1. (IF worker = "final" THEN Terminal ELSE hand) \in Stream!Item
      BY <2>1 DEF IInv, Upcoming, Stream!Item
    <3> QED
      BY <2>1, <3>1, StreamAssumption DEF Stream!Offer
  <2>3. Seen' = Seen /\ AtSender = {} /\ ~tracked
    BY <2>1 DEF Seen, AtSender
  <2> QED
    BY <2>1, <2>2, <2>3 DEF ByObserver, AtSender
<1>4. CASE Taken
  <2>1. /\ Observed /\ sending' = None /\ offered' = offered /\ sending # None
        /\ setup = "made"
    BY <1>4 DEF Taken, Observing, Alive, Stream!Put, Stream!Drop, SInv, Shape
  <2>2. Seen' = Seen \cup {sending} /\ AtSender = {sending}
    BY <2>1, SeenGrows DEF ByObserver, AtSender
  <2> QED
    BY <2>1, <2>2 DEF ByObserver
<1>5. CASE Unheard \/ Missed
  <2>1. sending' = sending /\ offered' = offered /\ sending = None /\ (Observe \/ Final)
    BY <1>5 DEF Unheard, Missed, Observed, stream
  <2>2. Seen \subseteq Seen' /\ AtSender = {}
    <3>1. CASE Observed
      BY <2>1, <3>1, SeenGrows DEF AtSender
    <3>2. CASE observed' = observed
      BY <2>1, <3>2 DEF Seen, AtSender
    <3> QED
      BY <2>1, <3>1, <3>2, ObserveDoes DEF Observed
  <2> QED
    BY <2>1, <2>2 DEF ByObserver
<1>6. CASE Idle
  <2>1. Seen' = Seen /\ AtSender' = AtSender
    BY <1>6 DEF Idle, Seen, AtSender
  <2> QED
    BY <1>6, <2>1 DEF Idle, ByObserver
<1> QED
  BY <1>1, <1>2, <1>3, <1>4, <1>5, <1>6, AnchorSteps

LEMMA HeardStep ==
  ASSUME RInv, EvidenceNext, ~tracked
  PROVE  Heard' \/ Terminal \in offered' => Seen' \subseteq offered'
<1> USE DEF RInv
<1>0. Heard \/ Terminal \in offered => Seen \subseteq offered
  BY DEF ByObserver
<1>1. CASE BeginStage \/ Started
  <2>1. observed' = <<>>
    BY <1>1 DEF BeginStage, Started, Prep!Begun, Phase, vars
  <2> QED
    BY <2>1 DEF Seen
<1>3. CASE Take
  <2>1. Heard /\ observed' = observed /\ offered \subseteq offered'
    BY <1>3 DEF Take, vars, Stream!Offer
  <2> QED
    BY <1>0, <2>1 DEF Seen
<1>4. CASE Taken
  <2>1. Observed /\ offered' = offered /\ sending # None /\ setup = "made"
    BY <1>4 DEF Taken, Observing, Alive, Stream!Put, Stream!Drop, SInv, Shape
  <2>2. Seen' = Seen \cup {sending} /\ sending \in offered
    BY <2>1, SeenGrows DEF ByObserver, FInv, Ordered, AtSender
  <2> QED
    BY <1>0, <2>1, <2>2, HeardOnce
<1>5. CASE Unheard
  <2>1. offered' = offered /\ Observed /\ ~Heard
    BY <1>5 DEF Unheard, stream
  <2>2. Terminal \in offered => Seen' = Seen \cup {Terminal}
    BY <1>5, TerminalLate, SeenGrows, <2>1 DEF Unheard, Observing
  <2> QED
    BY <1>0, <2>1, <2>2, HeardOnce
<1>6. CASE Missed
  <2>1. offered' = offered /\ observed' = observed
    BY <1>6, ObserveDoes, Facts DEF Missed, stream
  <2> QED
    BY <1>0, <2>1, HeardOnce DEF Seen
<1>7. CASE Idle
  BY <1>0, <1>7, HeardOnce DEF Idle, Seen
<1> QED
  BY <1>1, <1>3, <1>4, <1>5, <1>6, <1>7, AnchorSteps

LEMMA NotedStep ==
  ASSUME RInv, EvidenceNext, ~tracked
  PROVE  noted' /\ ~lossy' => report' # NoReport /\ lost' = 0
<1> USE DEF RInv
<1>1. CASE ReportEnd
  <2>1. Finish /\ (lost > 0 => lossy') /\ lost \in Nat
    BY <1>1, Facts DEF ReportEnd, Stream!NoteLoss
  <2> QED
    BY <2>1 DEF Finish, NoReport
<1>2. CASE ForceLoss
  BY <1>2 DEF ForceLoss, Stream!NoteLoss
<1>3. CASE ~ReportEnd /\ ~ForceLoss
  <2>1. noted' = noted
    BY <1>3 DEF EvidenceNext, Setup, BeginStage, Started, InfoLine, Answer, Bestmove,
       Submitting, Fail, AbortObserver, Watching, Polling, Take, Full, Taken, Unheard, Missed,
       Hear, Handed, Decide, WriteOn, Sealing, Wait, SealStream, Describe, Closing,
       CloseCoordinator, CloseRuntime, running
  <2>2. lossy => lossy'
    BY StreamStep, OnlyDoes, OfferingDoes
  <2> QED
    BY <2>1, <2>2, ObserverStep, ReportKept DEF ByObserver
<1> QED
  BY <1>1, <1>2, <1>3

LEMMA ByObserverStep == ASSUME RInv, EvidenceNext PROVE ByObserver'
<1>1. tracked' = tracked
  BY StreamKeeps DEF RInv
<1>0. SUFFICES ASSUME ~tracked PROVE ByObserver'
  BY <1>1 DEF ByObserver
<1>2. spoken' = 0
  BY <1>0, WhoActs DEF RInv, ByObserver, Setup, BeginStage, Started, InfoLine, Answer, Bestmove,
     Submitting, Fail, AbortObserver, Watching, Polling, Take, Full, Taken, Unheard, Missed,
     ReportEnd, WriteOn, Sealing, Wait, SealStream, Describe, Closing, CloseCoordinator,
     ForceLoss, CloseRuntime, others
<1>3. shut => shut'
  <2>1. Prep!Prepare => shut' = shut
    BY DEF Prep!Prepare, Prep!Prime, Prep!PrepMake, Prep!PrepKeep, Prep!PrepUndo, Prep!Refuse,
       Prep!Claim, Prep!Move, Prep!Helpers, Prep!Ask, Prep!Work, Prep!Settle, Prep!Discard,
       Prep!Await
  <2>2. Prep!Prepare \/ Prep!Begun \/ Prep!Shutdown \/ UNCHANGED Prep!prepVars
    BY PrepStep DEF Prep!PrepNext
  <2>3. CASE Prep!Prepare
    BY <2>1, <2>3
  <2>4. Prep!Begun \/ UNCHANGED Prep!prepVars => shut' = shut
    BY DEF Prep!Begun, Prep!prepVars
  <2>5. Prep!Shutdown => shut'
    BY DEF Prep!Shutdown
  <2> QED
    BY Zenon, <2>2, <2>3, <2>4, <2>5
<1>4. ending' # "open" => shut'
  <2>1. ending' # ending => shut'
    BY <1>0, <1>3, WhoActs DEF RInv, ByObserver, Setup, BeginStage, Started, InfoLine, Answer,
       Bestmove, Submitting, Fail, AbortObserver, Watching, Polling, Take, Full, Taken,
       Unheard, Missed, ReportEnd, WriteOn, Sealing, Wait, SealStream, Describe, Closing,
       CloseCoordinator, Prep!Shutdown, ForceLoss, CloseRuntime, others
  <2> QED
    BY <1>0, <1>3, <2>1 DEF RInv, ByObserver
<1> QED
  BY <1>0, <1>2, <1>4, SendingStep, HeardStep, NotedStep DEF ByObserver

\* A manifest is the last word on its stream.
LEMMA ManifestedStep == ASSUME RInv, EvidenceNext PROVE Manifested'
<1> USE DEF RInv
<1>1. CASE Describe
  BY <1>1 DEF Describe, Manifested, Stream!Whole, stream
<1>2. CASE ~Describe
  <2>0. manifest' = manifest
    BY <1>2 DEF EvidenceNext, Setup, BeginStage, Started, InfoLine, Answer, Bestmove,
       Submitting, Fail, AbortObserver, Watching, Polling, Take, Full, Taken, Unheard, Missed,
       ReportEnd, Hear, Handed, Decide, WriteOn, Sealing, Wait, SealStream, Closing,
       CloseCoordinator, ForceLoss, CloseRuntime, running
  <2> SUFFICES ASSUME manifest # None PROVE Manifested'
    BY <2>0 DEF Manifested
  <2>1. /\ run = "finished" /\ setup = "made" /\ closer = "closed" /\ ~handle
        /\ lossy \/ writer = "exit"
    BY DEF Phase, Manifested, FInv, Sealed
  <2>2. CASE WriteOn
    <3>1. Stream!Writer /\ noted' = noted
      BY <2>2 DEF WriteOn, running
    <3>2. lossy /\ lossy' /\ file' = file /\ closer' = closer
      BY <2>1, <3>1 DEF Stream!Writer, Stream!Take, Stream!Leave, Stream!Translate,
         Stream!Reject, Stream!Write, Stream!Raise, Stream!Record
    <3> QED
      BY <2>0, <3>1, <3>2 DEF Manifested
  <2>3. CASE Setup \/ CloseCoordinator \/ CloseRuntime
    <3>1. UNCHANGED <<noted, file, lossy, adapter, closer>>
      BY <2>3 DEF Setup, CloseCoordinator, CloseRuntime, stream, running
    <3> QED
      BY <2>0, <3>1 DEF Manifested
  <2>4. WriteOn \/ Setup \/ CloseCoordinator \/ CloseRuntime
    BY <1>2, <2>1 DEF EvidenceNext, BeginStage, Started, Prep!Begun, InfoLine, Answer, Bestmove,
       Submitting, Fail, AbortObserver, Watching, Polling, Take, Full, Taken, Unheard, Missed,
       ReportEnd, Hear, Handed, Decide, Sealing, Wait, SealStream, Closing, ForceLoss,
       Alive, Reading, Observing
  <2> QED
    BY <2>2, <2>3, <2>4
<1> QED
  BY <1>1, <1>2

-----------------------------------------------------------------------------
(* The run: its invariant *)

LEMMA RunStarts == EvidenceInit => RInv /\ (~tracked => PInv)
<1> SUFFICES ASSUME EvidenceInit PROVE RInv /\ (~tracked => PInv)
  OBVIOUS
<1> USE DEF EvidenceInit
<1>1. IInv
  BY InitInv
<1>2. SInv
  BY Initially
<1>3. FInv
  <2>1. OnFile = {} /\ AtWriter = {} /\ InPipe = {} /\ AtSender = {}
    BY DEF Stream!StreamInit, OnFile, AtWriter, InPipe, AtSender
  <2>2. Sorted(file) /\ Sorted(pipe)
    BY DEF Stream!StreamInit, Sorted
  <2> QED
    BY <2>1, <2>2 DEF Stream!StreamInit, FInv, Ordered, Complete, Sealed, Before
<1>4. Kept
  BY DEF Init, Kept
<1>5. Phase
  BY DEF Init, Stream!StreamInit, Phase
<1>6. ByReader
  BY BoundAssumption DEF Init, Stream!StreamInit, ByReader
<1>7. ByObserver
  BY DEF Init, Stream!StreamInit, ByObserver, Seen
<1>8. Manifested
  BY DEF Manifested
<1>9. ~tracked => PInv
  BY DEF PInv, PrepShape, SlotSide, HelperSide, RunSide, Moved, Prep!Steps
<1> QED
  BY <1>1, <1>2, <1>3, <1>4, <1>5, <1>6, <1>7, <1>8, <1>9 DEF RInv

LEMMA RunKeeps ==
  ASSUME RInv, [EvidenceNext]_evidence
  PROVE  RInv' /\ ((~tracked => PInv) => (~tracked => PInv)')
<1>1. CASE EvidenceNext
  <2>1. IInv'
    BY <1>1, ObserverStep, StepTypes, StepUpcoming, StepPast, StepFifo, StepStage, StepCount
    DEF RInv, IInv
  <2>2. SInv' /\ tracked' = tracked
    BY <1>1, StreamKeeps DEF RInv
  <2>3. FInv' /\ Phase' /\ ByReader' /\ ByObserver' /\ Manifested'
    BY <1>1, FKeeps, PhaseStep, ByReaderStep, ByObserverStep, ManifestedStep
  <2>4. Kept'
    BY <1>1, ObserverStep, KeptStep DEF RInv
  <2>5. (~tracked => PInv) => (~tracked => PInv)'
    BY <1>1, <2>2, PrepStep, PrepKeeps
  <2> QED
    BY <2>1, <2>2, <2>3, <2>4, <2>5 DEF RInv
<1>2. CASE UNCHANGED evidence
  <2> USE DEF RInv
  <2>1. UNCHANGED <<vars, prepared, stream, running, others>>
    BY <1>2 DEF evidence
  <2>2. IInv'
    BY <2>1, StepTypes, StepUpcoming, StepPast, StepFifo, StepStage, StepCount DEF IInv
  <2>3. SInv'
    BY <2>1, SameStream, StreamInductive
  <2>4. Kept'
    BY <2>1, KeptStep
  <2>5. FInv'
    <3>1. UNCHANGED <<OnFile, AtWriter, InPipe, AtSender, Sorted(file), Sorted(pipe)>>
      BY <2>1 DEF stream, OnFile, AtWriter, InPipe, AtSender, Sorted
    <3> QED
      BY <2>1, <3>1 DEF stream, FInv, Ordered, Complete, Sealed, Before
  <2>6. Phase'
    BY <2>1 DEF vars, prepared, stream, running, Phase
  <2>7. ByReader'
    BY <2>1 DEF vars, prepared, stream, running, others, ByReader
  <2>8. ByObserver'
    <3>1. UNCHANGED <<Seen, AtSender, Heard>>
      BY <2>1 DEF vars, stream, others, Seen, AtSender, Heard
    <3> QED
      BY <2>1, <3>1 DEF vars, prepared, stream, running, others, ByObserver
  <2>9. Manifested'
    BY <2>1 DEF stream, running, Manifested
  <2>10. (~tracked => PInv) => (~tracked => PInv)'
    <3>1. UNCHANGED Prep!prepVars /\ tracked' = tracked
      BY <2>1 DEF prepared, Prep!prepVars, stream
    <3> QED
      BY <3>1, PrepKeeps
  <2> QED
    BY <2>2, <2>3, <2>4, <2>5, <2>6, <2>7, <2>8, <2>9, <2>10
<1> QED
  BY <1>1, <1>2

LEMMA RunInvariance == EvidenceSpec => [](RInv /\ (~tracked => PInv))
<1>1. /\ RInv /\ (~tracked => PInv) /\ [EvidenceNext]_evidence
      => (RInv /\ (~tracked => PInv))'
  BY RunKeeps
<1> QED
  BY <1>1, RunStarts, PTL DEF EvidenceSpec

-----------------------------------------------------------------------------
(* The run: what its evidence is worth *)

\* The end of the search is on file: then everything offered is.
LEMMA FileIsAll ==
  ASSUME RInv, ~lossy, writer = "exit", adapter = "complete"
  PROVE  offered = OnFile /\ Terminal \in OnFile
<1> USE DEF RInv, FInv
<1>1. AtWriter = {} /\ Terminal \in OnFile
  BY DEF Complete, AtWriter
<1>2. \A y \in InPipe \cup AtSender : Prec(Terminal, y)
  BY <1>1 DEF Ordered, Before
<1>3. InPipe = {} /\ AtSender = {}
  BY <1>2 DEF Prec
<1> QED
  BY <1>1, <1>3 DEF Ordered, Complete

\* What the order of the file says, once the first and the last line are there.
LEMMA FileInOrder ==
  ASSUME SInv, Ordered, Opening \in OnFile, Terminal \in OnFile
  PROVE  /\ file[1] = Opening /\ file[Len(file)] = Terminal
         /\ \A i, j \in 2 .. Len(file) - 1 : i < j => file[i] < file[j]
<1>1. file \in Seq(Stream!Item) /\ Len(file) \in Nat
  BY DEF SInv, Shape
<1>2. \A i \in 1 .. Len(file) : file[i] \in Stream!Item /\ file[i] # Sentinel
  BY <1>1, StreamAssumption
<1>3. \A i, j \in 1 .. Len(file) : i < j => Prec(file[i], file[j])
  BY <1>2 DEF Ordered, Sorted
<1>4. PICK f \in 1 .. Len(file) : file[f] = Opening
  BY DEF OnFile
<1>5. PICK t \in 1 .. Len(file) : file[t] = Terminal
  BY DEF OnFile
<1>6. f = 1
  <2>1. file[1] \in Stream!Item /\ 1 \in 1 .. Len(file)
    BY <1>1, <1>2, <1>4
  <2>2. f # 1 => Prec(file[1], Opening)
    BY <1>1, <1>3, <1>4, <2>1
  <2>3. ~Prec(file[1], Opening)
    BY <2>1, BoundAssumption DEF Prec, Stream!Item, Info, Opening, Terminal
  <2> QED
    BY <2>2, <2>3
<1>7. t = Len(file)
  <2>1. t # Len(file) => Prec(Terminal, file[Len(file)])
    BY <1>1, <1>3, <1>5
  <2> QED
    BY <2>1 DEF Prec
<1>8. ASSUME NEW i \in 2 .. Len(file) - 1, NEW j \in 2 .. Len(file) - 1, i < j
      PROVE  file[i] < file[j]
  <2>1. /\ i \in 1 .. Len(file) /\ j \in 1 .. Len(file) /\ Len(file) \in 1 .. Len(file)
        /\ j < Len(file)
    BY <1>1, <1>8
  <2>2. Prec(file[i], file[j]) /\ Prec(file[j], file[Len(file)])
    BY <1>3, <1>8, <2>1
  <2> QED
    BY <2>2 DEF Prec
<1> QED
  BY <1>4, <1>5, <1>6, <1>7, <1>8

\* Every line the engine printed.
LEMMA FileHasLines ==
  ASSUME RInv, manifest # None, manifest.whole, NEW k \in 1 .. sent + spoken
  PROVE  \/ k \in OnFile
         \/ \E i \in 1 .. Len(queue) : queue[i] = k
         \/ ~manifest.noted /\ lost > 0
<1> USE DEF RInv
<1>1. /\ ~lossy /\ adapter = "complete" /\ writer = "exit" /\ manifest.noted = noted
  BY DEF Manifested, FInv, Sealed
<1>2. offered = OnFile /\ Terminal \in OnFile
  BY <1>1, FileIsAll
<1>3. CASE tracked
  BY <1>2, <1>3, BoundAssumption DEF ByReader
<1>4. CASE ~tracked /\ lost > 0
  BY <1>1, <1>4 DEF ByObserver
<1>5. CASE ~tracked /\ ~(lost > 0)
  <2>1. lost = 0 /\ spoken = 0 /\ sent \in Nat
    BY <1>5, Facts DEF ByObserver
  <2>2. ready /\ worker \in {"final", "finish", "end", "exit"}
    BY <1>2, <1>5, TerminalLate
  <2>3. producer = "closed" /\ skipped = 0
    BY <2>2 DEF IInv, Stage, Kept
  <2>4. (\E i \in 1 .. Len(queue) : queue[i] = k) \/ k \in Seen
    BY <2>1, <2>2, <2>3 DEF Kept, Seen
  <2>5. Seen \subseteq offered
    BY <1>2, <1>5 DEF ByObserver
  <2> QED
    BY <1>2, <2>4, <2>5
<1> QED
  BY <1>3, <1>4, <1>5

\* The two threads of the preparation hand each other the slot, the folder and
\* the writer without losing or sharing one (shadow.py:710).
THEOREM PreparationKept == EvidenceSpec => []UsedOrReleased
<1>1. RInv /\ (~tracked => PInv) => UsedOrReleased
  BY PrepSays DEF UsedOrReleased
<1> QED
  BY <1>1, RunInvariance, PTL

\* A manifest that calls a stream whole speaks of all lines, in their order, for
\* every queue length and every number of lines (replay.py, finalize).
THEOREM ManifestIsTrue == EvidenceSpec => []WholeIsWhole
<1>1. RInv => WholeIsWhole
  <2> SUFFICES ASSUME RInv, manifest # None PROVE WholeIsWhole
    BY DEF WholeIsWhole
  <2>1. manifest.file = file
    BY DEF RInv, Manifested
  <2>2. ASSUME manifest.whole
        PROVE  /\ file[1] = Opening /\ file[Len(file)] = Terminal
               /\ \A i, j \in 2 .. Len(file) - 1 : i < j => file[i] < file[j]
    <3>1. ~lossy /\ adapter = "complete" /\ writer = "exit" /\ Opening \in offered
      BY <2>2 DEF RInv, Manifested, FInv, Sealed, Phase
    <3> QED
      BY <3>1, FileIsAll, FileInOrder DEF RInv, FInv
  <2>3. ASSUME manifest.whole, NEW k \in 1 .. sent + spoken
        PROVE  k \in Range(file) \/ k \in Range(queue) \/ (~manifest.noted /\ lost > 0)
    <3>1. file \in Seq(Stream!Item) /\ queue \in Seq(Info)
      BY DEF RInv, SInv, Shape, IInv, TypeOK
    <3>2. DOMAIN file = 1 .. Len(file) /\ DOMAIN queue = 1 .. Len(queue)
      BY <3>1
    <3> QED
      BY <2>3, <3>2, FileHasLines DEF OnFile, Range
  <2> QED
    BY <2>1, <2>2, <2>3 DEF WholeIsWhole
<1> QED
  BY <1>1, RunInvariance, PTL

\* Within a run, too, a checkpoint that trusts a stream has seen all of it
\* (routing.py:1829-1870).
THEOREM TrustInRun == EvidenceSpec => TrustedIsComplete
<1>1. RInv /\ [EvidenceNext]_evidence =>
        [verdict' = "trusted" /\ verdict # "trusted" =>
           due \ seen \subseteq (IF writer = "record" THEN {item} ELSE {})]_(Stream!streamVars)
  <2>1. RInv /\ EvidenceNext => SInv /\ [Stream!StreamNext]_(Stream!streamVars)
    BY StreamKeeps DEF RInv
  <2>2. RInv /\ UNCHANGED evidence => SInv /\ UNCHANGED Stream!streamVars
    BY SameStream DEF RInv, evidence
  <2> QED
    BY <2>1, <2>2, TrustStep
<1> QED
  BY <1>1, RunInvariance, PTL DEF EvidenceSpec, TrustedIsComplete, Stream!TrustedIsComplete

\* The observer and the stream keep within a run what they promise on their own:
\* no line disappears, the replay is in order, the backlog is what is under way.
THEOREM PartsKeepTheirs == EvidenceSpec => [](Conservation /\ Fifo /\ Counted)
<1>1. RInv => Conservation /\ Fifo /\ Counted
  BY DEF RInv, IInv, SInv
<1> QED
  BY <1>1, RunInvariance, PTL
=============================================================================
