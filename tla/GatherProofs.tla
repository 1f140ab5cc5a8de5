----------------------------- MODULE GatherProofs -----------------------------
(***************************************************************************)
(* Proofs about the gather functions for every number of ranks, every load *)
(* of events and counters and every buffering by MPI: type correctness,    *)
(* that the master gets every event once and nothing stays in a channel,   *)
(* and that every step is one of Collection or none.                       *)
(***************************************************************************)
EXTENDS Gather, FiniteSetTheorems, SequenceTheorems, TLAPS

-------------------------------------------------------------------------------
(* The inductive invariant.  All messages of a sender, in the order of its sends, *)
(* form one stream; what it has sent is a prefix of it, what the master has taken *)
(* a shorter one, and the channel holds what lies between.                        *)

Count(r, p) == Len(list[r][p])

\* The messages of a sender before a phase.
Before(r, p) ==
  CASE p = 1     -> 0
    [] p = 2     -> Count(r, 1) + 1
    [] p = STATS -> Count(r, 1) + Count(r, 2) + 2
    [] p = DONE  -> Count(r, 1) + Count(r, 2) + 4

EventMessage(r, p, i) ==
  IF i = 0 THEN [tag |-> 1, body |-> Count(r, p)] ELSE [tag |-> 2, body |-> list[r][p][i]]
StatsMessage(r, i) == [tag |-> 3, body |-> IF i = 0 THEN stats[r].succeed ELSE stats[r].fail]

\* The k-th message of a sender, counted from 0.
Message(r, k) ==
  IF k < Before(r, 2) THEN EventMessage(r, 1, k)
  ELSE IF k < Before(r, STATS) THEN EventMessage(r, 2, k - Before(r, 2))
  ELSE StatsMessage(r, k - Before(r, STATS))

SentBy(r) == Before(r, phase[r]) + next[r]
TakenOf(r) ==
  IF phase[MASTER] = DONE THEN Before(r, DONE)
  ELSE IF from > r THEN Before(r, phase[MASTER] + 1)
  ELSE IF from < r THEN Before(r, phase[MASTER])
  ELSE Before(r, phase[MASTER]) + (IF phase[MASTER] = STATS
                                   THEN IF sSucceed = None THEN 0 ELSE 1
                                   ELSE IF num = None THEN 0 ELSE 1 + got)

ChanInv ==
  \A r \in Senders :
    /\ SentBy(r) = TakenOf(r) + Len(chan[r])
    /\ \A i \in 1 .. Len(chan[r]) : chan[r][i] = Message(r, TakenOf(r) + i - 1)

\* The loops of the senders and of the master.
LoopInv ==
  /\ \A r \in Senders :
       /\ phase[r] \in EventPhases => next[r] <= Count(r, phase[r]) + 1
       /\ phase[r] = STATS => next[r] <= 2
       /\ phase[r] = DONE => next[r] = 0
  /\ num # None =>
       phase[MASTER] \in EventPhases /\ from < Size /\ num = Count(from, phase[MASTER])
  /\ sSucceed # None =>
       phase[MASTER] = STATS /\ from < Size /\ sSucceed = stats[from].succeed

\* A list of a sender is never changed: it has each of its ids once.
MadeInv ==
  \A r \in Senders : \A p \in EventPhases :
    \A i, j \in 1 .. Count(r, p) :
      /\ list[r][p][i].proc = r
      /\ list[r][p][i].id = list[r][p][j].id => i = j

\* The master's list has no event of a sender that was not taken, all that were, and
\* none of them and none of its own twice.
NoneInvented(r, p) ==
  \A i \in 1 .. Count(MASTER, p) : list[MASTER][p][i].proc = r =>
    \E j \in 1 .. Taken(r, p) : j <= Count(r, p) /\ list[r][p][j].id = list[MASTER][p][i].id
NoneLost(r, p) ==
  \A j \in 1 .. Taken(r, p) :
    \E i \in 1 .. Count(MASTER, p) : Key(list[MASTER][p][i]) = Key(list[r][p][j])
NoneTwice(p) ==
  \A i, j \in 1 .. Count(MASTER, p) : Key(list[MASTER][p][i]) = Key(list[MASTER][p][j]) => i = j

HaveInv ==
  \A p \in EventPhases :
    NoneTwice(p) /\ \A r \in Senders : NoneInvented(r, p) /\ NoneLost(r, p)

IInv == TypeOK /\ LoopInv /\ MadeInv /\ ChanInv /\ HaveInv

-------------------------------------------------------------------------------
(* Sequences and messages.                                                      *)

\* Taking the first message of a channel.
LEMMA TakeFirst ==
  ASSUME NEW S, NEW s \in Seq(S), Len(s) >= 1
  PROVE  LET t == SubSeq(s, 1, 0) \o SubSeq(s, 2, Len(s)) IN
         /\ t \in Seq(S)
         /\ Len(t) = Len(s) - 1
         /\ \A i \in 1 .. Len(s) - 1 : t[i] = s[i + 1]
<1> DEFINE t == SubSeq(s, 2, Len(s))
<1>1. SubSeq(s, 1, 0) = << >>
  BY SubSeqEmpty
<1>2. Len(s) \in Nat /\ \A i \in 2 .. Len(s) : s[i] \in S
  BY LenProperties, ElementOfSeq
<1>3. /\ t \in Seq(S)
      /\ Len(t) = IF 2 <= Len(s) THEN Len(s) - 2 + 1 ELSE 0
      /\ \A i \in 1 .. Len(s) - 2 + 1 : t[i] = s[2 + i - 1]
  BY <1>2, SubSeqProperties
<1>4. /\ Len(t) = Len(s) - 1
      /\ \A i \in 1 .. Len(s) - 1 : t[i] = s[i + 1]
  BY <1>2, <1>3
<1>5. << >> \o t = t
  BY <1>3, ConcatEmptySeq
<1>. QED BY <1>1, <1>3, <1>4, <1>5

\* A new first element.
LEMMA PutFirst ==
  ASSUME NEW S, NEW s \in Seq(S), NEW e \in S
  PROVE  LET t == << e >> \o s IN
         /\ t \in Seq(S)
         /\ Len(t) = Len(s) + 1
         /\ t[1] = e
         /\ \A i \in 1 .. Len(s) : t[i + 1] = s[i]
OBVIOUS

LEMMA RankTypes ==
  /\ MASTER \in Ranks
  /\ \A r \in Senders : r \in Ranks /\ r \in Int /\ r >= 1 /\ r < Size /\ r # MASTER
  /\ Size \in Int /\ Size >= 1
  /\ \A r \in 1 .. Size - 1 : r \in Senders
BY SizeAssumption DEF Ranks, Senders, MASTER

LEMMA EventsReceived ==
  ASSUME NEW p, NEW e \in Events, NEW f \in Received(p, e)
  PROVE  f \in Events /\ Key(f) = Key(e)
BY DEF Received, Events, Key

LEMMA Counts ==
  ASSUME TypeOK, NEW r \in Ranks, NEW p \in EventPhases
  PROVE  /\ list[r][p] \in Seq(Events)
         /\ Count(r, p) \in Nat
         /\ \A i \in 1 .. Count(r, p) : list[r][p][i] \in Events
BY DEF TypeOK, Count

\* Where a phase begins in the stream of a sender.
LEMMA BeforeTypes ==
  ASSUME TypeOK, NEW r \in Ranks
  PROVE  /\ \A p \in 1 .. DONE : Before(r, p) \in Nat
         /\ \A p \in EventPhases : Before(r, p + 1) = Before(r, p) + Count(r, p) + 1
         /\ Before(r, DONE) = Before(r, STATS) + 2
<1>1. Count(r, 1) \in Nat /\ Count(r, 2) \in Nat
  BY Counts DEF EventPhases
<1>. QED BY <1>1 DEF Before, EventPhases, STATS, DONE

\* What lies where in the stream.
LEMMA MessageAt ==
  ASSUME TypeOK, NEW r \in Ranks
  PROVE  /\ \A p \in EventPhases : \A i \in 0 .. Count(r, p) :
              Message(r, Before(r, p) + i) = EventMessage(r, p, i)
         /\ \A i \in 0 .. 1 : Message(r, Before(r, STATS) + i) = StatsMessage(r, i)
<1>1. Count(r, 1) \in Nat /\ Count(r, 2) \in Nat
  BY Counts DEF EventPhases
<1>2. /\ Before(r, 1) = 0
      /\ Before(r, 2) = Count(r, 1) + 1
      /\ Before(r, STATS) = Count(r, 1) + Count(r, 2) + 2
  BY DEF Before, STATS, DONE
<1>3. ASSUME NEW p \in EventPhases, NEW i \in 0 .. Count(r, p)
      PROVE  Message(r, Before(r, p) + i) = EventMessage(r, p, i)
  <2>1. CASE p = 1
    BY <1>1, <1>2, <2>1, <1>3 DEF Message
  <2>2. CASE p = 2
    BY <1>1, <1>2, <2>2, <1>3 DEF Message
  <2>. QED BY <2>1, <2>2 DEF EventPhases
<1>4. ASSUME NEW i \in 0 .. 1
      PROVE  Message(r, Before(r, STATS) + i) = StatsMessage(r, i)
  BY <1>1, <1>2, <1>4 DEF Message
<1>. QED BY <1>3, <1>4

\* The stream is fixed by the lists and the counters of the sender.
LEMMA StreamFrame ==
  ASSUME NEW r, list'[r] = list[r], stats'[r] = stats[r]
  PROVE  /\ \A p : Count(r, p)' = Count(r, p)
         /\ \A p : Before(r, p)' = Before(r, p)
         /\ \A k : Message(r, k)' = Message(r, k)
<1>1. \A p : Count(r, p)' = Count(r, p)
  BY DEF Count
<1>2. \A p : Before(r, p)' = Before(r, p)
  BY <1>1 DEF Before
<1>3. \A p, i : EventMessage(r, p, i)' = EventMessage(r, p, i)
  BY <1>1 DEF EventMessage
<1>4. \A i : StatsMessage(r, i)' = StatsMessage(r, i)
  BY DEF StatsMessage
<1>. QED BY <1>1, <1>2, <1>3, <1>4 DEF Message

-------------------------------------------------------------------------------
(* The initial states.                                                          *)

LEMMA MadeList ==
  ASSUME NEW r \in Ranks, NEW ids \in Seq(Nat)
  PROVE  /\ Made(r, ids) \in Seq(Events)
         /\ Len(Made(r, ids)) = Len(ids)
         /\ \A i \in 1 .. Len(ids) : Made(r, ids)[i].proc = r /\ Made(r, ids)[i].id = ids[i]
<1>1. PICK n \in Nat : n = Len(ids) /\ DOMAIN ids = 1 .. n
  OBVIOUS
<1>2. \A i \in 1 .. n : Event(r, ids[i]) \in Events
  BY <1>1 DEF Event, Events
<1>3. Made(r, ids) \in [1 .. n -> Events]
  BY <1>1, <1>2 DEF Made
<1>4. Made(r, ids) \in Seq(Events) /\ Len(Made(r, ids)) = n
  BY <1>3
<1>5. ASSUME NEW i \in 1 .. n
      PROVE  Made(r, ids)[i].proc = r /\ Made(r, ids)[i].id = ids[i]
  BY <1>1, <1>5 DEF Made, Event
<1>. QED BY <1>1, <1>4, <1>5

\* The lists that a run leaves have no id twice, and those up to the number of events.
LEMMA LeftLists ==
  ASSUME NEW load \in Loads, NEW r \in Ranks, NEW p \in EventPhases
  PROVE  /\ load[r][p] \in Seq(Nat)
         /\ \A i \in 1 .. Len(load[r][p]) : load[r][p][i] \in 0 .. Len(load[r][p]) - 1
         /\ \A i, j \in 1 .. Len(load[r][p]) : load[r][p][i] = load[r][p][j] => i = j
<1>1. PICK ids : ids = load[r][p]
  OBVIOUS
<1>2. ids \in Seq(Nat) /\ MayLeave(p, ids)
  BY <1>1, LoadsAssumption
<1>3. DOMAIN ids = 1 .. Len(ids) /\ Len(ids) \in Nat
  BY <1>2
<1>4. \A i \in 1 .. Len(ids) : ids[i] \in Nat /\ ids[i] < Len(ids)
  BY <1>2, <1>3 DEF MayLeave
<1>5. \A i, j \in 1 .. Len(ids) : ids[i] = ids[j] => i = j
  BY <1>2, <1>3 DEF MayLeave
<1>. QED BY <1>1, <1>2, <1>3, <1>4, <1>5

LEMMA InitInv == Init => IInv
<1> SUFFICES ASSUME Init PROVE IInv
  OBVIOUS
<1>1. PICK load \in Loads : list = [r \in Ranks |-> [p \in EventPhases |-> Made(r, load[r][p])]]
  BY DEF Init
<1>2. \A r \in Ranks : \A p \in EventPhases :
        list[r][p] = Made(r, load[r][p])
  BY <1>1
<1>3. \A r \in Ranks : \A p \in EventPhases :
        /\ list[r][p] \in Seq(Events)
        /\ Count(r, p) \in Nat
        /\ \A i \in 1 .. Count(r, p) : list[r][p][i].proc = r
        /\ \A i, j \in 1 .. Count(r, p) : list[r][p][i].id = list[r][p][j].id => i = j
  <2> SUFFICES ASSUME NEW r \in Ranks, NEW p \in EventPhases
               PROVE  /\ list[r][p] \in Seq(Events)
                      /\ Count(r, p) \in Nat
                      /\ \A i \in 1 .. Count(r, p) : list[r][p][i].proc = r
                      /\ \A i, j \in 1 .. Count(r, p) : list[r][p][i].id = list[r][p][j].id => i = j
    OBVIOUS
  <2>1. PICK ids \in Seq(Nat) : /\ ids = load[r][p]
                                /\ \A i, j \in 1 .. Len(ids) : ids[i] = ids[j] => i = j
    BY LeftLists
  <2>2. /\ Made(r, ids) \in Seq(Events) /\ Len(Made(r, ids)) = Len(ids)
        /\ \A i \in 1 .. Len(ids) : Made(r, ids)[i].proc = r /\ Made(r, ids)[i].id = ids[i]
    BY MadeList
  <2>3. list[r][p] = Made(r, ids) /\ Count(r, p) = Len(ids) /\ Len(ids) \in Nat
    BY <1>2, <2>1, <2>2 DEF Count
  <2>. QED BY <2>1, <2>2, <2>3
<1>4. list \in [Ranks -> [EventPhases -> Seq(Events)]]
  BY <1>1, <1>3
<1>5. stats \in [Ranks -> [succeed : Nat, fail : Nat]]
  BY CountersAssumption DEF Init
<1>6. TypeOK
  BY <1>4, <1>5, RankTypes DEF Init, TypeOK, DONE, Messages, None
<1>7. LoopInv
  BY <1>3, RankTypes DEF Init, LoopInv, EventPhases, STATS, DONE
<1>8. MadeInv
  <2>1. ASSUME NEW r \in Senders, NEW p \in EventPhases,
               NEW i \in 1 .. Count(r, p), NEW j \in 1 .. Count(r, p)
        PROVE  /\ list[r][p][i].proc = r
               /\ list[r][p][i].id = list[r][p][j].id => i = j
    BY <1>3, <2>1, RankTypes
  <2>. QED BY <2>1 DEF MadeInv
<1>9. ChanInv
  <2>1. ASSUME NEW r \in Senders
        PROVE  SentBy(r) = TakenOf(r) + Len(chan[r]) /\ Len(chan[r]) = 0
    <3>1. Before(r, 1) = 0
      BY DEF Before, STATS, DONE
    <3>. QED BY <3>1, RankTypes DEF Init, SentBy, TakenOf, DONE, STATS
  <2>. QED BY <2>1 DEF ChanInv
<1>10. HaveInv
  <2>1. \A r \in Senders : \A p \in EventPhases : Taken(r, p) = 0
    BY RankTypes DEF Init, Taken, EventPhases
  <2>2. \A p \in EventPhases : \A i \in 1 .. Count(MASTER, p) : list[MASTER][p][i].proc = MASTER
    BY <1>3, RankTypes
  <2>3. ASSUME NEW p \in EventPhases, NEW r \in Senders
        PROVE  NoneInvented(r, p) /\ NoneLost(r, p)
    BY <2>1, <2>2, RankTypes DEF NoneInvented, NoneLost
  <2>4. ASSUME NEW p \in EventPhases, NEW i \in 1 .. Count(MASTER, p), NEW j \in 1 .. Count(MASTER, p),
               Key(list[MASTER][p][i]) = Key(list[MASTER][p][j])
        PROVE  i = j
    <3>1. list[MASTER][p][i].id = list[MASTER][p][j].id
      BY <2>4 DEF Key
    <3>. QED BY <3>1, <1>3, RankTypes
  <2>. QED BY <2>3, <2>4 DEF HaveInv, NoneTwice
<1>. QED BY <1>6, <1>7, <1>8, <1>9, <1>10 DEF IInv

-------------------------------------------------------------------------------
(* The lists of the senders.                                                    *)

LEMMA SendersKept ==
  ASSUME TypeOK, [Next]_vars, NEW r \in Senders
  PROVE  list'[r] = list[r] /\ stats'[r] = stats[r]
<1>1. r # MASTER /\ r \in Ranks
  BY RankTypes
<1>2. CASE MasterStep
  <2>1. CASE RecvEvent
    BY <1>1, <2>1 DEF RecvEvent, TypeOK
  <2>2. CASE RecvFail
    BY <1>1, <2>2 DEF RecvFail, TypeOK
  <2>3. CASE RecvNum \/ NextSender \/ RecvSucceed \/ MasterReturns
    BY <2>3 DEF RecvNum, NextSender, RecvSucceed, MasterReturns
  <2>. QED BY <1>2, <2>1, <2>2, <2>3 DEF MasterStep
<1>3. CASE \E q \in Senders : SenderStep(q)
  BY <1>3 DEF SenderStep, SendNum, SendEvent, SendStats, SenderReturns, Send
<1>4. CASE Terminated \/ UNCHANGED vars
  BY <1>4 DEF Terminated, vars
<1>. QED BY <1>2, <1>3, <1>4 DEF Next

LEMMA MadeStep ==
  ASSUME TypeOK, MadeInv, [Next]_vars
  PROVE  MadeInv'
BY SendersKept DEF MadeInv, Count

-------------------------------------------------------------------------------
(* The steps of a sender.                                                       *)

LEMMA TakenTypes ==
  ASSUME TypeOK, NEW r \in Senders
  PROVE  TakenOf(r) \in Int
<1>1. \A p \in 1 .. DONE : Before(r, p) \in Int
  BY BeforeTypes, RankTypes
<1>2. phase[MASTER] \in 1 .. DONE
  BY RankTypes DEF TypeOK
<1>3. num = None \/ got \in Int
  BY DEF TypeOK
<1>4. CASE phase[MASTER] = DONE
  BY <1>1, <1>4 DEF TakenOf, DONE
<1>5. CASE phase[MASTER] # DONE
  <2>1. phase[MASTER] + 1 \in 1 .. DONE
    BY <1>2, <1>5 DEF DONE
  <2>2. Before(r, phase[MASTER]) \in Int /\ Before(r, phase[MASTER] + 1) \in Int
    BY <1>1, <1>2, <2>1
  <2>. QED BY <2>2, <1>3, <1>5 DEF TakenOf
<1>. QED BY <1>4, <1>5

LEMMA SendStep ==
  ASSUME IInv, NEW r \in Senders, NEW tag, NEW body, Send(r, tag, body),
         [tag |-> tag, body |-> body] \in Messages,
         [tag |-> tag, body |-> body] = Message(r, SentBy(r)),
         phase[r] \in EventPhases => next[r] <= Count(r, phase[r]),
         phase[r] = STATS => next[r] < 2,
         phase[r] # DONE
  PROVE  TypeOK' /\ LoopInv' /\ ChanInv'
<1> USE DEF IInv
<1>1. /\ chan' = [chan EXCEPT ![r] = Append(@, [tag |-> tag, body |-> body])]
      /\ next' = [next EXCEPT ![r] = @ + 1]
      /\ UNCHANGED << capacity, list, stats, phase, masterVars >>
  BY DEF Send
<1>2. TypeOK'
  <2>1. chan' \in [Senders -> Seq(Messages)]
    BY <1>1 DEF TypeOK
  <2>2. next' \in [Senders -> Nat]
    BY <1>1 DEF TypeOK
  <2>. QED BY <1>1, <2>1, <2>2 DEF TypeOK, masterVars
<1>3. \A q \in Senders : Count(q, phase[q])' = Count(q, phase[q])
  BY <1>1 DEF Count
<1>4. \A q \in Senders : q \in Ranks /\ next[q] \in Nat
  BY RankTypes DEF TypeOK
<1>5. LoopInv'
  <2>1. ASSUME NEW q \in Senders
        PROVE  /\ phase'[q] \in EventPhases => next'[q] <= Count(q, phase[q])' + 1
               /\ phase'[q] = STATS => next'[q] <= 2
               /\ phase'[q] = DONE => next'[q] = 0
    <3>1. CASE q = r
      <4>1. next'[q] = next[r] + 1
        BY <1>1, <3>1 DEF TypeOK
      <4>2. phase[r] \in EventPhases => Count(r, phase[r]) \in Nat
        BY Counts, <1>4
      <4>. QED BY <3>1, <4>1, <4>2, <1>1, <1>3, <1>4
    <3>2. CASE q # r
      BY <3>2, <1>1, <1>3 DEF LoopInv, TypeOK
    <3>. QED BY <3>1, <3>2
  <2>2. num' # None =>
          phase'[MASTER] \in EventPhases /\ from' < Size /\ num' = Count(from, phase[MASTER])'
    BY <1>1 DEF LoopInv, Count, masterVars
  <2>3. sSucceed' # None =>
          phase'[MASTER] = STATS /\ from' < Size /\ sSucceed' = stats'[from'].succeed
    BY <1>1 DEF LoopInv, masterVars
  <2>. QED BY <2>1, <2>2, <2>3 DEF LoopInv
<1>6. ChanInv'
  <2>1. ASSUME NEW q \in Senders
        PROVE  /\ SentBy(q)' = TakenOf(q)' + Len(chan'[q])
               /\ \A i \in 1 .. Len(chan'[q]) : chan'[q][i] = Message(q, TakenOf(q) + i - 1)'
    <3>1. /\ \A p : Before(q, p)' = Before(q, p)
          /\ \A k : Message(q, k)' = Message(q, k)
      BY <1>1, StreamFrame
    <3>2. TakenOf(q)' = TakenOf(q)
      BY <1>1, <3>1 DEF TakenOf, masterVars
    <3>3. /\ SentBy(q) = TakenOf(q) + Len(chan[q])
          /\ \A i \in 1 .. Len(chan[q]) : chan[q][i] = Message(q, TakenOf(q) + i - 1)
      BY DEF ChanInv
    <3>4. CASE q # r
      <4>1. chan'[q] = chan[q] /\ SentBy(q)' = SentBy(q)
        BY <1>1, <3>1, <3>4 DEF SentBy, TypeOK
      <4>. QED BY <3>1, <3>2, <3>3, <4>1
    <3>5. CASE q = r
      <4>1. SentBy(r)' = SentBy(r) + 1
        <5>1. phase[r] \in 1 .. DONE
          BY <1>4 DEF TypeOK
        <5>2. Before(r, phase[r]) \in Nat
          BY <5>1, <1>4, BeforeTypes
        <5>. QED BY <5>2, <1>1, <1>4, <3>1, <3>5 DEF SentBy, TypeOK
      <4>2. chan[r] \in Seq(Messages)
        BY DEF TypeOK
      <4>3. chan'[r] = Append(chan[r], [tag |-> tag, body |-> body])
        BY <1>1 DEF TypeOK
      <4>4. /\ Len(chan'[r]) = Len(chan[r]) + 1
            /\ \A i \in 1 .. Len(chan[r]) : chan'[r][i] = chan[r][i]
            /\ chan'[r][Len(chan[r]) + 1] = [tag |-> tag, body |-> body]
        BY <4>2, <4>3
      <4>5. TakenOf(r) \in Int
        BY TakenTypes
      <4>6. SentBy(r) = TakenOf(r) + (Len(chan[r]) + 1) - 1
        BY <3>3, <3>5, <4>2, <4>5
      <4>7. \A i \in 1 .. Len(chan'[r]) : chan'[r][i] = Message(r, TakenOf(r) + i - 1)
        <5>1. Len(chan[r]) \in Nat
          BY <4>2
        <5>2. SUFFICES ASSUME NEW i \in 1 .. Len(chan[r]) + 1
                       PROVE  chan'[r][i] = Message(r, TakenOf(r) + i - 1)
          BY <4>4
        <5>3. CASE i \in 1 .. Len(chan[r])
          BY <5>3, <3>3, <3>5, <4>4
        <5>4. CASE i = Len(chan[r]) + 1
          BY <5>4, <4>4, <4>6
        <5>. QED BY <5>1, <5>3, <5>4
      <4>. QED BY <3>1, <3>2, <3>3, <3>5, <4>1, <4>2, <4>4, <4>5, <4>7
    <3>. QED BY <3>4, <3>5
  <2>. QED BY <2>1 DEF ChanInv
<1>. QED BY <1>2, <1>5, <1>6

LEMMA SendsInOrder ==
  ASSUME IInv, NEW r \in Senders, SendNum(r) \/ SendEvent(r) \/ SendStats(r)
  PROVE  TypeOK' /\ LoopInv' /\ ChanInv'
<1>1. TypeOK /\ r \in Ranks /\ next[r] \in Nat
  BY RankTypes DEF IInv, TypeOK
<1>2. CASE SendNum(r)
  <2>1. phase[r] \in EventPhases /\ next[r] = 0 /\ Send(r, 1, Count(r, phase[r]))
    BY <1>2 DEF SendNum, Count
  <2>2. Count(r, phase[r]) \in Nat
    BY <1>1, <2>1, Counts
  <2>3. Message(r, Before(r, phase[r]) + 0) = EventMessage(r, phase[r], 0)
    BY <1>1, <2>1, <2>2, MessageAt
  <2>4. [tag |-> 1, body |-> Count(r, phase[r])] = Message(r, SentBy(r))
    BY <2>1, <2>3 DEF SentBy, EventMessage
  <2>. QED BY <2>1, <2>2, <2>4, SendStep DEF Messages, EventPhases, STATS, DONE
<1>3. CASE SendEvent(r)
  <2>1. /\ phase[r] \in EventPhases /\ next[r] \in 1 .. Count(r, phase[r])
        /\ Send(r, 2, list[r][phase[r]][next[r]])
    BY <1>3 DEF SendEvent, Count
  <2>2. Count(r, phase[r]) \in Nat /\ list[r][phase[r]][next[r]] \in Events
    BY <1>1, <2>1, Counts
  <2>3. Message(r, Before(r, phase[r]) + next[r]) = EventMessage(r, phase[r], next[r])
    BY <1>1, <2>1, <2>2, MessageAt
  <2>4. [tag |-> 2, body |-> list[r][phase[r]][next[r]]] = Message(r, SentBy(r))
    BY <1>1, <2>1, <2>3 DEF SentBy, EventMessage
  <2>. QED BY <2>1, <2>2, <2>4, SendStep DEF Messages, EventPhases, STATS, DONE
<1>4. CASE SendStats(r)
  <2> DEFINE body == IF next[r] = 0 THEN stats[r].succeed ELSE stats[r].fail
  <2>1. phase[r] = STATS /\ next[r] < 2 /\ Send(r, 3, body)
    BY <1>4 DEF SendStats
  <2>2. body \in Nat
    BY <1>1 DEF TypeOK
  <2>3. Message(r, Before(r, STATS) + next[r]) = StatsMessage(r, next[r])
    BY <1>1, <2>1, MessageAt
  <2>4. [tag |-> 3, body |-> body] = Message(r, SentBy(r))
    BY <2>1, <2>3 DEF SentBy, StatsMessage
  <2>5. [tag |-> 3, body |-> body] \in Messages
    BY <2>2 DEF Messages
  <2> HIDE DEF body
  <2>. QED BY <2>1, <2>4, <2>5, SendStep DEF EventPhases, STATS, DONE
<1>. QED BY <1>2, <1>3, <1>4

LEMMA ReturnsInOrder ==
  ASSUME IInv, NEW r \in Senders, SenderReturns(r)
  PROVE  TypeOK' /\ LoopInv' /\ ChanInv'
<1> USE DEF IInv
<1>1. /\ phase' = [phase EXCEPT ![r] = @ + 1]
      /\ next' = [next EXCEPT ![r] = 0]
      /\ UNCHANGED << capacity, list, stats, chan, masterVars >>
      /\ \/ phase[r] \in EventPhases /\ next[r] = Count(r, phase[r]) + 1
         \/ phase[r] = STATS /\ next[r] = 2
  BY DEF SenderReturns, Count
<1>2. r \in Ranks /\ r # MASTER /\ phase'[MASTER] = phase[MASTER]
  BY <1>1, RankTypes DEF TypeOK
<1>3. phase[r] \in 1 .. STATS /\ phase'[r] = phase[r] + 1 /\ phase'[r] \in 2 .. DONE
  BY <1>1, <1>2 DEF TypeOK, EventPhases, STATS, DONE
<1>4. TypeOK'
  <2>1. phase' \in [Ranks -> 1 .. DONE]
    BY <1>1, <1>3 DEF TypeOK, DONE, STATS
  <2>2. next' \in [Senders -> Nat]
    BY <1>1 DEF TypeOK
  <2>. QED BY <1>1, <2>1, <2>2 DEF TypeOK, masterVars
<1>5. LoopInv'
  <2>1. ASSUME NEW q \in Senders
        PROVE  /\ phase'[q] \in EventPhases => next'[q] <= Count(q, phase[q])' + 1
               /\ phase'[q] = STATS => next'[q] <= 2
               /\ phase'[q] = DONE => next'[q] = 0
    <3>1. CASE q = r
      <4>1. next'[q] = 0
        BY <1>1, <3>1 DEF TypeOK
      <4>2. phase'[r] \in EventPhases => Count(r, phase[r])' \in Nat
        <5>1. phase'[r] \in EventPhases => Count(r, phase'[r]) \in Nat
          BY Counts, <1>2
        <5>. QED BY <5>1, <1>1 DEF Count
      <4>. QED BY <3>1, <4>1, <4>2
    <3>2. CASE q # r
      <4>1. phase'[q] = phase[q] /\ next'[q] = next[q] /\ list' = list
        BY <1>1, <3>2, RankTypes DEF TypeOK
      <4>. QED BY <4>1 DEF LoopInv, Count
    <3>. QED BY <3>1, <3>2
  <2>2. num' # None =>
          phase'[MASTER] \in EventPhases /\ from' < Size /\ num' = Count(from, phase[MASTER])'
    BY <1>1, <1>2 DEF LoopInv, Count, masterVars
  <2>3. sSucceed' # None =>
          phase'[MASTER] = STATS /\ from' < Size /\ sSucceed' = stats'[from'].succeed
    BY <1>1, <1>2 DEF LoopInv, masterVars
  <2>. QED BY <2>1, <2>2, <2>3 DEF LoopInv
<1>6. ChanInv'
  <2>1. ASSUME NEW q \in Senders
        PROVE  /\ SentBy(q)' = TakenOf(q)' + Len(chan'[q])
               /\ \A i \in 1 .. Len(chan'[q]) : chan'[q][i] = Message(q, TakenOf(q) + i - 1)'
    <3>1. /\ \A p : Before(q, p)' = Before(q, p)
          /\ \A k : Message(q, k)' = Message(q, k)
      BY <1>1, StreamFrame
    <3>2. TakenOf(q)' = TakenOf(q)
      BY <1>1, <1>2, <3>1 DEF TakenOf, masterVars
    <3>3. /\ SentBy(q) = TakenOf(q) + Len(chan[q])
          /\ \A i \in 1 .. Len(chan[q]) : chan[q][i] = Message(q, TakenOf(q) + i - 1)
      BY DEF ChanInv
    <3>4. SentBy(q)' = SentBy(q)
      <4>1. CASE q # r
        BY <1>1, <3>1, <4>1, RankTypes DEF SentBy, TypeOK
      <4>2. CASE q = r
        <5>1. SentBy(r)' = Before(r, phase[r] + 1) + 0
          BY <1>1, <1>3, <3>1, <4>2 DEF SentBy, TypeOK
        <5>2. CASE phase[r] \in EventPhases /\ next[r] = Count(r, phase[r]) + 1
          <6>1. Before(r, phase[r] + 1) = Before(r, phase[r]) + Count(r, phase[r]) + 1
            BY <1>2, <5>2, BeforeTypes
          <6>2. Before(r, phase[r]) \in Nat /\ Count(r, phase[r]) \in Nat
            BY <1>2, <1>3, <5>2, BeforeTypes, Counts DEF DONE, STATS
          <6>. QED BY <4>2, <5>1, <5>2, <6>1, <6>2 DEF SentBy
        <5>3. CASE phase[r] = STATS /\ next[r] = 2
          <6>1. Before(r, DONE) = Before(r, STATS) + 2 /\ Before(r, STATS) \in Nat
            BY <1>2, BeforeTypes DEF STATS, DONE
          <6>2. phase[r] + 1 = DONE
            BY <5>3 DEF STATS, DONE
          <6>. QED BY <4>2, <5>1, <5>3, <6>1, <6>2 DEF SentBy
        <5>. QED BY <1>1, <5>2, <5>3
      <4>. QED BY <4>1, <4>2
    <3>. QED BY <1>1, <3>1, <3>2, <3>3, <3>4
  <2>. QED BY <2>1 DEF ChanInv
<1>. QED BY <1>4, <1>5, <1>6

-------------------------------------------------------------------------------
(* The steps of the master.                                                     *)

\* A receive takes the first message of the channel when that has the tag.
LEMMA TakesFirst ==
  ASSUME IInv, from < Size, NEW tag, NEW i \in 1 .. Len(chan[from]),
         Arrived(from, tag, i), Take(from, i), Message(from, TakenOf(from)).tag = tag
  PROVE  /\ from \in Senders
         /\ chan[from][i] = Message(from, TakenOf(from))
         /\ chan[from][i] \in Messages
         /\ chan' \in [Senders -> Seq(Messages)]
         /\ \A q \in Senders \ {from} : chan'[q] = chan[q]
         /\ Len(chan'[from]) = Len(chan[from]) - 1
         /\ \A j \in 1 .. Len(chan[from]) - 1 : chan'[from][j] = chan[from][j + 1]
<1> USE DEF IInv
<1>1. from \in Senders
  BY RankTypes DEF TypeOK
<1>2. chan[from] \in Seq(Messages) /\ Len(chan[from]) \in Nat /\ Len(chan[from]) >= 1
  BY <1>1 DEF TypeOK
<1>3. TakenOf(from) \in Int
  BY <1>1, TakenTypes
<1>4. chan[from][1] = Message(from, TakenOf(from))
  BY <1>1, <1>2, <1>3 DEF ChanInv
<1>5. i = 1
  BY <1>2, <1>4 DEF Arrived
<1> DEFINE t == SubSeq(chan[from], 1, 0) \o SubSeq(chan[from], 2, Len(chan[from]))
<1>6. chan' = [chan EXCEPT ![from] = t]
  BY <1>5 DEF Take
<1>7. /\ t \in Seq(Messages)
      /\ Len(t) = Len(chan[from]) - 1
      /\ \A j \in 1 .. Len(chan[from]) - 1 : t[j] = chan[from][j + 1]
  BY <1>2, TakeFirst
<1> HIDE DEF t
<1>8. chan' \in [Senders -> Seq(Messages)]
  BY <1>6, <1>7 DEF TypeOK
<1>9. chan'[from] = t /\ \A q \in Senders \ {from} : chan'[q] = chan[q]
  BY <1>1, <1>6 DEF TypeOK
<1>10. chan[from][i] \in Messages
  BY <1>2
<1>. QED BY <1>1, <1>4, <1>5, <1>7, <1>8, <1>9, <1>10

\* The channels after a receive, and after a step without one.
LEMMA ReceiveKeepsStream ==
  ASSUME IInv, [Next]_vars, UNCHANGED << phase, next >>, NEW s \in Senders,
         \A q \in Senders \ {s} : chan'[q] = chan[q] /\ TakenOf(q)' = TakenOf(q),
         chan' \in [Senders -> Seq(Messages)],
         Len(chan'[s]) = Len(chan[s]) - 1,
         \A j \in 1 .. Len(chan[s]) - 1 : chan'[s][j] = chan[s][j + 1],
         TakenOf(s)' = TakenOf(s) + 1
  PROVE  ChanInv'
<1> USE DEF IInv
<1>1. SUFFICES ASSUME NEW q \in Senders
               PROVE  /\ SentBy(q)' = TakenOf(q)' + Len(chan'[q])
                      /\ \A i \in 1 .. Len(chan'[q]) : chan'[q][i] = Message(q, TakenOf(q) + i - 1)'
  BY DEF ChanInv
<1>2. /\ \A p : Before(q, p)' = Before(q, p)
      /\ \A k : Message(q, k)' = Message(q, k)
  BY SendersKept, StreamFrame
<1>3. SentBy(q)' = SentBy(q)
  BY <1>2 DEF SentBy
<1>4. /\ SentBy(q) = TakenOf(q) + Len(chan[q])
      /\ \A i \in 1 .. Len(chan[q]) : chan[q][i] = Message(q, TakenOf(q) + i - 1)
  BY DEF ChanInv
<1>5. CASE q # s
  BY <1>2, <1>3, <1>4, <1>5
<1>6. CASE q = s
  <2>0. TakenOf(s) \in Int
    BY TakenTypes
  <2>1. chan[s] \in Seq(Messages) /\ chan'[s] \in Seq(Messages)
    BY DEF TypeOK
  <2>2. Len(chan[s]) \in Nat /\ Len(chan'[s]) \in Nat
    BY <2>1
  <2>3. TakenOf(s)' + Len(chan'[s]) = TakenOf(s) + Len(chan[s])
    BY <2>0, <2>2
  <2>4. SentBy(s)' = TakenOf(s)' + Len(chan'[s])
    BY <1>3, <1>4, <1>6, <2>3
  <2>5. ASSUME NEW i \in 1 .. Len(chan'[s])
        PROVE  chan'[s][i] = Message(s, TakenOf(s)' + i - 1)
    <3>1. i + 1 \in 1 .. Len(chan[s]) /\ i \in 1 .. Len(chan[s]) - 1
      BY <2>2, <2>5
    <3>2. chan'[s][i] = Message(s, TakenOf(s) + (i + 1) - 1)
      BY <1>4, <1>6, <3>1
    <3>3. TakenOf(s)' + i - 1 = TakenOf(s) + (i + 1) - 1
      BY <2>0
    <3>. QED BY <3>2, <3>3
  <2>. QED BY <1>2, <1>6, <2>4, <2>5
<1>. QED BY <1>5, <1>6

LEMMA QuietKeepsStream ==
  ASSUME IInv, [Next]_vars, UNCHANGED << next, chan >>,
         \A q \in Senders : phase'[q] = phase[q] /\ TakenOf(q)' = TakenOf(q)
  PROVE  ChanInv'
<1> USE DEF IInv
<1>1. SUFFICES ASSUME NEW q \in Senders
               PROVE  /\ SentBy(q)' = TakenOf(q)' + Len(chan'[q])
                      /\ \A i \in 1 .. Len(chan'[q]) : chan'[q][i] = Message(q, TakenOf(q) + i - 1)'
  BY DEF ChanInv
<1>2. /\ \A p : Before(q, p)' = Before(q, p)
      /\ \A k : Message(q, k)' = Message(q, k)
  BY SendersKept, StreamFrame
<1>3. SentBy(q)' = SentBy(q)
  BY <1>2 DEF SentBy
<1>. QED BY <1>2, <1>3 DEF ChanInv

LEMMA MasterTypes ==
  ASSUME TypeOK, from < Size
  PROVE  /\ MASTER \in Ranks /\ from \in Senders /\ from \in Ranks /\ from \in Int
         /\ num # None => num \in Nat /\ got \in Nat /\ got <= num
         /\ num = None => got = 0
         /\ None \notin Nat
BY RankTypes DEF TypeOK, None

\* While the master stays with a sender only that one's position in the stream moves.
LEMMA TakenHere ==
  ASSUME NEW q \in Senders, phase'[MASTER] = phase[MASTER], from' = from, from \in Int,
         \A k : Before(q, k)' = Before(q, k)
  PROVE  /\ q # from => TakenOf(q)' = TakenOf(q)
         /\ q = from /\ phase[MASTER] \in EventPhases =>
              TakenOf(q)' = Before(q, phase[MASTER]) + (IF num' = None THEN 0 ELSE 1 + got')
         /\ q = from /\ phase[MASTER] = STATS =>
              TakenOf(q)' = Before(q, phase[MASTER]) + (IF sSucceed' = None THEN 0 ELSE 1)
<1>1. q \in Int
  BY RankTypes
<1>2. q # from => TakenOf(q)' = TakenOf(q)
  BY <1>1 DEF TakenOf
<1>3. q = from /\ phase[MASTER] \in EventPhases =>
        TakenOf(q)' = Before(q, phase[MASTER]) + (IF num' = None THEN 0 ELSE 1 + got')
  BY <1>1 DEF TakenOf, EventPhases, STATS, DONE
<1>4. q = from /\ phase[MASTER] = STATS =>
        TakenOf(q)' = Before(q, phase[MASTER]) + (IF sSucceed' = None THEN 0 ELSE 1)
  BY <1>1 DEF TakenOf, STATS, DONE
<1>. QED BY <1>2, <1>3, <1>4

LEMMA NumStep ==
  ASSUME IInv, RecvNum
  PROVE  TypeOK' /\ LoopInv' /\ ChanInv'
<1> USE DEF IInv
<1>1. PICK i \in 1 .. Len(chan[from]) :
        Arrived(from, 1, i) /\ num' = chan[from][i].body /\ Take(from, i)
  BY DEF RecvNum
<1>2. /\ phase[MASTER] \in EventPhases /\ from < Size /\ num = None
      /\ UNCHANGED << capacity, list, stats, phase, next, from, got, sSucceed >>
  BY DEF RecvNum
<1> DEFINE p == phase[MASTER]
<1>3. from \in Senders /\ from \in Ranks /\ from \in Int /\ got = 0 /\ None \notin Nat
  BY <1>2, MasterTypes
<1>4. Count(from, p) \in Nat /\ Before(from, p) \in Nat
  <2>1. Count(from, p) \in Nat
    BY <1>2, <1>3, Counts
  <2>2. p \in 1 .. DONE
    BY <1>2 DEF EventPhases, DONE
  <2>. QED BY <1>3, <2>1, <2>2, BeforeTypes
<1>5. TakenOf(from) = Before(from, p)
  BY <1>2, <1>3, <1>4 DEF TakenOf, EventPhases, STATS, DONE
<1>6. Message(from, TakenOf(from)) = [tag |-> 1, body |-> Count(from, p)]
  <2>1. Message(from, Before(from, p) + 0) = EventMessage(from, p, 0)
    BY <1>2, <1>3, <1>4, MessageAt
  <2>. QED BY <1>4, <1>5, <2>1 DEF EventMessage
<1>7. /\ chan[from][i] = Message(from, TakenOf(from))
      /\ chan' \in [Senders -> Seq(Messages)]
      /\ \A q \in Senders \ {from} : chan'[q] = chan[q]
      /\ Len(chan'[from]) = Len(chan[from]) - 1
      /\ \A j \in 1 .. Len(chan[from]) - 1 : chan'[from][j] = chan[from][j + 1]
  BY <1>1, <1>2, <1>6, TakesFirst
<1>8. num' = Count(from, p)
  BY <1>1, <1>6, <1>7
<1>9. TypeOK'
  BY <1>2, <1>3, <1>4, <1>7, <1>8, SMTT(30) DEF TypeOK
<1>10. LoopInv'
  BY <1>2, <1>8 DEF LoopInv, Count
<1>11. ChanInv'
  <2>1. \A q \in Senders : \A k : Before(q, k)' = Before(q, k)
    BY <1>2, StreamFrame
  <2>2. TakenOf(from)' = TakenOf(from) + 1
    BY <1>2, <1>3, <1>4, <1>5, <1>8, <2>1 DEF TakenOf, EventPhases, STATS, DONE
  <2>3. \A q \in Senders \ {from} : TakenOf(q)' = TakenOf(q)
    BY <1>2, <1>3, <2>1, RankTypes DEF TakenOf
  <2>4. Next
    BY DEF Next, MasterStep
  <2>. QED BY <1>2, <1>3, <1>7, <2>2, <2>3, <2>4, ReceiveKeepsStream
<1>. QED BY <1>9, <1>10, <1>11

\* The event the master takes is the next one of the sender.
LEMMA NextEvent ==
  ASSUME IInv, RecvEvent
  PROVE  /\ from \in Senders /\ phase[MASTER] \in EventPhases
         /\ got + 1 \in 1 .. Count(from, phase[MASTER])
         /\ TakenOf(from) = Before(from, phase[MASTER]) + 1 + got
         /\ list[from][phase[MASTER]][got + 1] \in Events
         /\ \E e \in Received(phase[MASTER], list[from][phase[MASTER]][got + 1]) :
              list' = [list EXCEPT ![MASTER][phase[MASTER]] = << e >> \o @]
         /\ chan' \in [Senders -> Seq(Messages)]
         /\ \A q \in Senders \ {from} : chan'[q] = chan[q]
         /\ Len(chan'[from]) = Len(chan[from]) - 1
         /\ \A j \in 1 .. Len(chan[from]) - 1 : chan'[from][j] = chan[from][j + 1]
<1> USE DEF IInv
<1> DEFINE p == phase[MASTER]
<1>1. /\ p \in EventPhases /\ from < Size /\ num # None /\ got < num
      /\ UNCHANGED << capacity, stats, phase, next, from, num, sSucceed >>
      /\ got' = got + 1
  BY DEF RecvEvent
<1>2. PICK i \in 1 .. Len(chan[from]) :
        /\ Arrived(from, 2, i)
        /\ \E e \in Received(p, chan[from][i].body) :
             list' = [list EXCEPT ![MASTER][p] = << e >> \o @]
        /\ Take(from, i)
  BY DEF RecvEvent
<1>3. /\ from \in Senders /\ from \in Ranks /\ from \in Int
      /\ num \in Nat /\ got \in Nat
  BY <1>1, MasterTypes
<1>4. num = Count(from, p)
  BY <1>1 DEF LoopInv
<1>5. got + 1 \in 1 .. Count(from, p) /\ got + 1 \in 0 .. Count(from, p) /\ got + 1 # 0
  BY <1>1, <1>3, <1>4
<1>6. Before(from, p) \in Nat
  <2>1. p \in 1 .. DONE
    BY <1>1 DEF EventPhases, DONE
  <2>. QED BY <1>3, <2>1, BeforeTypes
<1>7. TakenOf(from) = Before(from, p) + 1 + got
  BY <1>1, <1>3, <1>6 DEF TakenOf, EventPhases, STATS, DONE
<1>8. Message(from, TakenOf(from)) = [tag |-> 2, body |-> list[from][p][got + 1]]
  <2>1. Message(from, Before(from, p) + (got + 1)) = EventMessage(from, p, got + 1)
    BY <1>1, <1>3, <1>5, MessageAt
  <2>2. TakenOf(from) = Before(from, p) + (got + 1)
    BY <1>3, <1>6, <1>7
  <2>. QED BY <1>5, <2>1, <2>2 DEF EventMessage
<1>9. /\ chan[from][i] = Message(from, TakenOf(from))
      /\ chan' \in [Senders -> Seq(Messages)]
      /\ \A q \in Senders \ {from} : chan'[q] = chan[q]
      /\ Len(chan'[from]) = Len(chan[from]) - 1
      /\ \A j \in 1 .. Len(chan[from]) - 1 : chan'[from][j] = chan[from][j + 1]
  BY <1>1, <1>2, <1>8, TakesFirst
<1>10. chan[from][i].body = list[from][p][got + 1]
  BY <1>8, <1>9
<1>11. list[from][p][got + 1] \in Events
  BY <1>1, <1>3, <1>5, Counts
<1>. QED BY <1>1, <1>2, <1>3, <1>5, <1>7, <1>9, <1>10, <1>11

\* What taking it does to the list of the master.
LEMMA ListGrows ==
  ASSUME IInv, NEW p \in EventPhases, NEW e \in Events,
         list' = [list EXCEPT ![MASTER][p] = << e >> \o @]
  PROVE  /\ list' \in [Ranks -> [EventPhases -> Seq(Events)]]
         /\ \A k \in EventPhases \ {p} : list'[MASTER][k] = list[MASTER][k]
         /\ Count(MASTER, p)' = Count(MASTER, p) + 1
         /\ list'[MASTER][p] = << e >> \o list[MASTER][p]
         /\ list'[MASTER][p][1] = e
         /\ \A i \in 1 .. Count(MASTER, p) : list'[MASTER][p][i + 1] = list[MASTER][p][i]
<1> USE DEF IInv
<1>1. MASTER \in Ranks /\ list \in [Ranks -> [EventPhases -> Seq(Events)]]
  BY RankTypes DEF TypeOK
<1>2. list[MASTER][p] \in Seq(Events)
  BY <1>1
<1> DEFINE t == << e >> \o list[MASTER][p]
<1>3. /\ t \in Seq(Events)
      /\ Len(t) = Len(list[MASTER][p]) + 1
      /\ t[1] = e
      /\ \A i \in 1 .. Len(list[MASTER][p]) : t[i + 1] = list[MASTER][p][i]
  BY <1>2, PutFirst
<1>4. list' = [list EXCEPT ![MASTER][p] = t]
  BY <1>1
<1> HIDE DEF t
<1>5. list' \in [Ranks -> [EventPhases -> Seq(Events)]]
  BY <1>1, <1>3, <1>4
<1>6. list'[MASTER][p] = t /\ \A k \in EventPhases \ {p} : list'[MASTER][k] = list[MASTER][k]
  BY <1>1, <1>4
<1>7. Count(MASTER, p) = Len(list[MASTER][p]) /\ Count(MASTER, p)' = Len(t)
  BY <1>6 DEF Count
<1>8. t = << e >> \o list[MASTER][p]
  BY DEF t
<1>. QED BY <1>3, <1>5, <1>6, <1>7, <1>8

LEMMA EventStep ==
  ASSUME IInv, RecvEvent
  PROVE  TypeOK' /\ LoopInv' /\ ChanInv'
<1> USE DEF IInv
<1> DEFINE p == phase[MASTER]
<1>1. /\ p \in EventPhases /\ from < Size /\ num # None /\ got < num
      /\ UNCHANGED << capacity, stats, phase, next, from, num, sSucceed >>
      /\ got' = got + 1
  BY DEF RecvEvent
<1>2. /\ from \in Senders /\ from \in Ranks /\ from \in Int
      /\ num \in Nat /\ got \in Nat
  BY <1>1, MasterTypes
<1>3. PICK e \in Received(p, list[from][p][got + 1]) :
        list' = [list EXCEPT ![MASTER][p] = << e >> \o @]
  BY NextEvent
<1>4. e \in Events
  BY <1>3, NextEvent, EventsReceived
<1>5. list' \in [Ranks -> [EventPhases -> Seq(Events)]]
  BY <1>1, <1>3, <1>4, ListGrows
<1>6. chan' \in [Senders -> Seq(Messages)]
  BY NextEvent
<1>7. got' \in 0 .. (IF num' = None THEN 0 ELSE num')
  BY <1>1, <1>2
<1>8. TypeOK'
  BY <1>1, <1>5, <1>6, <1>7 DEF TypeOK
<1>9. [Next]_vars
  BY DEF Next, MasterStep
<1>10. \A q \in Senders : list'[q] = list[q] /\ stats'[q] = stats[q]
  BY <1>9, SendersKept
<1>11. LoopInv'
  <2>1. \A q \in Senders, k \in EventPhases : Count(q, k)' = Count(q, k)
    BY <1>10 DEF Count
  <2>2. ASSUME NEW q \in Senders
        PROVE  /\ phase'[q] \in EventPhases => next'[q] <= Count(q, phase[q])' + 1
               /\ phase'[q] = STATS => next'[q] <= 2
               /\ phase'[q] = DONE => next'[q] = 0
    BY <1>1, <1>10 DEF LoopInv, Count
  <2>3. num' = Count(from, phase[MASTER])'
    BY <1>1, <1>2, <1>10 DEF LoopInv, Count
  <2>4. sSucceed' # None =>
          phase'[MASTER] = STATS /\ from' < Size /\ sSucceed' = stats'[from'].succeed
    BY <1>1 DEF LoopInv
  <2>. QED BY <1>1, <2>2, <2>3, <2>4 DEF LoopInv
<1>12. ChanInv'
  <2>1. \A q \in Senders : \A k : Before(q, k)' = Before(q, k)
    BY <1>10, StreamFrame
  <2>2. Before(from, p) \in Nat
    <3>1. p \in 1 .. DONE
      BY <1>1 DEF EventPhases, DONE
    <3>. QED BY <1>2, <3>1, BeforeTypes
  <2>3. TakenOf(from)' = Before(from, p) + (1 + (got + 1))
    BY <1>1, <1>2, <2>1, TakenHere
  <2>4. TakenOf(from) = Before(from, p) + 1 + got
    BY NextEvent
  <2>5. TakenOf(from)' = TakenOf(from) + 1
    BY <1>2, <2>2, <2>3, <2>4
  <2>6. \A q \in Senders \ {from} : TakenOf(q)' = TakenOf(q)
    BY <1>1, <1>2, <2>1, TakenHere
  <2>. QED BY <1>1, <1>2, <1>9, <2>5, <2>6, NextEvent, ReceiveKeepsStream
<1>. QED BY <1>8, <1>11, <1>12

\* When the master is through with a sender, all that sender sends in the phase is taken.
LEMMA TakenThere ==
  ASSUME TypeOK, NEW q \in Senders, phase[MASTER] # DONE,
         phase'[MASTER] = phase[MASTER], from' = from + 1,
         \A k : Before(q, k)' = Before(q, k),
         phase[MASTER] \in EventPhases => num' = None,
         phase[MASTER] = STATS => sSucceed' = None
  PROVE  TakenOf(q)' = Before(q, phase[MASTER] + (IF q <= from THEN 1 ELSE 0))
<1> DEFINE p == phase[MASTER]
<1>1. p \in 1 .. STATS /\ q \in Int /\ q \in Ranks /\ from \in Int
  BY RankTypes DEF TypeOK, STATS, DONE
<1>2. CASE from + 1 > q
  BY <1>1, <1>2 DEF TakenOf
<1>3. CASE from + 1 < q
  BY <1>1, <1>3 DEF TakenOf
<1>4. CASE from + 1 = q
  <2>1. Before(q, p) \in Nat
    <3>1. p \in 1 .. DONE
      BY <1>1 DEF STATS, DONE
    <3>. QED BY <1>1, <3>1, BeforeTypes
  <2>2. TakenOf(q)' = Before(q, p) + 0
    BY <1>1, <1>4 DEF TakenOf, EventPhases, STATS
  <2>. QED BY <1>1, <1>4, <2>1, <2>2
<1>. QED BY <1>1, <1>2, <1>3, <1>4

LEMMA NextSenderStep ==
  ASSUME IInv, NextSender
  PROVE  TypeOK' /\ LoopInv' /\ ChanInv'
<1> USE DEF IInv
<1> DEFINE p == phase[MASTER]
<1>1. /\ p \in EventPhases /\ num # None /\ got = num
      /\ from' = from + 1 /\ num' = None /\ got' = 0
      /\ UNCHANGED << capacity, list, stats, phase, next, chan, sSucceed >>
  BY DEF NextSender
<1>2. from < Size /\ num = Count(from, p)
  BY <1>1 DEF LoopInv
<1>3. /\ from \in Senders /\ from \in Ranks /\ from \in Int /\ MASTER \in Ranks
      /\ num \in Nat
  BY <1>1, <1>2, MasterTypes
<1>4. TypeOK'
  <2>1. from' \in 1 .. Size
    BY <1>1, <1>2, RankTypes DEF TypeOK
  <2>. QED BY <1>1, <2>1 DEF TypeOK
<1>5. sSucceed = None
  BY <1>1 DEF LoopInv, EventPhases, STATS
<1>6. LoopInv'
  BY <1>1, <1>5 DEF LoopInv, Count
<1>7. [Next]_vars
  BY DEF Next, MasterStep
<1>8. ASSUME NEW q \in Senders
      PROVE  TakenOf(q)' = TakenOf(q)
  <2>1. \A k : Before(q, k)' = Before(q, k)
    BY <1>1, StreamFrame
  <2>2. p # DONE
    BY <1>1 DEF EventPhases, DONE
  <2>3. TakenOf(q)' = Before(q, p + (IF q <= from THEN 1 ELSE 0))
    BY <1>1, <1>5, <2>1, <2>2, TakenThere
  <2>4. q \in Int /\ q \in Ranks /\ p \in Int
    BY <1>1, RankTypes DEF EventPhases
  <2>5. CASE q < from
    <3>1. TakenOf(q) = Before(q, p + 1)
      BY <1>3, <2>2, <2>4, <2>5 DEF TakenOf
    <3>. QED BY <1>3, <2>3, <2>4, <2>5, <3>1
  <2>6. CASE q > from
    <3>1. TakenOf(q) = Before(q, p)
      BY <1>3, <2>2, <2>4, <2>6 DEF TakenOf
    <3>. QED BY <1>3, <2>3, <2>4, <2>6, <3>1
  <2>7. CASE q = from
    <3>1. TakenOf(q) = Before(q, p) + (1 + num)
      BY <1>1, <1>3, <2>2, <2>4, <2>7 DEF TakenOf, EventPhases, STATS
    <3>2. Before(q, p + 1) = Before(q, p) + Count(q, p) + 1
      BY <1>1, <2>4, BeforeTypes
    <3>3. Before(q, p) \in Nat
      <4>1. p \in 1 .. DONE
        BY <1>1 DEF EventPhases, DONE
      <4>. QED BY <2>4, <4>1, BeforeTypes
    <3>4. TakenOf(q) = Before(q, p + 1)
      BY <1>2, <1>3, <2>7, <3>1, <3>2, <3>3
    <3>. QED BY <1>3, <2>3, <2>4, <2>7, <3>4
  <2>. QED BY <1>3, <2>4, <2>5, <2>6, <2>7
<1>9. ChanInv'
  BY <1>1, <1>7, <1>8, QuietKeepsStream
<1>. QED BY <1>4, <1>6, <1>9

\* Where the master stands in the counters of a sender.
LEMMA StatsTypes ==
  ASSUME IInv, phase[MASTER] = STATS, from < Size
  PROVE  /\ from \in Senders /\ from \in Ranks /\ from \in Int
         /\ num = None
         /\ Before(from, STATS) \in Nat
         /\ TakenOf(from) = Before(from, STATS) + (IF sSucceed = None THEN 0 ELSE 1)
         /\ Message(from, TakenOf(from)) =
              [tag |-> 3, body |-> IF sSucceed = None THEN stats[from].succeed ELSE stats[from].fail]
         /\ stats[from].succeed \in Nat /\ stats[from].fail \in Nat
<1> USE DEF IInv
<1>1. from \in Senders /\ from \in Ranks /\ from \in Int
  BY MasterTypes
<1>2. num = None
  BY DEF LoopInv, EventPhases, STATS
<1>3. Before(from, STATS) \in Nat
  BY <1>1, BeforeTypes DEF STATS, DONE
<1>4. TakenOf(from) = Before(from, STATS) + (IF sSucceed = None THEN 0 ELSE 1)
  BY <1>1 DEF TakenOf, STATS, DONE
<1>5. \A i \in 0 .. 1 : Message(from, Before(from, STATS) + i) = StatsMessage(from, i)
  BY <1>1, MessageAt
<1>6. Message(from, TakenOf(from)) = StatsMessage(from, IF sSucceed = None THEN 0 ELSE 1)
  BY <1>4, <1>5
<1>7. stats[from].succeed \in Nat /\ stats[from].fail \in Nat
  BY <1>1 DEF TypeOK
<1>. QED BY <1>1, <1>2, <1>3, <1>4, <1>6, <1>7 DEF StatsMessage

LEMMA SucceedStep ==
  ASSUME IInv, RecvSucceed
  PROVE  TypeOK' /\ LoopInv' /\ ChanInv'
<1> USE DEF IInv
<1>1. /\ phase[MASTER] = STATS /\ from < Size /\ sSucceed = None
      /\ UNCHANGED << capacity, list, stats, phase, next, from, num, got >>
  BY DEF RecvSucceed
<1>2. PICK i \in 1 .. Len(chan[from]) :
        Arrived(from, 3, i) /\ sSucceed' = chan[from][i].body /\ Take(from, i)
  BY DEF RecvSucceed
<1>3. /\ from \in Senders /\ from \in Ranks /\ from \in Int
      /\ num = None
      /\ Before(from, STATS) \in Nat
      /\ TakenOf(from) = Before(from, STATS) + 0
      /\ Message(from, TakenOf(from)) = [tag |-> 3, body |-> stats[from].succeed]
      /\ stats[from].succeed \in Nat /\ stats[from].fail \in Nat
  BY <1>1, StatsTypes
<1>4. /\ chan[from][i] = Message(from, TakenOf(from))
      /\ chan' \in [Senders -> Seq(Messages)]
      /\ \A q \in Senders \ {from} : chan'[q] = chan[q]
      /\ Len(chan'[from]) = Len(chan[from]) - 1
      /\ \A j \in 1 .. Len(chan[from]) - 1 : chan'[from][j] = chan[from][j + 1]
  BY <1>1, <1>2, <1>3, TakesFirst
<1>5. sSucceed' = stats[from].succeed /\ sSucceed' # None
  BY <1>2, <1>3, <1>4 DEF None
<1>6. TypeOK'
  BY <1>1, <1>3, <1>4, <1>5 DEF TypeOK
<1>7. LoopInv'
  BY <1>1, <1>3, <1>5 DEF LoopInv, Count
<1>8. \A q \in Senders : \A k : Before(q, k)' = Before(q, k)
  BY <1>1, StreamFrame
<1>9. \A q \in Senders \ {from} : TakenOf(q)' = TakenOf(q)
  BY <1>1, <1>3, <1>8, TakenHere
<1>10. TakenOf(from)' = Before(from, STATS) + 1
  BY <1>1, <1>3, <1>5, <1>8, TakenHere
<1>11. TakenOf(from)' = TakenOf(from) + 1
  BY <1>3, <1>10
<1>12. [Next]_vars
  BY DEF Next, MasterStep
<1>13. ChanInv'
  BY <1>1, <1>3, <1>4, <1>9, <1>11, <1>12, ReceiveKeepsStream
<1>. QED BY <1>6, <1>7, <1>13

LEMMA FailStep ==
  ASSUME IInv, RecvFail
  PROVE  /\ TypeOK' /\ LoopInv' /\ ChanInv'
         /\ from \in Senders /\ from' = from + 1 /\ sSucceed = stats[from].succeed
         /\ stats' = [stats EXCEPT ![MASTER] = [succeed |-> @.succeed + stats[from].succeed,
                                                fail    |-> @.fail + stats[from].fail]]
<1> USE DEF IInv
<1>1. /\ phase[MASTER] = STATS /\ from < Size /\ sSucceed # None
      /\ sSucceed' = None /\ from' = from + 1
      /\ UNCHANGED << capacity, list, phase, next, num, got >>
  BY DEF RecvFail
<1>2. PICK i \in 1 .. Len(chan[from]) :
        /\ Arrived(from, 3, i)
        /\ stats' = [stats EXCEPT ![MASTER] =
                       [succeed |-> @.succeed + sSucceed, fail |-> @.fail + chan[from][i].body]]
        /\ Take(from, i)
  BY DEF RecvFail
<1>3. /\ from \in Senders /\ from \in Ranks /\ from \in Int
      /\ num = None
      /\ Before(from, STATS) \in Nat
      /\ TakenOf(from) = Before(from, STATS) + 1
      /\ Message(from, TakenOf(from)) = [tag |-> 3, body |-> stats[from].fail]
      /\ stats[from].succeed \in Nat /\ stats[from].fail \in Nat
  BY <1>1, StatsTypes
<1>4. /\ chan[from][i] = Message(from, TakenOf(from))
      /\ chan' \in [Senders -> Seq(Messages)]
      /\ \A q \in Senders \ {from} : chan'[q] = chan[q]
      /\ Len(chan'[from]) = Len(chan[from]) - 1
      /\ \A j \in 1 .. Len(chan[from]) - 1 : chan'[from][j] = chan[from][j + 1]
  BY <1>1, <1>2, <1>3, TakesFirst
<1>5. sSucceed = stats[from].succeed /\ chan[from][i].body = stats[from].fail
  BY <1>1, <1>3, <1>4 DEF LoopInv
<1>6. stats' = [stats EXCEPT ![MASTER] = [succeed |-> @.succeed + stats[from].succeed,
                                          fail    |-> @.fail + stats[from].fail]]
  BY <1>2, <1>5
<1>7. stats' \in [Ranks -> [succeed : Nat, fail : Nat]]
  <2>1. stats[MASTER] \in [succeed : Nat, fail : Nat] /\ MASTER \in Ranks
    BY RankTypes DEF TypeOK
  <2>2. /\ stats[MASTER].succeed + stats[from].succeed \in Nat
        /\ stats[MASTER].fail + stats[from].fail \in Nat
    <3>1. stats[MASTER].succeed \in Nat /\ stats[MASTER].fail \in Nat
      BY <2>1
    <3>2. stats[from].succeed \in Nat /\ stats[from].fail \in Nat
      BY <1>3
    <3>. QED BY <3>1, <3>2, SMTT(30)
  <2>. QED BY <1>6, <2>1, <2>2 DEF TypeOK
<1>8. TypeOK'
  <2>1. from' \in 1 .. Size
    BY <1>1, RankTypes DEF TypeOK
  <2>. QED BY <1>1, <1>3, <1>4, <1>7, <2>1 DEF TypeOK
<1>9. LoopInv'
  BY <1>1, <1>3 DEF LoopInv, Count
<1>10. [Next]_vars
  BY DEF Next, MasterStep
<1>11. ASSUME NEW q \in Senders
       PROVE  TakenOf(q)' = TakenOf(q) + (IF q = from THEN 1 ELSE 0)
  <2>1. \A k : Before(q, k)' = Before(q, k)
    BY <1>10, SendersKept, StreamFrame
  <2>2. phase[MASTER] # DONE /\ STATS + 1 = DONE
    BY <1>1 DEF STATS, DONE
  <2>3. TakenOf(q)' = Before(q, STATS + (IF q <= from THEN 1 ELSE 0))
    BY <1>1, <1>3, <2>1, <2>2, TakenThere
  <2>4. q \in Int /\ q \in Ranks /\ STATS + 0 = STATS
    BY RankTypes DEF STATS
  <2>5. Before(q, DONE) = Before(q, STATS) + 2 /\ Before(q, STATS) \in Nat /\ Before(q, DONE) \in Nat
    BY <2>4, BeforeTypes DEF STATS, DONE
  <2>6. CASE q < from
    <3>1. TakenOf(q) = Before(q, DONE)
      BY <1>1, <1>3, <2>2, <2>4, <2>6 DEF TakenOf
    <3>. QED BY <1>3, <2>2, <2>3, <2>4, <2>5, <2>6, <3>1
  <2>7. CASE q > from
    <3>1. TakenOf(q) = Before(q, STATS)
      BY <1>1, <1>3, <2>2, <2>4, <2>7 DEF TakenOf
    <3>. QED BY <1>3, <2>3, <2>4, <2>5, <2>7, <3>1
  <2>8. CASE q = from
    BY <1>3, <2>2, <2>3, <2>5, <2>8
  <2>. QED BY <1>3, <2>4, <2>6, <2>7, <2>8
<1>12. ChanInv'
  <2>1. \A q \in Senders : TakenOf(q) \in Int
    BY TakenTypes
  <2>2. \A q \in Senders \ {from} : chan'[q] = chan[q] /\ TakenOf(q)' = TakenOf(q)
    BY <1>4, <1>11, <2>1
  <2>3. ASSUME NEW s \in Senders, s = from
        PROVE  ChanInv'
    <3>1. TakenOf(s)' = TakenOf(s) + 1
      BY <1>11, <2>3
    <3>. QED BY <1>1, <1>4, <1>10, <2>2, <2>3, <3>1, ReceiveKeepsStream
  <2>. QED BY <1>3, <2>3
<1>. QED BY <1>1, <1>3, <1>5, <1>6, <1>8, <1>9, <1>12

LEMMA MasterReturnsStep ==
  ASSUME IInv, MasterReturns
  PROVE  TypeOK' /\ LoopInv' /\ ChanInv'
<1> USE DEF IInv
<1> DEFINE p == phase[MASTER]
<1>1. /\ p # DONE /\ from = Size
      /\ phase' = [phase EXCEPT ![MASTER] = @ + 1]
      /\ from' = 1
      /\ UNCHANGED << capacity, list, stats, next, chan, num, got, sSucceed >>
  BY DEF MasterReturns
<1>2. /\ MASTER \in Ranks /\ p \in 1 .. STATS
      /\ phase'[MASTER] = p + 1
      /\ \A q \in Senders : phase'[q] = phase[q]
  BY <1>1, RankTypes DEF TypeOK, STATS, DONE
<1>3. num = None /\ sSucceed = None
  BY <1>1, RankTypes DEF LoopInv
<1>4. TypeOK'
  <2>1. phase' \in [Ranks -> 1 .. DONE]
    BY <1>1, <1>2 DEF TypeOK, STATS, DONE
  <2>. QED BY <1>1, <2>1, RankTypes DEF TypeOK
<1>5. LoopInv'
  BY <1>1, <1>2, <1>3 DEF LoopInv, Count
<1>6. [Next]_vars
  BY DEF Next, MasterStep
<1>7. ASSUME NEW q \in Senders
      PROVE  TakenOf(q)' = TakenOf(q)
  <2>1. \A k : Before(q, k)' = Before(q, k)
    BY <1>1, StreamFrame
  <2>2. q \in Int /\ q < Size /\ q >= 1 /\ q \in Ranks
    BY RankTypes
  <2>3. TakenOf(q) = Before(q, p + 1)
    BY <1>1, <2>2 DEF TakenOf
  <2>4. TakenOf(q)' = Before(q, p + 1)
    <3>1. CASE p = STATS
      BY <1>2, <2>1, <3>1 DEF TakenOf, STATS, DONE
    <3>2. CASE p # STATS
      <4>1. p + 1 \in 1 .. DONE /\ p + 1 # DONE
        BY <1>2, <3>2 DEF STATS, DONE
      <4>2. Before(q, p + 1) \in Nat
        BY <2>2, <4>1, BeforeTypes
      <4>3. CASE q = 1
        BY <1>1, <1>2, <1>3, <2>1, <4>1, <4>2, <4>3 DEF TakenOf
      <4>4. CASE q > 1
        BY <1>1, <1>2, <2>1, <2>2, <4>1, <4>4 DEF TakenOf
      <4>. QED BY <2>2, <4>3, <4>4
    <3>. QED BY <3>1, <3>2
  <2>. QED BY <2>3, <2>4
<1>8. ChanInv'
  BY <1>1, <1>2, <1>6, <1>7, QuietKeepsStream
<1>. QED BY <1>4, <1>5, <1>8

LEMMA ControlStep ==
  ASSUME IInv, [Next]_vars
  PROVE  TypeOK' /\ LoopInv' /\ ChanInv'
<1>1. CASE MasterStep
  BY <1>1, NumStep, EventStep, NextSenderStep, SucceedStep, FailStep, MasterReturnsStep DEF MasterStep
<1>2. CASE \E r \in Senders : SenderStep(r)
  BY <1>2, SendsInOrder, ReturnsInOrder DEF SenderStep
<1>3. CASE Terminated \/ UNCHANGED vars
  <2>1. UNCHANGED vars
    BY <1>3 DEF Terminated
  <2>2. TypeOK'
    BY <2>1 DEF IInv, TypeOK, vars
  <2>3. LoopInv'
    BY <2>1 DEF IInv, LoopInv, Count, vars
  <2>4. \A q \in Senders : TakenOf(q)' = TakenOf(q)
    <3>1. \A q \in Senders : \A k : Before(q, k)' = Before(q, k)
      BY <2>1, StreamFrame DEF vars
    <3>. QED BY <2>1, <3>1 DEF TakenOf, vars
  <2>5. ChanInv'
    BY <2>1, <2>4, QuietKeepsStream DEF vars
  <2>. QED BY <2>2, <2>3, <2>5
<1>. QED BY <1>1, <1>2, <1>3 DEF Next

-------------------------------------------------------------------------------
(* The list of the master.                                                      *)

\* Only the receipt of an event moves the master on in the events of a sender.
LEMMA TakenOnlyByEvent ==
  ASSUME IInv, [Next]_vars, ~ RecvEvent
  PROVE  /\ list' = list
         /\ \A r \in Senders : \A p \in EventPhases : Taken(r, p)' = Taken(r, p)
<1> USE DEF IInv
<1>1. list' = list
  <2>1. CASE MasterStep
    BY <2>1 DEF MasterStep, RecvNum, NextSender, RecvSucceed, RecvFail, MasterReturns
  <2>2. CASE \E q \in Senders : SenderStep(q)
    BY <2>2 DEF SenderStep, SendNum, SendEvent, SendStats, SenderReturns, Send
  <2>3. CASE Terminated \/ UNCHANGED vars
    BY <2>3 DEF Terminated, vars
  <2>. QED BY <2>1, <2>2, <2>3 DEF Next
<1>2. SUFFICES ASSUME NEW r \in Senders, NEW p \in EventPhases
               PROVE  Taken(r, p)' = Taken(r, p)
  BY <1>1
<1>3. r \in Int /\ r >= 1 /\ r < Size /\ r # MASTER /\ MASTER \in Ranks /\ p \in Int
  BY RankTypes DEF EventPhases
<1>4. from \in Int /\ phase[MASTER] \in Int
  <2>1. phase[MASTER] \in 1 .. DONE /\ from \in 1 .. Size
    BY <1>3 DEF TypeOK
  <2>. QED BY <2>1
<1>5. CASE RecvNum \/ RecvSucceed
  BY <1>5 DEF RecvNum, RecvSucceed, Taken
<1>6. CASE NextSender
  <2>1. /\ phase[MASTER] \in EventPhases /\ num # None /\ got = num
        /\ from' = from + 1 /\ got' = 0
        /\ UNCHANGED << list, phase >>
    BY <1>6 DEF NextSender
  <2>2. num = Len(list[from][phase[MASTER]])
    BY <2>1 DEF LoopInv, Count
  <2>. QED BY <1>3, <1>4, <2>1, <2>2 DEF Taken
<1>7. CASE RecvFail
  BY <1>7, <1>3, <1>4 DEF RecvFail, Taken, EventPhases, STATS
<1>8. CASE MasterReturns
  <2>1. /\ from = Size /\ from' = 1 /\ phase'[MASTER] = phase[MASTER] + 1
        /\ UNCHANGED << list, got >>
    BY <1>8, <1>3 DEF MasterReturns, TypeOK
  <2>2. num = None
    BY <1>4, <2>1 DEF LoopInv
  <2>3. got = 0
    BY <2>2 DEF TypeOK
  <2>. QED BY <1>3, <1>4, <2>1, <2>3 DEF Taken
<1>9. CASE \E q \in Senders : SenderStep(q)
  <2>1. PICK q \in Senders : SenderStep(q)
    BY <1>9
  <2>2. UNCHANGED << list, from, got >> /\ phase'[MASTER] = phase[MASTER]
    BY <2>1, RankTypes DEF SenderStep, SendNum, SendEvent, SendStats, SenderReturns, Send, masterVars,
                           TypeOK
  <2>. QED BY <2>2 DEF Taken
<1>10. CASE Terminated \/ UNCHANGED vars
  BY <1>10 DEF Terminated, vars, Taken
<1>. QED BY <1>5, <1>6, <1>7, <1>8, <1>9, <1>10 DEF Next, MasterStep

LEMMA TakenByEvent ==
  ASSUME IInv, RecvEvent
  PROVE  /\ Taken(from, phase[MASTER]) = got
         /\ \A r \in Senders : \A p \in EventPhases :
              Taken(r, p)' = IF r = from /\ p = phase[MASTER] THEN got + 1 ELSE Taken(r, p)
<1>1. /\ from \in Senders /\ phase[MASTER] \in EventPhases
      /\ UNCHANGED << phase, from >> /\ got' = got + 1
  BY NextEvent DEF RecvEvent
<1>2. \A r \in Senders : list'[r] = list[r]
  BY SendersKept DEF Next, MasterStep, IInv
<1>3. \A r \in Senders : r \in Int
  BY RankTypes
<1>4. \A p \in EventPhases : p \in Int
  BY DEF EventPhases
<1>. QED BY <1>1, <1>2, <1>3, <1>4 DEF Taken

\* The next event of a sender is not in the master's list.
LEMMA NotYetTaken ==
  ASSUME IInv, NEW p \in EventPhases, NEW s \in Senders, NEW n \in Nat,
         Taken(s, p) = n, n < Count(s, p)
  PROVE  /\ \A i \in 1 .. Count(MASTER, p) : Key(list[MASTER][p][i]) # Key(list[s][p][n + 1])
         /\ Key(list[s][p][n + 1]) \notin Has(p)
<1> USE DEF IInv
<1> DEFINE x == list[s][p][n + 1]
<1>1. Count(s, p) \in Nat
  BY RankTypes, Counts
<1>2. n + 1 \in 1 .. Count(s, p)
  BY <1>1
<1>3. x.proc = s
  BY <1>2 DEF MadeInv
<1>4. ASSUME NEW i \in 1 .. Count(MASTER, p), Key(list[MASTER][p][i]) = Key(x)
      PROVE  FALSE
  <2>1. list[MASTER][p][i].proc = s /\ list[MASTER][p][i].id = x.id
    BY <1>3, <1>4 DEF Key
  <2>2. PICK j \in 1 .. Taken(s, p) :
          j <= Count(s, p) /\ list[s][p][j].id = list[MASTER][p][i].id
    BY <2>1 DEF HaveInv, NoneInvented
  <2>3. j \in 1 .. Count(s, p) /\ j # n + 1
    BY <1>1, <2>2
  <2>. QED BY <1>2, <2>1, <2>2, <2>3 DEF MadeInv
<1>5. DOMAIN list[MASTER][p] = 1 .. Count(MASTER, p)
  BY RankTypes, Counts DEF Count
<1>. QED BY <1>4, <1>5 DEF Has

LEMMA HaveStep ==
  ASSUME IInv, [Next]_vars
  PROVE  HaveInv'
<1> USE DEF IInv
<1>1. \A r \in Senders : list'[r] = list[r]
  BY SendersKept
<1>2. CASE ~ RecvEvent
  <2>1. list' = list /\ \A r \in Senders : \A p \in EventPhases : Taken(r, p)' = Taken(r, p)
    BY <1>2, TakenOnlyByEvent
  <2>2. \A p \in EventPhases : NoneTwice(p)'
    BY <2>1 DEF HaveInv, NoneTwice, Count
  <2>3. \A p \in EventPhases : \A r \in Senders : NoneInvented(r, p)' /\ NoneLost(r, p)'
    BY <2>1 DEF HaveInv, NoneInvented, NoneLost, Count
  <2>. QED BY <2>2, <2>3 DEF HaveInv
<1>3. CASE RecvEvent
  <2>1. /\ from \in Senders /\ phase[MASTER] \in EventPhases
        /\ got + 1 \in 1 .. Count(from, phase[MASTER])
        /\ list[from][phase[MASTER]][got + 1] \in Events
    BY <1>3, NextEvent
  <2>2. got \in Nat
    BY <1>3, MasterTypes DEF RecvEvent
  <2>3. PICK p \in EventPhases, s \in Senders, n \in Nat : p = phase[MASTER] /\ s = from /\ n = got
    BY <2>1, <2>2
  <2> DEFINE x == list[s][p][n + 1]
  <2>4. PICK e \in Received(p, x) : list' = [list EXCEPT ![MASTER][p] = << e >> \o @]
    BY <1>3, <2>3, NextEvent
  <2>5. e \in Events /\ Key(e) = Key(x)
    BY <2>1, <2>3, <2>4, EventsReceived
  <2>6. e.proc = s /\ e.id = x.id /\ s # MASTER
    <3>1. e.proc = x.proc /\ e.id = x.id
      BY <2>5 DEF Key
    <3>2. x.proc = s
      BY <2>1, <2>3 DEF MadeInv
    <3>. QED BY <3>1, <3>2, RankTypes
  <2>7. /\ \A k \in EventPhases \ {p} : list'[MASTER][k] = list[MASTER][k]
        /\ Count(MASTER, p)' = Count(MASTER, p) + 1
        /\ list'[MASTER][p][1] = e
        /\ \A i \in 1 .. Count(MASTER, p) : list'[MASTER][p][i + 1] = list[MASTER][p][i]
    BY <2>4, <2>5, ListGrows
  <2>8. Count(MASTER, p) \in Nat
    BY RankTypes, Counts
  <2>9. /\ Taken(s, p) = n
        /\ \A r \in Senders : \A k \in EventPhases :
             Taken(r, k)' = IF r = s /\ k = p THEN n + 1 ELSE Taken(r, k)
    BY <1>3, <2>3, TakenByEvent
  <2>10. n + 1 <= Count(s, p) /\ \A r \in Senders : Count(r, p)' = Count(r, p)
    BY <2>1, <2>3, <1>1 DEF Count
  <2> HIDE DEF x
  <2>11. ASSUME NEW k \in EventPhases, k # p
        PROVE  NoneTwice(k)' /\ \A r \in Senders : NoneInvented(r, k)' /\ NoneLost(r, k)'
    <3>1. list'[MASTER][k] = list[MASTER][k]
      BY <2>7, <2>11
    <3>2. \A r \in Senders : Taken(r, k)' = Taken(r, k)
      BY <2>9, <2>11
    <3>3. NoneTwice(k)'
      BY <3>1 DEF HaveInv, NoneTwice, Count
    <3>4. ASSUME NEW r \in Senders
          PROVE  NoneInvented(r, k)' /\ NoneLost(r, k)'
      <4>1. list'[r] = list[r] /\ Taken(r, k)' = Taken(r, k)
        BY <3>2, <1>1
      <4>2. NoneInvented(r, k) /\ NoneLost(r, k)
        BY DEF HaveInv
      <4>3. NoneInvented(r, k)'
        BY <3>1, <4>1, <4>2 DEF NoneInvented, Count
      <4>4. NoneLost(r, k)'
        BY <3>1, <4>1, <4>2 DEF NoneLost, Count, Key
      <4>. QED BY <4>3, <4>4
    <3>. QED BY <3>3, <3>4
  <2>12. ASSUME NEW i \in 1 .. Count(MASTER, p)'
        PROVE  \/ i = 1 /\ list'[MASTER][p][i] = e
               \/ i - 1 \in 1 .. Count(MASTER, p) /\ list'[MASTER][p][i] = list[MASTER][p][i - 1]
    <3>1. CASE i = 1
      BY <2>7, <3>1
    <3>2. CASE i # 1
      <4>1. i - 1 \in 1 .. Count(MASTER, p) /\ (i - 1) + 1 = i
        BY <2>7, <2>8, <2>12, <3>2
      <4>. QED BY <2>7, <4>1
    <3>. QED BY <3>1, <3>2
  <2>13. ASSUME NEW r \in Senders
        PROVE  NoneInvented(r, p)'
    <3>1. SUFFICES ASSUME NEW i \in 1 .. Count(MASTER, p)', list'[MASTER][p][i].proc = r
                   PROVE  \E j \in 1 .. Taken(r, p)' :
                            /\ j <= Count(r, p)
                            /\ list[r][p][j].id = list'[MASTER][p][i].id
      BY <2>10, <1>1 DEF NoneInvented
    <3>2. CASE i = 1 /\ list'[MASTER][p][i] = e
      <4>1. r = s /\ n + 1 \in 1 .. Taken(r, p)'
        BY <2>6, <2>9, <3>1, <3>2
      <4>. QED BY <2>6, <2>10, <3>2, <4>1 DEF x
    <3>3. CASE i - 1 \in 1 .. Count(MASTER, p) /\ list'[MASTER][p][i] = list[MASTER][p][i - 1]
      <4>1. PICK j \in 1 .. Taken(r, p) :
              j <= Count(r, p) /\ list[r][p][j].id = list[MASTER][p][i - 1].id
        BY <3>1, <3>3 DEF HaveInv, NoneInvented
      <4>2. j \in 1 .. Taken(r, p)'
        BY <2>9, <4>1
      <4>. QED BY <3>3, <4>1, <4>2
    <3>. QED BY <2>12, <3>1, <3>2, <3>3
  <2>14. ASSUME NEW r \in Senders
        PROVE  NoneLost(r, p)'
    <3>1. SUFFICES ASSUME NEW j \in 1 .. Taken(r, p)'
                   PROVE  \E i \in 1 .. Count(MASTER, p)' : Key(list'[MASTER][p][i]) = Key(list[r][p][j])
      BY <1>1 DEF NoneLost, Key
    <3>2. CASE j \in 1 .. Taken(r, p)
      <4>1. PICK i \in 1 .. Count(MASTER, p) : Key(list[MASTER][p][i]) = Key(list[r][p][j])
        BY <3>2 DEF HaveInv, NoneLost
      <4>2. i + 1 \in 1 .. Count(MASTER, p)' /\ list'[MASTER][p][i + 1] = list[MASTER][p][i]
        BY <2>7, <2>8
      <4>. QED BY <4>1, <4>2
    <3>3. CASE j \notin 1 .. Taken(r, p)
      <4>1. r = s /\ j = n + 1
        BY <2>9, <3>1, <3>3
      <4>2. 1 \in 1 .. Count(MASTER, p)' /\ list'[MASTER][p][1] = e
        BY <2>7, <2>8
      <4>. QED BY <2>5, <4>1, <4>2 DEF x
    <3>. QED BY <3>2, <3>3
  <2>15. NoneTwice(p)'
    <3>1. \A i \in 1 .. Count(MASTER, p) : Key(list[MASTER][p][i]) # Key(e)
      <4>1. Count(s, p) \in Nat /\ n < Count(s, p)
        BY <2>10, RankTypes, Counts
      <4>. QED BY <2>5, <2>9, <4>1, NotYetTaken DEF x
    <3>2. SUFFICES ASSUME NEW i \in 1 .. Count(MASTER, p)', NEW j \in 1 .. Count(MASTER, p)',
                          Key(list'[MASTER][p][i]) = Key(list'[MASTER][p][j])
                   PROVE  i = j
      BY DEF NoneTwice, Key
    <3>3. CASE list'[MASTER][p][i] = e
      BY <2>12, <3>1, <3>2, <3>3
    <3>4. CASE list'[MASTER][p][j] = e
      BY <2>12, <3>1, <3>2, <3>4
    <3>5. CASE list'[MASTER][p][i] # e /\ list'[MASTER][p][j] # e
      <4>1. /\ i - 1 \in 1 .. Count(MASTER, p) /\ list'[MASTER][p][i] = list[MASTER][p][i - 1]
            /\ j - 1 \in 1 .. Count(MASTER, p) /\ list'[MASTER][p][j] = list[MASTER][p][j - 1]
        BY <2>12, <3>2, <3>5
      <4>2. i - 1 = j - 1
        BY <3>2, <4>1 DEF HaveInv, NoneTwice
      <4>. QED BY <4>2, <2>7, <2>8, <3>2
    <3>. QED BY <3>3, <3>4, <3>5
  <2>. QED BY <2>11, <2>13, <2>14, <2>15 DEF HaveInv
<1>. QED BY <1>2, <1>3

-------------------------------------------------------------------------------
(* The invariants.                                                              *)

LEMMA NextInv == IInv /\ [Next]_vars => IInv'
BY ControlStep, MadeStep, HaveStep DEF IInv

LEMMA Inductive == Spec => []IInv
BY InitInv, NextInv, PTL DEF Spec

\* Every variable of the gather functions keeps its range (main.c:137-230): what is
\* received is a message of the kind the loop expects, and no more events of a sender
\* are received than it announced.
THEOREM TypeCorrect == Spec => []TypeOK
BY Inductive, PTL DEF IInv

LEMMA NothingIsLeft == IInv => NothingLeft
<1> SUFFICES ASSUME IInv, Finished, NEW r \in Senders
             PROVE  chan[r] = << >>
  BY DEF NothingLeft
<1> USE DEF IInv
<1>1. r \in Ranks /\ MASTER \in Ranks
  BY RankTypes
<1>2. phase[r] = DONE /\ phase[MASTER] = DONE /\ next[r] = 0
  BY <1>1 DEF Finished, LoopInv
<1>3. Before(r, DONE) \in Nat
  BY <1>1, BeforeTypes DEF DONE
<1>4. SentBy(r) = Before(r, DONE) + 0 /\ TakenOf(r) = Before(r, DONE)
  BY <1>2 DEF SentBy, TakenOf
<1>5. chan[r] \in Seq(Messages) /\ SentBy(r) = TakenOf(r) + Len(chan[r])
  BY DEF TypeOK, ChanInv
<1>6. Len(chan[r]) = 0
  BY <1>3, <1>4, <1>5
<1>. QED BY <1>5, <1>6, EmptySeq

\* No message is left in a channel when all ranks have returned (main.c:137-230).
THEOREM ChannelsDrain == Spec => []NothingLeft
BY NothingIsLeft, Inductive, PTL

LEMMA AllGathered == IInv => GatheredOnce
<1> SUFFICES ASSUME IInv, NEW p \in EventPhases, phase[MASTER] > p
             PROVE  /\ \A r \in Senders : \A i \in DOMAIN list[r][p] : Times(p, r, list[r][p][i].id) = 1
                    /\ \A i \in DOMAIN list[MASTER][p] :
                         LET e == list[MASTER][p][i] IN
                         e.proc # MASTER => \E j \in DOMAIN list[e.proc][p] : list[e.proc][p][j].id = e.id
  BY DEF GatheredOnce
<1> USE DEF IInv
<1>1. \A r \in Ranks : DOMAIN list[r][p] = 1 .. Count(r, p)
  BY Counts DEF Count
<1>2. MASTER \in Ranks /\ \A r \in Senders : r \in Ranks /\ r # MASTER
  BY RankTypes
<1>3. \A r \in Senders : Taken(r, p) = Count(r, p)
  BY DEF Taken, Count
<1>4. ASSUME NEW r \in Senders, NEW i \in DOMAIN list[r][p]
      PROVE  Times(p, r, list[r][p][i].id) = 1
  <2> DEFINE id == list[r][p][i].id
             places == {j \in DOMAIN list[MASTER][p] :
                          list[MASTER][p][j].proc = r /\ list[MASTER][p][j].id = id}
  <2>1. i \in 1 .. Taken(r, p) /\ i \in 1 .. Count(r, p)
    BY <1>1, <1>2, <1>3, <1>4
  <2>2. PICK j \in 1 .. Count(MASTER, p) : Key(list[MASTER][p][j]) = Key(list[r][p][i])
    BY <2>1 DEF HaveInv, NoneLost
  <2>3. list[r][p][i].proc = r
    BY <2>1 DEF MadeInv
  <2>4. j \in places
    BY <1>1, <1>2, <2>2, <2>3 DEF Key
  <2>5. ASSUME NEW k \in places
        PROVE  k = j
    <3>1. k \in 1 .. Count(MASTER, p) /\ Key(list[MASTER][p][k]) = Key(list[MASTER][p][j])
      BY <1>1, <1>2, <2>4, <2>5 DEF Key
    <3>. QED BY <3>1 DEF HaveInv, NoneTwice
  <2>6. places = {j}
    BY <2>4, <2>5
  <2>. QED BY <2>6, FS_Singleton DEF Times
<1>5. ASSUME NEW i \in DOMAIN list[MASTER][p], list[MASTER][p][i].proc # MASTER
      PROVE  \E j \in DOMAIN list[list[MASTER][p][i].proc][p] :
               list[list[MASTER][p][i].proc][p][j].id = list[MASTER][p][i].id
  <2>1. i \in 1 .. Count(MASTER, p) /\ list[MASTER][p][i] \in Events
    BY <1>1, <1>2, <1>5, Counts
  <2>2. PICK r \in Senders : r = list[MASTER][p][i].proc
    BY <1>5, <2>1 DEF Events, Senders
  <2>3. PICK j \in 1 .. Taken(r, p) : j <= Count(r, p) /\ list[r][p][j].id = list[MASTER][p][i].id
    BY <2>1, <2>2 DEF HaveInv, NoneInvented
  <2>. QED BY <1>1, <1>2, <1>3, <2>2, <2>3
<1>. QED BY <1>4, <1>5

\* After a gather function the master has every event of every rank once and no other
\* (main.c:149-164, 183-199), for any number of ranks and events.
THEOREM GathersOnce == Spec => []GatheredOnce
BY AllGathered, Inductive, PTL

-------------------------------------------------------------------------------
(* Collection.                                                                  *)

LEMMA RestOfSender ==
  ASSUME TypeOK, NEW r \in Ranks, NEW p \in EventPhases
  PROVE  /\ Taken(r, p) = Count(r, p) => Rest(r, p) = << >>
         /\ \A n \in Nat : Taken(r, p) = n /\ n < Count(r, p) =>
              /\ Rest(r, p) # << >>
              /\ Head(Rest(r, p)) = Key(list[r][p][n + 1])
              /\ Tail(Rest(r, p)) = SubSeq(Keys(list[r][p]), n + 2, Count(r, p))
<1> DEFINE s == list[r][p]
           K == {Key(e) : e \in Events}
<1>1. s \in Seq(Events) /\ Count(r, p) \in Nat /\ Len(s) = Count(r, p)
  BY Counts DEF Count
<1>2. Keys(s) \in [1 .. Count(r, p) -> K]
  <2>1. DOMAIN s = 1 .. Count(r, p) /\ \A i \in 1 .. Count(r, p) : s[i] \in Events
    BY <1>1
  <2>. QED BY <2>1 DEF Keys
<1> HIDE DEF K
<1>3. Keys(s) \in Seq(K) /\ Len(Keys(s)) = Count(r, p)
  BY <1>1, <1>2
<1>4. \A i \in 1 .. Count(r, p) : Keys(s)[i] = Key(s[i])
  BY <1>1 DEF Keys
<1>5. Rest(r, p) = SubSeq(Keys(s), Taken(r, p) + 1, Count(r, p))
  BY <1>1 DEF Rest
<1> HIDE DEF s
<1>6. ASSUME Taken(r, p) = Count(r, p)
      PROVE  Rest(r, p) = << >>
  BY <1>1, <1>5, <1>6, SubSeqEmpty
<1>7. ASSUME NEW n \in Nat, Taken(r, p) = n, n < Count(r, p)
      PROVE  /\ Rest(r, p) # << >>
             /\ Head(Rest(r, p)) = Key(s[n + 1])
             /\ Tail(Rest(r, p)) = SubSeq(Keys(s), n + 2, Count(r, p))
  <2>1. n + 1 \in 1 .. Len(Keys(s)) /\ Count(r, p) \in n + 1 .. Len(Keys(s))
    BY <1>1, <1>3, <1>7
  <2>2. /\ Head(SubSeq(Keys(s), n + 1, Count(r, p))) = Keys(s)[n + 1]
        /\ Tail(SubSeq(Keys(s), n + 1, Count(r, p))) = SubSeq(Keys(s), (n + 1) + 1, Count(r, p))
    BY <1>3, <2>1, HeadTailOfSubSeq
  <2>3. Len(SubSeq(Keys(s), n + 1, Count(r, p))) = Count(r, p) - (n + 1) + 1
    <3>1. \A i \in n + 1 .. Count(r, p) : Keys(s)[i] \in K
      BY <1>1, <1>2
    <3>. QED BY <1>1, <1>7, <3>1, SubSeqProperties
  <2>4. Rest(r, p) # << >>
    <3>1. Len(Rest(r, p)) = Count(r, p) - (n + 1) + 1
      BY <1>5, <1>7, <2>3
    <3>2. Len(Rest(r, p)) # 0
      BY <1>1, <1>7, <3>1
    <3>. QED BY <3>2
  <2>5. (n + 1) + 1 = n + 2 /\ n + 1 \in 1 .. Count(r, p)
    BY <1>1, <1>7
  <2>. QED BY <1>4, <1>5, <1>7, <2>2, <2>4, <2>5
<1>. QED BY <1>6, <1>7 DEF s

LEMMA RestFrame ==
  ASSUME NEW r, NEW p, list'[r] = list[r], Taken(r, p)' = Taken(r, p)
  PROVE  Rest(r, p)' = Rest(r, p)
BY DEF Rest, Keys, Key

LEMMA NoRankHasNone ==
  ASSUME TypeOK, NEW r \in Ranks
  PROVE  stats[r] # [succeed |-> -1, fail |-> -1]
<1>1. stats[r].succeed \in Nat
  BY DEF TypeOK
<1>2. -1 \notin Nat
  OBVIOUS
<1>3. [succeed |-> -1, fail |-> -1].succeed = -1
  OBVIOUS
<1>. QED BY <1>1, <1>2, <1>3

LEMMA HasGrows ==
  ASSUME IInv, NEW p \in EventPhases, NEW e \in Events,
         list' = [list EXCEPT ![MASTER][p] = << e >> \o @]
  PROVE  Has(p)' = Has(p) \cup {Key(e)} /\ \A k \in EventPhases \ {p} : Has(k)' = Has(k)
<1> USE DEF IInv
<1> DEFINE n == Count(MASTER, p)
<1>1. /\ list' \in [Ranks -> [EventPhases -> Seq(Events)]]
      /\ \A k \in EventPhases \ {p} : list'[MASTER][k] = list[MASTER][k]
      /\ Count(MASTER, p)' = n + 1
      /\ list'[MASTER][p][1] = e
      /\ \A i \in 1 .. n : list'[MASTER][p][i + 1] = list[MASTER][p][i]
  BY ListGrows
<1>2. MASTER \in Ranks /\ n \in Nat
  BY RankTypes, Counts
<1>3. DOMAIN list[MASTER][p] = 1 .. n
  BY <1>2, Counts DEF Count
<1>4. DOMAIN list'[MASTER][p] = 1 .. n + 1
  <2>1. list'[MASTER][p] \in Seq(Events) /\ Len(list'[MASTER][p]) = n + 1
    BY <1>1, <1>2 DEF Count
  <2>. QED BY <2>1
<1>5. Has(p) = {Key(list[MASTER][p][i]) : i \in 1 .. n}
  BY <1>3 DEF Has
<1>6. Has(p)' = {Key(list'[MASTER][p][i]) : i \in 1 .. n + 1}
  BY <1>4 DEF Has, Key
<1> HIDE DEF n
<1>7. ASSUME NEW i \in 1 .. n + 1
      PROVE  Key(list'[MASTER][p][i]) \in {Key(list[MASTER][p][j]) : j \in 1 .. n} \cup {Key(e)}
  <2>1. CASE i = 1
    BY <1>1, <2>1
  <2>2. CASE i # 1
    <3>1. i - 1 \in 1 .. n /\ (i - 1) + 1 = i
      BY <1>2, <1>7, <2>2
    <3>2. list'[MASTER][p][i] = list[MASTER][p][i - 1]
      BY <1>1, <3>1
    <3>. QED BY <3>1, <3>2
  <2>. QED BY <2>1, <2>2
<1>8. ASSUME NEW j \in 1 .. n
      PROVE  Key(list[MASTER][p][j]) \in {Key(list'[MASTER][p][i]) : i \in 1 .. n + 1}
  <2>1. j + 1 \in 1 .. n + 1
    BY <1>2
  <2>2. list'[MASTER][p][j + 1] = list[MASTER][p][j]
    BY <1>1
  <2>. QED BY <2>1, <2>2
<1>9. Key(e) \in {Key(list'[MASTER][p][i]) : i \in 1 .. n + 1}
  <2>1. 1 \in 1 .. n + 1
    BY <1>2
  <2>. QED BY <1>1, <2>1
<1>10. Has(p)' = Has(p) \cup {Key(e)}
  BY <1>5, <1>6, <1>7, <1>8, <1>9
<1>11. \A k \in EventPhases \ {p} : Has(k)' = Has(k)
  BY <1>1 DEF Has, Key
<1>. QED BY <1>10, <1>11

\* A received event is one GiveEvent.
LEMMA EventIsGiven ==
  ASSUME IInv, RecvEvent
  PROVE  Abstract!Give
<1> USE DEF IInv
<1>1. /\ from \in Senders /\ phase[MASTER] \in EventPhases
      /\ got + 1 \in 1 .. Count(from, phase[MASTER])
      /\ list[from][phase[MASTER]][got + 1] \in Events
  BY NextEvent
<1>2. got \in Nat
  BY MasterTypes DEF RecvEvent
<1>3. PICK p \in EventPhases, s \in Senders, n \in Nat : p = phase[MASTER] /\ s = from /\ n = got
  BY <1>1, <1>2
<1> DEFINE x == list[s][p][n + 1]
<1>4. PICK e \in Received(p, x) : list' = [list EXCEPT ![MASTER][p] = << e >> \o @]
  BY <1>3, NextEvent
<1>5. e \in Events /\ Key(e) = Key(x)
  BY <1>1, <1>3, <1>4, EventsReceived
<1>6. /\ Taken(s, p) = n /\ n < Count(s, p)
      /\ \A r \in Senders : \A k \in EventPhases :
           Taken(r, k)' = IF r = s /\ k = p THEN n + 1 ELSE Taken(r, k)
  <2>1. Taken(s, p) = n /\ n + 1 \in 1 .. Count(s, p)
    BY <1>1, <1>3, TakenByEvent
  <2>2. \A r \in Senders : \A k \in EventPhases :
          Taken(r, k)' = IF r = s /\ k = p THEN n + 1 ELSE Taken(r, k)
    BY <1>3, TakenByEvent
  <2>3. Count(s, p) \in Nat
    BY RankTypes, Counts
  <2>. QED BY <2>1, <2>2, <2>3
<1>7. \A r \in Senders : r \in Ranks /\ r \in Int
  BY RankTypes
<1>8. \A r \in Senders : list'[r] = list[r] /\ stats'[r] = stats[r]
  BY SendersKept DEF Next, MasterStep
<1>9. /\ Rest(s, p) # << >>
      /\ Head(Rest(s, p)) = Key(x)
      /\ Tail(Rest(s, p)) = SubSeq(Keys(list[s][p]), n + 2, Count(s, p))
  BY <1>6, <1>7, RestOfSender
<1>10. Rest(s, p)' = Tail(Rest(s, p))
  <2>1. Taken(s, p)' + 1 = n + 2
    BY <1>6
  <2>2. Rest(s, p)' = SubSeq(Keys(list[s][p]), Taken(s, p)' + 1, Len(list[s][p]))
    BY <1>8 DEF Rest, Keys, Key
  <2>. QED BY <1>9, <2>1, <2>2 DEF Count
<1>11. \A r \in Senders : \A k \in EventPhases : ~ (r = s /\ k = p) => Rest(r, k)' = Rest(r, k)
  BY <1>6, <1>8, RestFrame
<1>12. Key(x) \notin Has(p)
  BY <1>3, <1>6, NotYetTaken
<1>13. Has(p)' = Has(p) \cup {Key(x)} /\ \A k \in EventPhases \ {p} : Has(k)' = Has(k)
  BY <1>4, <1>5, HasGrows
<1>14. Abstract!Turn(s, p)
  <2>1. ASSUME NEW j \in EventPhases, j < p, NEW q \in Senders
        PROVE  Rest(q, j) = << >>
    <3>1. Taken(q, j) = Count(q, j)
      BY <1>3, <2>1 DEF Taken, Count
    <3>. QED BY <1>7, <3>1, RestOfSender
  <2>2. ASSUME NEW q \in Senders, q < s
        PROVE  Rest(q, p) = << >>
    <3>1. Taken(q, p) = Count(q, p)
      BY <1>3, <1>7, <2>2 DEF Taken, Count
    <3>. QED BY <1>7, <3>1, RestOfSender
  <2>. QED BY <2>1, <2>2 DEF Abstract!Turn
<1>15. \A r \in Senders : Counted(r)' <=> Counted(r)
  BY DEF RecvEvent, Counted
<1>16. stats' = stats
  BY DEF RecvEvent
<1> HIDE DEF x
<1>17. Abstract!GiveEvent(s, p)
  BY <1>9, <1>10, <1>11, <1>12, <1>13, <1>14, <1>15, <1>16 DEF Abstract!GiveEvent
<1>. QED BY <1>17 DEF Abstract!Give

\* The counters received from a rank are one GiveCounters.
LEMMA FailIsGiven ==
  ASSUME IInv, RecvFail
  PROVE  Abstract!Give
<1> USE DEF IInv
<1>1. /\ phase[MASTER] = STATS /\ from < Size /\ sSucceed # None
      /\ UNCHANGED << list, phase >>
  BY DEF RecvFail
<1>2. /\ from \in Senders /\ from' = from + 1
      /\ stats' = [stats EXCEPT ![MASTER] = [succeed |-> @.succeed + stats[from].succeed,
                                             fail    |-> @.fail + stats[from].fail]]
  BY FailStep
<1>3. PICK s \in Senders : s = from
  BY <1>2
<1>4. \A r \in Senders : r \in Ranks /\ r \in Int /\ r # MASTER
  BY RankTypes
<1>5. \A r \in Senders : Counted(r) <=> r < s
  BY <1>1, <1>3, <1>4 DEF Counted, STATS, DONE
<1>6. \A r \in Senders : Counted(r)' <=> r <= s
  BY <1>1, <1>2, <1>3, <1>4 DEF Counted, STATS, DONE
<1>7. \A q \in Senders : \A k \in EventPhases : Rest(q, k) = << >>
  <2> SUFFICES ASSUME NEW q \in Senders, NEW k \in EventPhases
               PROVE  Rest(q, k) = << >>
    OBVIOUS
  <2>1. Taken(q, k) = Count(q, k)
    BY <1>1 DEF Taken, Count, EventPhases, STATS
  <2>. QED BY <1>4, <2>1, RestOfSender
<1>8. /\ \A q \in Senders : \A k \in EventPhases : Rest(q, k)' = Rest(q, k)
      /\ \A k \in EventPhases : Has(k)' = Has(k)
  <2>1. \A q \in Senders : \A k \in EventPhases : Taken(q, k)' = Taken(q, k)
    <3>1. ~ RecvEvent
      BY <1>1 DEF RecvEvent, EventPhases, STATS
    <3>. QED BY <3>1, TakenOnlyByEvent DEF Next, MasterStep
  <2>2. \A q \in Senders : \A k \in EventPhases : Rest(q, k)' = Rest(q, k)
    BY <1>1, <2>1, RestFrame
  <2>3. \A k \in EventPhases : Has(k)' = Has(k)
    BY <1>1 DEF Has, Key
  <2>. QED BY <2>2, <2>3
<1>9. stats[s] # [succeed |-> -1, fail |-> -1]
  BY <1>4, NoRankHasNone
<1>10. stats'[MASTER] = [succeed |-> stats[MASTER].succeed + stats[s].succeed,
                         fail    |-> stats[MASTER].fail + stats[s].fail]
  BY <1>2, <1>3, RankTypes DEF TypeOK
<1>11. \A r \in Senders : stats'[r] = stats[r]
  BY SendersKept DEF Next, MasterStep
<1> DEFINE none == [succeed |-> -1, fail |-> -1]
           owed == [r \in Senders |-> IF Counted(r) THEN none ELSE stats[r]]
<1>12. owed[s] = stats[s] /\ \A q \in Senders : q < s => owed[q] = none
  BY <1>4, <1>5
<1>13. owed' = [owed EXCEPT ![s] = none]
  <2>1. \A r \in Senders : (IF Counted(r)' THEN none ELSE stats'[r]) = IF r = s THEN none ELSE owed[r]
    BY <1>4, <1>5, <1>6, <1>11
  <2>. QED BY <2>1
<1>14. Abstract!GiveCounters(s)
  BY <1>7, <1>8, <1>9, <1>10, <1>12, <1>13 DEF Abstract!GiveCounters, Abstract!None
<1>. QED BY <1>14 DEF Abstract!Give

\* No other step shows.
LEMMA OthersShowNothing ==
  ASSUME IInv, [Next]_vars, ~ RecvEvent, ~ RecvFail
  PROVE  UNCHANGED Abstract!cvars
<1> USE DEF IInv
<1>1. list' = list /\ \A r \in Senders : \A p \in EventPhases : Taken(r, p)' = Taken(r, p)
  BY TakenOnlyByEvent
<1>2. stats' = stats
  BY DEF Next, MasterStep, RecvNum, NextSender, RecvSucceed, MasterReturns, SenderStep, SendNum,
         SendEvent, SendStats, SenderReturns, Send, Terminated, vars
<1>3. \A r \in Senders : Counted(r)' <=> Counted(r)
  <2>1. CASE MasterReturns
    <3>1. /\ from = Size /\ from' = 1 /\ phase[MASTER] \in 1 .. STATS
          /\ phase'[MASTER] = phase[MASTER] + 1
      BY <2>1, RankTypes DEF MasterReturns, TypeOK, STATS, DONE
    <3>2. \A r \in Senders : r >= 1 /\ r < Size /\ r \in Int
      BY RankTypes
    <3>. QED BY <3>1, <3>2 DEF Counted, STATS, DONE
  <2>2. CASE NextSender
    BY <2>2 DEF NextSender, Counted, EventPhases, STATS
  <2>3. CASE RecvNum \/ RecvSucceed \/ Terminated \/ UNCHANGED vars
    BY <2>3 DEF RecvNum, RecvSucceed, Terminated, vars, Counted
  <2>4. CASE \E q \in Senders : SenderStep(q)
    <3>1. PICK q \in Senders : SenderStep(q)
      BY <2>4
    <3>2. UNCHANGED from /\ phase'[MASTER] = phase[MASTER]
      BY <3>1, RankTypes DEF SenderStep, SendNum, SendEvent, SendStats, SenderReturns, Send,
                             masterVars, TypeOK
    <3>. QED BY <3>2 DEF Counted
  <2>. QED BY <2>1, <2>2, <2>3, <2>4 DEF Next, MasterStep
<1>4. \A r \in Senders : \A p \in EventPhases : Rest(r, p)' = Rest(r, p)
  BY <1>1, RestFrame
<1>5. \A p \in EventPhases : Has(p)' = Has(p)
  BY <1>1 DEF Has, Key
<1>. QED BY <1>2, <1>3, <1>4, <1>5 DEF Abstract!cvars

LEMMA StepGives == IInv /\ [Next]_vars => [Abstract!Give]_(Abstract!cvars)
BY EventIsGiven, FailIsGiven, OthersShowNothing

\* The gather functions implement Collection, step by step (main.c:137-230): whatever the
\* ranks and MPI do, the master's lists and counters only ever change by the next event or
\* by the counters of the next rank.
THEOREM ImplementsCollection == Spec => Collects
BY StepGives, Inductive, PTL DEF Spec, Collects, Abstract!Spec
===============================================================================
