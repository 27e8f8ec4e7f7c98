--------------------------- MODULE RunStreamProofs ---------------------------
(***************************************************************************)
(* Proofs about RunStream for any number of runs, any page size and any    *)
(* number of lost connections.                                             *)
(***************************************************************************)
EXTENDS RunStream, TLAPS

-----------------------------------------------------------------------------
(* Consecutive numbers *)

(* s is a + 1, a + 2, ... *)
Counts(s, a) == \A i \in 1..Len(s) : s[i] = a + i

(* Writing the next number behind consecutive ones. *)
LEMMA CountsAppend ==
    ASSUME NEW s \in Seq(Nat), NEW a \in Nat, Counts(s, a)
    PROVE  /\ Append(s, a + Len(s) + 1) \in Seq(Nat)
           /\ Len(Append(s, a + Len(s) + 1)) = Len(s) + 1
           /\ Counts(Append(s, a + Len(s) + 1), a)
<1>1. Len(s) \in Nat
  OBVIOUS
<1> QED
  BY <1>1 DEF Counts

(* Taking the first of consecutive numbers. *)
LEMMA CountsTail ==
    ASSUME NEW s \in Seq(Nat), NEW a \in Nat, Counts(s, a), s # <<>>
    PROVE  /\ Head(s) = a + 1
           /\ Tail(s) \in Seq(Nat)
           /\ Len(s) \in Nat /\ Len(s) >= 1
           /\ Len(Tail(s)) = Len(s) - 1
           /\ Counts(Tail(s), a + 1)
<1>1. Len(s) \in Nat /\ Len(s) >= 1
  OBVIOUS
<1>2. Head(s) = s[1] /\ Tail(s) \in Seq(Nat) /\ Len(Tail(s)) = Len(s) - 1
  BY <1>1
<1>3. \A i \in 1..Len(Tail(s)) : Tail(s)[i] = s[i + 1]
  BY <1>1, <1>2
<1> QED
  BY <1>1, <1>2, <1>3 DEF Counts

(* Consecutive stretches that continue one another. *)
LEMMA CountsConcat ==
    ASSUME NEW s \in Seq(Nat), NEW t \in Seq(Nat), Counts(s, 0), Counts(t, Len(s))
    PROVE  /\ s \o t \in Seq(Nat)
           /\ Len(s \o t) = Len(s) + Len(t)
           /\ Counts(s \o t, 0)
<1>1. /\ Len(s) \in Nat /\ Len(t) \in Nat
      /\ s \o t \in Seq(Nat)
      /\ Len(s \o t) = Len(s) + Len(t)
  OBVIOUS
<1>2. ASSUME NEW i \in 1..Len(s \o t) PROVE (s \o t)[i] = i
  <2>1. CASE i <= Len(s)
    <3>1. (s \o t)[i] = s[i] /\ i \in 1..Len(s)
      BY <1>1, <2>1
    <3> QED
      BY <3>1, <1>1 DEF Counts
  <2>2. CASE i > Len(s)
    <3>1. (s \o t)[i] = t[i - Len(s)] /\ i - Len(s) \in 1..Len(t)
      BY <1>1, <2>2
    <3> QED
      BY <3>1, <1>1 DEF Counts
  <2> QED
    BY <1>1, <2>1, <2>2
<1> QED
  BY <1>1, <1>2 DEF Counts

(* A page is the stretch behind the cursor, and a page that is not full    *)
(* reaches the end of the log.                                             *)
LEMMA PageFacts ==
    ASSUME NEW r \in Runs, NEW c \in Nat, Len(log[r]) \in Nat, c <= Len(log[r])
    PROVE  /\ PageAfter(r, c) \in Seq(Nat)
           /\ Len(PageAfter(r, c)) \in Nat
           /\ Counts(PageAfter(r, c), c)
           /\ c + Len(PageAfter(r, c)) <= Len(log[r])
           /\ Len(PageAfter(r, c)) < PageSize => c + Len(PageAfter(r, c)) = Len(log[r])
<1> DEFINE n == IF Len(log[r]) <= c THEN 0 ELSE Len(log[r]) - c
           m == IF n < PageSize THEN n ELSE PageSize
           s == [i \in 1..m |-> c + i]
<1>1. n \in Nat /\ n = Len(log[r]) - c
  OBVIOUS
<1>2. m \in Nat /\ m <= n /\ (m < PageSize => m = n)
  BY <1>1, StreamAssumption
<1> HIDE DEF n, m
<1>3. s \in Seq(Nat) /\ Len(s) = m
  BY <1>2
<1>4. PageAfter(r, c) = s
  BY DEF PageAfter, n, m
<1>5. Counts(s, c)
  BY <1>3, Zenon DEF Counts
<1> QED
  BY <1>1, <1>2, <1>3, <1>4, <1>5
-----------------------------------------------------------------------------
(* What the runs do to their rows *)

(* One row of the durable runs, in one step: its log stays or takes one    *)
(* more event, and a terminal row keeps its status and takes no further    *)
(* terminal event.                                                         *)
RowStep(r) ==
    \/ log'[r] = log[r] /\ (IsTerminal(status[r]) => status'[r] = status[r])
    \/ \E e \in EventKind :
          /\ log'[r] = Append(log[r], e)
          /\ IsTerminal(status[r]) => status'[r] = status[r] /\ ~IsTerminal(e)

(* Types are kept by the durable runs. *)
LEMMA DurableTypes ==
    Durable!DurableTypeOK /\ Durable!Next => Durable!DurableTypeOK'
<1> SUFFICES ASSUME Durable!DurableTypeOK, Durable!Next
             PROVE  Durable!DurableTypeOK'
  OBVIOUS
<1> USE DEF Durable!DurableTypeOK, Durable!RunStatus, Durable!ActiveStatus,
            Durable!TerminalStatus, Durable!EventKind
<1>1. ASSUME NEW r \in Runs, Durable!Accept(r) PROVE Durable!DurableTypeOK'
  BY <1>1 DEF Durable!Accept, Durable!SetStatus
<1>2. ASSUME NEW r \in Runs, Durable!Claim(r) PROVE Durable!DurableTypeOK'
  BY <1>2 DEF Durable!Claim, Durable!SetStatus
<1>3. ASSUME NEW r \in Runs, Durable!BeginProvider(r) PROVE Durable!DurableTypeOK'
  BY <1>3 DEF Durable!BeginProvider
<1>4. ASSUME NEW r \in Runs, Durable!Cancel(r) PROVE Durable!DurableTypeOK'
  BY <1>4 DEF Durable!Cancel, Durable!SetStatus
<1>5. ASSUME NEW r \in Runs, Durable!AppendEvent(r) PROVE Durable!DurableTypeOK'
  BY <1>5 DEF Durable!AppendEvent
<1>6. ASSUME NEW r \in Runs, Durable!Terminate(r) PROVE Durable!DurableTypeOK'
  BY <1>6 DEF Durable!Terminate, Durable!SetStatus
<1>7. ASSUME NEW S \in SUBSET Runs,
             Durable!Requeue(S) \/ Durable!Interrupt(S) \/ Durable!CloseCancel(S)
      PROVE  Durable!DurableTypeOK'
  BY <1>7 DEF Durable!Requeue, Durable!Interrupt, Durable!CloseCancel,
     Durable!SetStatus
<1> QED
  BY <1>1, <1>2, <1>3, <1>4, <1>5, <1>6, <1>7 DEF Durable!Next

(* Every step of the durable runs is a RowStep of every row. *)
LEMMA DurableRows ==
    ASSUME Durable!DurableTypeOK, Durable!Next, NEW q \in Runs
    PROVE  RowStep(q)
<1> USE DEF IsTerminal, TerminalStatus
<1>1. ASSUME NEW r \in Runs, Durable!Accept(r) \/ Durable!Claim(r) \/ Durable!Cancel(r)
      PROVE  RowStep(q)
  BY <1>1 DEF Durable!Accept, Durable!Claim, Durable!Cancel, Durable!SetStatus,
     RowStep
<1>2. ASSUME NEW r \in Runs, Durable!BeginProvider(r) PROVE RowStep(q)
  BY <1>2 DEF Durable!BeginProvider, RowStep
<1>3. ASSUME NEW r \in Runs, Durable!AppendEvent(r) PROVE RowStep(q)
  <2>1. PICK k \in {"progress", "end"} : log' = [log EXCEPT ![r] = Append(@, k)]
    BY <1>3, Zenon DEF Durable!AppendEvent
  <2>2. k \in EventKind /\ ~IsTerminal(k) /\ status' = status
    BY <1>3 DEF Durable!AppendEvent, EventKind
  <2>3. CASE q = r
    <3>1. log'[q] = Append(log[q], k)
      BY <2>1, <2>3 DEF Durable!DurableTypeOK
    <3> QED
      BY <2>2, <3>1 DEF RowStep
  <2>4. CASE q # r
    BY <2>1, <2>2, <2>4 DEF Durable!DurableTypeOK, RowStep
  <2> QED
    BY <2>3, <2>4
<1>4. ASSUME NEW r \in Runs, Durable!Terminate(r) PROVE RowStep(q)
  <2>1. PICK s \in TerminalStatus : /\ Durable!CanTransition(status[r], s)
                                    /\ Durable!SetStatus({r}, s)
                                    /\ log' = [log EXCEPT ![r] = Append(@, s)]
    BY <1>4, Zenon DEF Durable!Terminate, Durable!TerminalStatus
  <2>2. CASE q = r
    <3>1. log'[q] = Append(log[q], s) /\ s \in EventKind
      BY <2>1, <2>2 DEF Durable!DurableTypeOK, EventKind
    <3>2. ~IsTerminal(status[q])
      BY <2>1, <2>2 DEF Durable!CanTransition
    <3> QED
      BY <3>1, <3>2 DEF RowStep
  <2>3. CASE q # r
    BY <2>1, <2>3 DEF Durable!DurableTypeOK, Durable!SetStatus, RowStep
  <2> QED
    BY <2>2, <2>3
<1>5. ASSUME NEW S \in SUBSET Runs,
             Durable!Requeue(S) \/ Durable!Interrupt(S) \/ Durable!CloseCancel(S)
      PROVE  RowStep(q)
  BY <1>5 DEF Durable!Requeue, Durable!Interrupt, Durable!CloseCancel,
     Durable!SetStatus, RowStep
<1> QED
  BY <1>1, <1>2, <1>3, <1>4, <1>5 DEF Durable!Next

(* A row's log only grows. *)
LEMMA LogGrows ==
    ASSUME Durable!DurableTypeOK, NEW q \in Runs, RowStep(q)
    PROVE  Len(log[q]) \in Nat /\ Len(log'[q]) \in Nat /\ Len(log[q]) <= Len(log'[q])
<1>1. log[q] \in Seq(EventKind) /\ Len(log[q]) \in Nat
  BY DEF Durable!DurableTypeOK, EventKind, Durable!EventKind, TerminalStatus,
     Durable!TerminalStatus
<1>2. CASE log'[q] = log[q]
  BY <1>1, <1>2
<1>3. ASSUME NEW e \in EventKind, log'[q] = Append(log[q], e)
      PROVE  Len(log'[q]) = Len(log[q]) + 1
  BY <1>1, <1>3
<1> QED
  BY <1>1, <1>2, <1>3 DEF RowStep

-----------------------------------------------------------------------------
(* The inductive invariant *)

(* For one subscriber: what it has is numbered from 1, what is in flight   *)
(* continues it, the handler's cursor is behind the frames it wrote, and   *)
(* its page continues the cursor and is within the log.                    *)
PrefixOK(r) ==
    /\ lastEventId[r] = Len(received[r])
    /\ Counts(received[r], 0)
    /\ Counts(wire[r], lastEventId[r])
    /\ phase[r] = "off" => wire[r] = <<>>
    /\ phase[r] \notin {"write", "writeFinal"} => page[r] = <<>>
    /\ phase[r] # "off" => cursor[r] = lastEventId[r] + Len(wire[r])
    /\ Counts(page[r], cursor[r])
    /\ lastEventId[r] + Len(wire[r]) + Len(page[r]) <= Len(log[r])

(* For one subscriber: the final page is read of a terminal run, and what  *)
(* is behind a final page that is not full has no terminal event.          *)
FinalOK(r) ==
    /\ phase[r] \in {"final", "writeFinal", "done"} => IsTerminal(status[r])
    /\ (phase[r] \in {"writeFinal", "done"} /\ pageLen[r] < PageSize)
          => \A i \in 1..Len(log[r]) : IsTerminal(log[r][i]) => i <= cursor[r] + Len(page[r])

StreamInv == TypeOK /\ \A r \in Runs : PrefixOK(r) /\ FinalOK(r)

(* Everything the invariant says of one subscriber. *)
subscriberVars(r) ==
    <<status[r], log[r], phase[r], cursor[r], page[r], pageLen[r], wire[r],
      received[r], lastEventId[r]>>

(* A step that changes nothing of a subscriber keeps what is said of it. *)
LEMMA Untouched ==
    ASSUME NEW q \in Runs, PrefixOK(q), FinalOK(q), subscriberVars(q)' = subscriberVars(q)
    PROVE  PrefixOK(q)' /\ FinalOK(q)'
  BY Zenon DEF subscriberVars, PrefixOK, FinalOK

-----------------------------------------------------------------------------
(* Every step keeps the invariant *)

(* The runs move on under the subscribers: what was read stays in the log, *)
(* and a terminal run gets no second terminal event.                       *)
LEMMA RunStepKeeps == StreamInv /\ RunStep => StreamInv'
<1> SUFFICES ASSUME StreamInv, RunStep PROVE StreamInv'
  OBVIOUS
<1>1. TypeOK /\ Durable!DurableTypeOK /\ Durable!Next
  BY DEF StreamInv, TypeOK, RunStep
<1>2. UNCHANGED <<phase, cursor, page, pageLen, wire, received, lastEventId, breaks>>
  BY DEF RunStep, serverVars, clientVars
<1>3. TypeOK'
  BY <1>1, <1>2, DurableTypes DEF TypeOK
<1>4. ASSUME NEW q \in Runs PROVE PrefixOK(q)' /\ FinalOK(q)'
  <2>1. PrefixOK(q) /\ FinalOK(q) /\ RowStep(q)
    BY <1>1, DurableRows DEF StreamInv
  <2>2. Len(log[q]) \in Nat /\ Len(log'[q]) \in Nat /\ Len(log[q]) <= Len(log'[q])
    BY <1>1, <2>1, LogGrows
  <2>3. /\ lastEventId[q] \in Nat /\ cursor[q] \in Nat
        /\ Len(wire[q]) \in Nat /\ Len(page[q]) \in Nat
    BY <1>1 DEF TypeOK
  <2>4. PrefixOK(q)'
    <3>1. lastEventId[q] + Len(wire[q]) + Len(page[q]) <= Len(log[q])
      BY <2>1, Zenon DEF PrefixOK
    <3>3. UNCHANGED (lastEventId[q] + Len(wire[q]) + Len(page[q]))
      BY <1>2
    <3>4. lastEventId[q] + Len(wire[q]) + Len(page[q]) \in Nat
      BY <2>3
    <3>2. (lastEventId[q] + Len(wire[q]) + Len(page[q]) <= Len(log[q]))'
      BY <2>2, <3>1, <3>3, <3>4
    <3> QED
      BY <1>2, <2>1, <3>2, Zenon DEF PrefixOK
  <2>5. CASE ~IsTerminal(status[q])
    BY <1>2, <2>1, <2>4, <2>5 DEF FinalOK
  <2>6. CASE IsTerminal(status[q])
    <3>1. status'[q] = status[q]
      BY <2>1, <2>6 DEF RowStep
    <3>2. ASSUME NEW i \in 1..Len(log'[q]), IsTerminal(log'[q][i])
          PROVE  i \in 1..Len(log[q]) /\ IsTerminal(log[q][i])
      <4>1. CASE log'[q] = log[q]
        BY <3>2, <4>1
      <4>2. ASSUME NEW e \in EventKind, log'[q] = Append(log[q], e), ~IsTerminal(e)
            PROVE  i \in 1..Len(log[q]) /\ IsTerminal(log[q][i])
        <5>1. log[q] \in Seq(EventKind)
          BY <1>1 DEF Durable!DurableTypeOK, EventKind, Durable!EventKind,
                      TerminalStatus, Durable!TerminalStatus
        <5>2. /\ Len(log'[q]) = Len(log[q]) + 1
              /\ log'[q][Len(log[q]) + 1] = e
              /\ \A j \in 1..Len(log[q]) : log'[q][j] = log[q][j]
          BY <4>2, <5>1
        <5> QED
          BY <2>2, <3>2, <4>2, <5>2
      <4> QED
        BY <2>1, <2>6, <4>1, <4>2 DEF RowStep
    <3> QED
      BY <1>2, <2>1, <2>4, <3>1, <3>2 DEF FinalOK
  <2> QED
    BY <2>4, <2>5, <2>6
<1> QED
  BY <1>3, <1>4 DEF StreamInv

(* The types of what belongs to one subscriber, in the form the arithmetic *)
(* below needs.                                                            *)
Typed(r) ==
    /\ lastEventId[r] \in Nat /\ cursor[r] \in Nat /\ pageLen[r] \in Nat
    /\ wire[r] \in Seq(Nat) /\ page[r] \in Seq(Nat) /\ received[r] \in Seq(Nat)
    /\ Len(wire[r]) \in Nat /\ Len(page[r]) \in Nat /\ Len(received[r]) \in Nat
    /\ Len(log[r]) \in Nat
    /\ PageSize \in Nat
    /\ Len(<<>>) = 0 /\ (\A a : Counts(<<>>, a)) /\ <<>> \in Seq(Nat)

(* What the arithmetic of one subscriber needs of its types. *)
LEMMA SubscriberTyped == ASSUME TypeOK, NEW r \in Runs PROVE Typed(r)
<1>1. PageSize \in Nat /\ Len(<<>>) = 0 /\ (\A a : Counts(<<>>, a)) /\ <<>> \in Seq(Nat)
  BY StreamAssumption DEF Counts
<1>2. log[r] \in Seq(Durable!EventKind)
  BY DEF TypeOK, Durable!DurableTypeOK
<1> QED
  BY <1>1, <1>2 DEF TypeOK, Typed

(* Every step of handlers, subscribers and failures keeps the invariant. *)
LEMMA StreamStep == StreamInv /\ [Next]_vars => StreamInv'
<1> SUFFICES ASSUME StreamInv, [Next]_vars PROVE StreamInv'
  OBVIOUS
<1>1. ASSUME NEW r \in Runs, Connect(r) PROVE StreamInv'
  <2>1. TypeOK /\ PrefixOK(r) /\ FinalOK(r) /\ Typed(r)
    BY SubscriberTyped DEF StreamInv
  <2>2. /\ phase'[r] = "page"
        /\ cursor'[r] = lastEventId[r]
        /\ UNCHANGED <<status, log, page, pageLen, wire, received, lastEventId>>
    BY <1>1, <2>1, SMTT(30) DEF Connect, Goto, TypeOK, durableVars, serverVars,
       clientVars
  <2>3. \A q \in Runs \ {r} : subscriberVars(q)' = subscriberVars(q)
    BY <1>1, <2>1, <2>2 DEF Connect, Goto, TypeOK, subscriberVars
  <2>4. TypeOK'
    BY <1>1, <2>1, <2>2, SMTT(30) DEF Connect, Goto, SpendBreak, TypeOK, Typed,
       Serving, Returned, durableVars, serverVars, clientVars,
       Durable!DurableTypeOK
  <2>5. PrefixOK(r)'
    <3>1. lastEventId[r] + Len(wire[r]) + Len(page[r]) <= Len(log[r])
      BY <2>1, Zenon DEF PrefixOK
    <3>2. (lastEventId[r] + Len(wire[r]) + Len(page[r]) <= Len(log[r]))'
      BY <2>2, <3>1
    <3>3. wire[r] = <<>> /\ page[r] = <<>> /\ phase[r] = "off"
      BY <1>1, <2>1 DEF Connect, PrefixOK
    <3>4. (cursor[r] = lastEventId[r] + Len(wire[r]))'
      BY <2>1, <2>2, <3>3 DEF Typed
    <3> QED
      BY <2>1, <2>2, <3>2, <3>3, <3>4, Zenon DEF PrefixOK, Typed
  <2>6. FinalOK(r)'
    BY <1>1, <2>1, <2>2 DEF Connect, PrefixOK, FinalOK, Typed, Serving, Returned
  <2> QED
    BY <2>1, <2>3, <2>4, <2>5, <2>6, Untouched DEF StreamInv
<1>2. ASSUME NEW r \in Runs, ListPage(r) PROVE StreamInv'
  <2>1. TypeOK /\ PrefixOK(r) /\ FinalOK(r) /\ Typed(r)
    BY SubscriberTyped DEF StreamInv
  <2>2. /\ phase'[r] = "write"
        /\ page'[r] = PageAfter(r, cursor[r])
        /\ pageLen'[r] = Len(PageAfter(r, cursor[r]))
        /\ UNCHANGED <<status, log, cursor, wire, received, lastEventId>>
    BY <1>2, <2>1, SMTT(30) DEF ListPage, ReadPage, Goto, TypeOK, durableVars,
       serverVars, clientVars
  <2>3. \A q \in Runs \ {r} : subscriberVars(q)' = subscriberVars(q)
    BY <1>2, <2>1, <2>2 DEF ListPage, ReadPage, Goto, TypeOK, subscriberVars
  <2>a. /\ lastEventId[r] + Len(wire[r]) + Len(page[r]) <= Len(log[r])
        /\ cursor[r] = lastEventId[r] + Len(wire[r])
    BY <1>2, <2>1, Zenon DEF PrefixOK, ListPage
  <2>b. cursor[r] <= Len(log[r])
    BY <2>1, <2>a DEF Typed
  <2>c. /\ PageAfter(r, cursor[r]) \in Seq(Nat)
        /\ Len(PageAfter(r, cursor[r])) \in Nat
        /\ Counts(PageAfter(r, cursor[r]), cursor[r])
        /\ cursor[r] + Len(PageAfter(r, cursor[r])) <= Len(log[r])
        /\ Len(PageAfter(r, cursor[r])) < PageSize
              => cursor[r] + Len(PageAfter(r, cursor[r])) = Len(log[r])
    <3>1. cursor[r] \in Nat /\ Len(log[r]) \in Nat
      BY <2>1 DEF Typed
    <3> QED
      BY <2>b, <3>1, PageFacts, SMTT(30)
  <2>4. TypeOK'
    BY <1>2, <2>1, <2>2, <2>c, SMTT(30) DEF ListPage, ReadPage, Goto, SpendBreak,
       TypeOK, Typed, Serving, Returned, durableVars, serverVars, clientVars,
       Durable!DurableTypeOK
  <2>5. PrefixOK(r)'
    <3>1. (lastEventId[r] + Len(wire[r]) + Len(page[r]) <= Len(log[r]))'
      BY <2>2, <2>a, <2>c
    <3> QED
      BY <1>2, <2>1, <2>2, <2>a, <2>c, <3>1, Zenon DEF ListPage, PrefixOK
  <2>6. FinalOK(r)'
    BY <1>2, <2>1, <2>2, <2>c DEF ListPage, FinalOK, Typed
  <2> QED
    BY <2>1, <2>3, <2>4, <2>5, <2>6, Untouched DEF StreamInv
<1>3. ASSUME NEW r \in Runs, WriteFrame(r) PROVE StreamInv'
  <2>1. TypeOK /\ PrefixOK(r) /\ FinalOK(r) /\ Typed(r)
    BY SubscriberTyped DEF StreamInv
  <2>2. /\ wire'[r] = Append(wire[r], Head(page[r]))
        /\ cursor'[r] = Head(page[r])
        /\ page'[r] = Tail(page[r])
        /\ UNCHANGED <<status, log, phase, pageLen, received, lastEventId>>
    BY <1>3, <2>1, SMTT(30) DEF WriteFrame, Goto, TypeOK, durableVars,
       serverVars, clientVars
  <2>3. \A q \in Runs \ {r} : subscriberVars(q)' = subscriberVars(q)
    BY <1>3, <2>1, <2>2 DEF WriteFrame, Goto, TypeOK, subscriberVars
  <2>a. /\ cursor[r] = lastEventId[r] + Len(wire[r]) /\ page[r] # <<>> /\ phase[r] # "off"
        /\ Counts(wire[r], lastEventId[r]) /\ Counts(page[r], cursor[r])
    BY <1>3, <2>1, Zenon DEF PrefixOK, WriteFrame
  <2>b. /\ Head(page[r]) = cursor[r] + 1 /\ Tail(page[r]) \in Seq(Nat)
        /\ Len(Tail(page[r])) = Len(page[r]) - 1
        /\ Counts(Tail(page[r]), cursor[r] + 1)
    <3>1. page[r] \in Seq(Nat) /\ cursor[r] \in Nat
      BY <2>1 DEF Typed
    <3> QED
      BY <2>a, <3>1, CountsTail
  <2>c. Head(page[r]) = lastEventId[r] + Len(wire[r]) + 1
    BY <2>1, <2>a, <2>b DEF Typed
  <2>d. /\ Append(wire[r], Head(page[r])) \in Seq(Nat)
        /\ Len(Append(wire[r], Head(page[r]))) = Len(wire[r]) + 1
        /\ Counts(Append(wire[r], Head(page[r])), lastEventId[r])
    <3>1. wire[r] \in Seq(Nat) /\ lastEventId[r] \in Nat
      BY <2>1 DEF Typed
    <3> QED
      BY <2>a, <2>c, <3>1, CountsAppend
  <2>m. /\ lastEventId[r] \in Nat /\ cursor[r] \in Nat /\ Len(wire[r]) \in Nat
        /\ Len(page[r]) \in Nat /\ Len(log[r]) \in Nat
    BY <2>1 DEF Typed
  <2>v. lastEventId'[r] = lastEventId[r] /\ Len(wire'[r]) = Len(wire[r]) + 1
    BY <2>2, <2>d
  <2>w. Len(page'[r]) = Len(page[r]) - 1 /\ log' = log
    BY <2>2, <2>b
  <2>x. cursor'[r] = cursor[r] + 1
    BY <2>2, <2>b
  <2>4. TypeOK'
    <3>1. wire' \in [Runs -> Seq(Nat)]
      BY <1>3, <2>1, <2>d DEF WriteFrame, TypeOK
    <3>2. cursor' \in [Runs -> Nat]
      BY <1>3, <2>1, <2>b, <2>m DEF WriteFrame, TypeOK
    <3>3. page' \in [Runs -> Seq(Nat)]
      BY <1>3, <2>1, <2>b DEF WriteFrame, TypeOK
    <3> QED
      BY <1>3, <2>1, <3>1, <3>2, <3>3, SMTT(30)
         DEF WriteFrame, TypeOK, durableVars, clientVars, Durable!DurableTypeOK
  <2>5. PrefixOK(r)'
    <3>1. lastEventId[r] + Len(wire[r]) + Len(page[r]) <= Len(log[r])
      BY <2>1 DEF PrefixOK
    <3>2. lastEventId'[r] + Len(wire'[r]) = (lastEventId[r] + Len(wire[r])) + 1
      BY <2>m, <2>v, SMTT(30)
    <3>3. lastEventId[r] + Len(wire[r]) \in Nat
      BY <2>m
    <3>4. (lastEventId[r] + Len(wire[r]) + Len(page[r]) <= Len(log[r]))'
      BY <2>m, <2>w, <3>1, <3>2, <3>3, SMTT(30)
    <3>5. cursor'[r] = lastEventId'[r] + Len(wire'[r])
      BY <2>a, <2>x, <3>2
    <3> QED
      BY <1>3, <2>1, <2>2, <2>a, <2>b, <2>d, <2>x, <3>4, <3>5, Zenon DEF WriteFrame,
         PrefixOK
  <2>6. FinalOK(r)'
    <3>1. (cursor[r] + Len(page[r]))' = cursor[r] + Len(page[r])
      BY <2>m, <2>w, <2>x, SMTT(30)
    <3> QED
      BY <2>1, <2>2, <3>1, Zenon DEF FinalOK
  <2> QED
    BY <2>1, <2>3, <2>4, <2>5, <2>6, Untouched DEF StreamInv
<1>4. ASSUME NEW r \in Runs, PageWritten(r) PROVE StreamInv'
  <2>1. TypeOK /\ PrefixOK(r) /\ FinalOK(r) /\ Typed(r)
    BY SubscriberTyped DEF StreamInv
  <2>2. /\ phase'[r] = IF pageLen[r] < PageSize THEN "check" ELSE "wait"
        /\ UNCHANGED <<status, log, cursor, page, pageLen, wire, received,
                       lastEventId>>
    BY <1>4, <2>1, SMTT(30) DEF PageWritten, Goto, TypeOK, durableVars,
       serverVars, clientVars
  <2>3. \A q \in Runs \ {r} : subscriberVars(q)' = subscriberVars(q)
    BY <1>4, <2>1, <2>2 DEF PageWritten, Goto, TypeOK, subscriberVars
  <2>4. TypeOK'
    BY <1>4, <2>1, <2>2, SMTT(30) DEF PageWritten, Goto, SpendBreak, TypeOK,
       Typed, Serving, Returned, durableVars, serverVars, clientVars,
       Durable!DurableTypeOK
  <2>5. PrefixOK(r)'
    <3>1. (lastEventId[r] + Len(wire[r]) + Len(page[r]) <= Len(log[r]))'
      BY <2>1, <2>2, Zenon DEF PrefixOK
    <3>2. (phase[r] # "off" => cursor[r] = lastEventId[r] + Len(wire[r]))'
      BY <1>4, <2>1, <2>2, Zenon DEF PageWritten, PrefixOK, Serving
    <3> QED
      BY <1>4, <2>1, <2>2, <3>1, <3>2 DEF PageWritten, PrefixOK, Serving, Returned
  <2>6. FinalOK(r)'
    BY <1>4, <2>1, <2>2 DEF PageWritten, PrefixOK, FinalOK, Typed, Serving,
       Returned
  <2> QED
    BY <2>1, <2>3, <2>4, <2>5, <2>6, Untouched DEF StreamInv
<1>5. ASSUME NEW r \in Runs, CheckTerminal(r) PROVE StreamInv'
  <2>1. TypeOK /\ PrefixOK(r) /\ FinalOK(r) /\ Typed(r)
    BY SubscriberTyped DEF StreamInv
  <2>2. /\ phase'[r] = IF IsTerminal(status[r]) THEN "final" ELSE "wait"
        /\ UNCHANGED <<status, log, cursor, page, pageLen, wire, received,
                       lastEventId>>
    BY <1>5, <2>1, SMTT(30) DEF CheckTerminal, Goto, TypeOK, durableVars,
       serverVars, clientVars
  <2>3. \A q \in Runs \ {r} : subscriberVars(q)' = subscriberVars(q)
    BY <1>5, <2>1, <2>2, Zenon DEF CheckTerminal, Goto, TypeOK, subscriberVars
  <2>4. TypeOK'
    BY <1>5, <2>1, <2>2, SMTT(30) DEF CheckTerminal, Goto, SpendBreak, TypeOK,
       Typed, Serving, Returned, durableVars, serverVars, clientVars,
       Durable!DurableTypeOK
  <2>5. PrefixOK(r)'
    <3>1. (lastEventId[r] + Len(wire[r]) + Len(page[r]) <= Len(log[r]))'
      BY <2>1, <2>2, Zenon DEF PrefixOK
    <3>2. (phase[r] # "off" => cursor[r] = lastEventId[r] + Len(wire[r]))'
      BY <1>5, <2>1, <2>2, Zenon DEF CheckTerminal, PrefixOK, Serving
    <3> QED
      BY <1>5, <2>1, <2>2, <3>1, <3>2, Zenon DEF CheckTerminal, PrefixOK, Serving,
         Returned
  <2>6. FinalOK(r)'
    BY <1>5, <2>1, <2>2 DEF CheckTerminal, PrefixOK, FinalOK, Typed, Serving,
       Returned
  <2> QED
    BY <2>1, <2>3, <2>4, <2>5, <2>6, Untouched DEF StreamInv
<1>6. ASSUME NEW r \in Runs, FinalPage(r) PROVE StreamInv'
  <2>1. TypeOK /\ PrefixOK(r) /\ FinalOK(r) /\ Typed(r)
    BY SubscriberTyped DEF StreamInv
  <2>2. /\ phase'[r] = "writeFinal"
        /\ page'[r] = PageAfter(r, cursor[r])
        /\ pageLen'[r] = Len(PageAfter(r, cursor[r]))
        /\ UNCHANGED <<status, log, cursor, wire, received, lastEventId>>
    BY <1>6, <2>1, SMTT(30) DEF FinalPage, ReadPage, Goto, TypeOK, durableVars,
       serverVars, clientVars
  <2>3. \A q \in Runs \ {r} : subscriberVars(q)' = subscriberVars(q)
    BY <1>6, <2>1, <2>2 DEF FinalPage, ReadPage, Goto, TypeOK, subscriberVars
  <2>a. /\ lastEventId[r] + Len(wire[r]) + Len(page[r]) <= Len(log[r])
        /\ cursor[r] = lastEventId[r] + Len(wire[r])
    BY <1>6, <2>1, Zenon DEF PrefixOK, FinalPage
  <2>b. cursor[r] <= Len(log[r])
    BY <2>1, <2>a DEF Typed
  <2>c. /\ PageAfter(r, cursor[r]) \in Seq(Nat)
        /\ Len(PageAfter(r, cursor[r])) \in Nat
        /\ Counts(PageAfter(r, cursor[r]), cursor[r])
        /\ cursor[r] + Len(PageAfter(r, cursor[r])) <= Len(log[r])
        /\ Len(PageAfter(r, cursor[r])) < PageSize
              => cursor[r] + Len(PageAfter(r, cursor[r])) = Len(log[r])
    <3>1. cursor[r] \in Nat /\ Len(log[r]) \in Nat
      BY <2>1 DEF Typed
    <3> QED
      BY <2>b, <3>1, PageFacts
  <2>4. TypeOK'
    BY <1>6, <2>1, <2>2, <2>c, SMTT(30) DEF FinalPage, ReadPage, Goto,
       SpendBreak, TypeOK, Typed, Serving, Returned, durableVars, serverVars,
       clientVars, Durable!DurableTypeOK
  <2>5. PrefixOK(r)'
    <3>1. (lastEventId[r] + Len(wire[r]) + Len(page[r]) <= Len(log[r]))'
      BY <2>2, <2>a, <2>c
    <3> QED
      BY <1>6, <2>1, <2>2, <2>a, <2>c, <3>1, Zenon DEF FinalPage, PrefixOK
  <2>6. FinalOK(r)'
    BY <1>6, <2>1, <2>2, <2>c DEF FinalPage, FinalOK, Typed
  <2> QED
    BY <2>1, <2>3, <2>4, <2>5, <2>6, Untouched DEF StreamInv
<1>7. ASSUME NEW r \in Runs, FinalWritten(r) PROVE StreamInv'
  <2>1. TypeOK /\ PrefixOK(r) /\ FinalOK(r) /\ Typed(r)
    BY SubscriberTyped DEF StreamInv
  <2>2. /\ phase'[r] = "done"
        /\ UNCHANGED <<status, log, cursor, page, pageLen, wire, received,
                       lastEventId>>
    BY <1>7, <2>1, SMTT(30) DEF FinalWritten, Goto, TypeOK, durableVars,
       serverVars, clientVars
  <2>3. \A q \in Runs \ {r} : subscriberVars(q)' = subscriberVars(q)
    BY <1>7, <2>1, <2>2 DEF FinalWritten, Goto, TypeOK, subscriberVars
  <2>4. TypeOK'
    BY <1>7, <2>1, <2>2, SMTT(30) DEF FinalWritten, Goto, SpendBreak, TypeOK,
       Typed, Serving, Returned, durableVars, serverVars, clientVars,
       Durable!DurableTypeOK
  <2>5. PrefixOK(r)'
    <3>1. (lastEventId[r] + Len(wire[r]) + Len(page[r]) <= Len(log[r]))'
      BY <2>1, <2>2, Zenon DEF PrefixOK
    <3>2. (phase[r] # "off" => cursor[r] = lastEventId[r] + Len(wire[r]))'
      BY <1>7, <2>1, <2>2, Zenon DEF FinalWritten, PrefixOK, Serving
    <3> QED
      BY <1>7, <2>1, <2>2, <3>1, <3>2, Zenon DEF FinalWritten, PrefixOK, Serving,
         Returned
  <2>6. FinalOK(r)'
    BY <1>7, <2>1, <2>2, Zenon DEF FinalWritten, PrefixOK, FinalOK, Typed, Serving,
       Returned
  <2> QED
    BY <2>1, <2>3, <2>4, <2>5, <2>6, Untouched DEF StreamInv
<1>8. ASSUME NEW r \in Runs, Wake(r) PROVE StreamInv'
  <2>1. TypeOK /\ PrefixOK(r) /\ FinalOK(r) /\ Typed(r)
    BY SubscriberTyped DEF StreamInv
  <2>2. /\ phase'[r] = "page"
        /\ UNCHANGED <<status, log, cursor, page, pageLen, wire, received,
                       lastEventId>>
    BY <1>8, <2>1, SMTT(30) DEF Wake, Goto, TypeOK, durableVars, serverVars,
       clientVars
  <2>3. \A q \in Runs \ {r} : subscriberVars(q)' = subscriberVars(q)
    BY <1>8, <2>1, <2>2, Zenon DEF Wake, Goto, TypeOK, subscriberVars
  <2>4. TypeOK'
    BY <1>8, <2>1, <2>2, SMTT(30) DEF Wake, Goto, SpendBreak, TypeOK, Typed,
       Serving, Returned, durableVars, serverVars, clientVars,
       Durable!DurableTypeOK
  <2>5. PrefixOK(r)'
    <3>1. (lastEventId[r] + Len(wire[r]) + Len(page[r]) <= Len(log[r]))'
      BY <2>1, <2>2, Zenon DEF PrefixOK
    <3>2. (phase[r] # "off" => cursor[r] = lastEventId[r] + Len(wire[r]))'
      BY <1>8, <2>1, <2>2, Zenon DEF Wake, PrefixOK, Serving
    <3> QED
      BY <1>8, <2>1, <2>2, <3>1, <3>2, Zenon DEF Wake, PrefixOK, Serving, Returned
  <2>6. FinalOK(r)'
    BY <1>8, <2>1, <2>2 DEF Wake, PrefixOK, FinalOK, Typed, Serving, Returned
  <2> QED
    BY <2>1, <2>3, <2>4, <2>5, <2>6, Untouched DEF StreamInv
<1>9. ASSUME NEW r \in Runs, HandlerFails(r) PROVE StreamInv'
  <2>1. TypeOK /\ PrefixOK(r) /\ FinalOK(r) /\ Typed(r)
    BY SubscriberTyped DEF StreamInv
  <2>2. /\ phase'[r] = "broken"
        /\ page'[r] = <<>>
        /\ UNCHANGED <<status, log, cursor, pageLen, wire, received, lastEventId>>
    BY <1>9, <2>1, SMTT(30) DEF HandlerFails, Goto, TypeOK, durableVars,
       serverVars, clientVars
  <2>3. \A q \in Runs \ {r} : subscriberVars(q)' = subscriberVars(q)
    BY <1>9, <2>1, <2>2, Zenon DEF HandlerFails, Goto, TypeOK, subscriberVars
  <2>4. TypeOK'
    BY <1>9, <2>1, <2>2, SMTT(30) DEF HandlerFails, Goto, SpendBreak, TypeOK,
       Typed, Serving, Returned, durableVars, serverVars, clientVars,
       Durable!DurableTypeOK
  <2>5. PrefixOK(r)'
    <3>1. lastEventId[r] + Len(wire[r]) + Len(page[r]) <= Len(log[r])
      BY <2>1 DEF PrefixOK
    <3>2. (lastEventId[r] + Len(wire[r]) + Len(page[r]) <= Len(log[r]))'
      <4>1. Len(page'[r]) = 0 /\ Len(page[r]) \in Nat
        BY <2>1, <2>2, Zenon DEF Typed
      <4>2. UNCHANGED <<lastEventId, wire, log>> /\ lastEventId[r] \in Nat
            /\ Len(wire[r]) \in Nat /\ Len(log[r]) \in Nat
        BY <2>1, <2>2 DEF Typed
      <4> QED
        BY <3>1, <4>1, <4>2
    <3> QED
      BY <1>9, <2>1, <2>2, <3>2, Zenon DEF HandlerFails, PrefixOK, Typed, Serving,
         Returned
  <2>6. FinalOK(r)'
    BY <1>9, <2>1, <2>2, Zenon DEF HandlerFails, PrefixOK, FinalOK, Typed, Serving,
       Returned
  <2> QED
    BY <2>1, <2>3, <2>4, <2>5, <2>6, Untouched DEF StreamInv
<1>10. ASSUME NEW r \in Runs, OnFrame(r) PROVE StreamInv'
  <2>1. TypeOK /\ PrefixOK(r) /\ FinalOK(r) /\ Typed(r)
    BY SubscriberTyped DEF StreamInv
  <2>2. /\ wire'[r] = Tail(wire[r])
        /\ received'[r] = Append(received[r], Head(wire[r]))
        /\ lastEventId'[r] = Head(wire[r])
        /\ UNCHANGED <<status, log, phase, cursor, page, pageLen>>
    BY <1>10, <2>1, SMTT(30) DEF OnFrame, Goto, TypeOK, durableVars, serverVars,
       clientVars
  <2>3. \A q \in Runs \ {r} : subscriberVars(q)' = subscriberVars(q)
    BY <1>10, <2>1, <2>2, Zenon DEF OnFrame, Goto, TypeOK, subscriberVars
  <2>a. /\ lastEventId[r] = Len(received[r]) /\ wire[r] # <<>>
        /\ Counts(wire[r], lastEventId[r]) /\ Counts(received[r], 0)
    BY <1>10, <2>1 DEF PrefixOK, OnFrame
  <2>b. /\ Head(wire[r]) = lastEventId[r] + 1 /\ Tail(wire[r]) \in Seq(Nat)
        /\ Len(Tail(wire[r])) = Len(wire[r]) - 1
        /\ Counts(Tail(wire[r]), lastEventId[r] + 1)
    <3>1. wire[r] \in Seq(Nat) /\ lastEventId[r] \in Nat
      BY <2>1 DEF Typed
    <3> QED
      BY <2>a, <3>1, CountsTail
  <2>c. Head(wire[r]) = 0 + Len(received[r]) + 1
    BY <2>1, <2>a, <2>b DEF Typed
  <2>d. /\ Append(received[r], Head(wire[r])) \in Seq(Nat)
        /\ Len(Append(received[r], Head(wire[r]))) = Len(received[r]) + 1
        /\ Counts(Append(received[r], Head(wire[r])), 0)
    <3>1. received[r] \in Seq(Nat) /\ 0 \in Nat
      BY <2>1 DEF Typed
    <3> QED
      BY <2>a, <2>c, <3>1, CountsAppend
  <2>m. lastEventId[r] \in Nat /\ Len(wire[r]) \in Nat
    BY <2>1 DEF Typed
  <2>v. lastEventId'[r] = lastEventId[r] + 1 /\ Len(wire'[r]) = Len(wire[r]) - 1
    BY <2>2, <2>b
  <2>4. TypeOK'
    <3>1. lastEventId' \in [Runs -> Nat]
      BY <1>10, <2>1, <2>b DEF OnFrame, TypeOK, Typed
    <3>2. received' \in [Runs -> Seq(Nat)]
      BY <1>10, <2>1, <2>d DEF OnFrame, TypeOK
    <3>3. wire' \in [Runs -> Seq(Nat)]
      BY <1>10, <2>1, <2>b DEF OnFrame, TypeOK
    <3> QED
      BY <1>10, <2>1, <3>1, <3>2, <3>3, SMTT(30)
         DEF OnFrame, TypeOK, durableVars, serverVars, Durable!DurableTypeOK
  <2>5. PrefixOK(r)'
    <3>1. lastEventId[r] + Len(wire[r]) + Len(page[r]) <= Len(log[r])
      BY <2>1 DEF PrefixOK
    <3>2. lastEventId'[r] + Len(wire'[r]) = lastEventId[r] + Len(wire[r])
      BY <2>m, <2>v, SMTT(30)
    <3>3. (lastEventId[r] + Len(wire[r]) + Len(page[r]) <= Len(log[r]))'
      BY <2>2, <3>1, <3>2
    <3>4. phase[r] # "off" /\ cursor[r] = lastEventId[r] + Len(wire[r])
      BY <2>1, <2>a, Zenon DEF PrefixOK
    <3>5. cursor'[r] = lastEventId'[r] + Len(wire'[r])
      BY <2>2, <3>2, <3>4
    <3> QED
      BY <2>1, <2>2, <2>a, <2>b, <2>d, <3>3, <3>4, <3>5, Zenon DEF PrefixOK
  <2>6. FinalOK(r)'
    BY <1>10, <2>1, <2>2, Zenon DEF OnFrame, PrefixOK, FinalOK, Typed, Serving, Returned
  <2> QED
    BY <2>1, <2>3, <2>4, <2>5, <2>6, Untouched DEF StreamInv
<1>11. ASSUME NEW r \in Runs, EndOfBody(r) PROVE StreamInv'
  <2>1. TypeOK /\ PrefixOK(r) /\ FinalOK(r) /\ Typed(r)
    BY SubscriberTyped DEF StreamInv
  <2>2. /\ phase'[r] = "off"
        /\ UNCHANGED <<status, log, cursor, page, pageLen, wire, received,
                       lastEventId>>
    BY <1>11, <2>1, SMTT(30) DEF EndOfBody, Goto, TypeOK, durableVars,
       serverVars, clientVars
  <2>3. \A q \in Runs \ {r} : subscriberVars(q)' = subscriberVars(q)
    BY <1>11, <2>1, <2>2, Zenon DEF EndOfBody, Goto, TypeOK, subscriberVars
  <2>4. TypeOK'
    BY <1>11, <2>1, <2>2, SMTT(30) DEF EndOfBody, Goto, SpendBreak, TypeOK,
       Typed, Serving, Returned, durableVars, serverVars, clientVars,
       Durable!DurableTypeOK
  <2>5. PrefixOK(r)'
    <3>1. (lastEventId[r] + Len(wire[r]) + Len(page[r]) <= Len(log[r]))'
      BY <2>1, <2>2, Zenon DEF PrefixOK
    <3>2. (phase[r] # "off" => cursor[r] = lastEventId[r] + Len(wire[r]))'
      BY <1>11, <2>1, <2>2 DEF EndOfBody, PrefixOK, Serving
    <3> QED
      BY <1>11, <2>1, <2>2, <3>1, <3>2, Zenon DEF EndOfBody, PrefixOK, Serving, Returned
  <2>6. FinalOK(r)'
    BY <1>11, <2>1, <2>2, Zenon DEF EndOfBody, PrefixOK, FinalOK, Typed, Serving,
       Returned
  <2> QED
    BY <2>1, <2>3, <2>4, <2>5, <2>6, Untouched DEF StreamInv
<1>12. ASSUME NEW r \in Runs, Disconnect(r) PROVE StreamInv'
  <2>1. TypeOK /\ PrefixOK(r) /\ FinalOK(r) /\ Typed(r)
    BY SubscriberTyped DEF StreamInv
  <2>2. /\ phase'[r] = "off"
        /\ page'[r] = <<>>
        /\ wire'[r] = <<>>
        /\ UNCHANGED <<status, log, cursor, pageLen, received, lastEventId>>
    BY <1>12, <2>1, SMTT(30) DEF Disconnect, Goto, TypeOK, durableVars,
       serverVars, clientVars
  <2>3. \A q \in Runs \ {r} : subscriberVars(q)' = subscriberVars(q)
    BY <1>12, <2>1, <2>2, Zenon DEF Disconnect, Goto, TypeOK, subscriberVars
  <2>4. TypeOK'
    BY <1>12, <2>1, <2>2, SMTT(30) DEF Disconnect, Goto, SpendBreak, TypeOK,
       Typed, Serving, Returned, durableVars, serverVars, clientVars,
       Durable!DurableTypeOK
  <2>5. PrefixOK(r)'
    <3>1. lastEventId[r] + Len(wire[r]) + Len(page[r]) <= Len(log[r])
      BY <2>1 DEF PrefixOK
    <3>2. Len(wire'[r]) = 0 /\ Len(page'[r]) = 0
      BY <2>1, <2>2 DEF Typed
    <3>3. UNCHANGED <<lastEventId, log>> /\ lastEventId[r] \in Nat /\ Len(wire[r]) \in Nat
          /\ Len(page[r]) \in Nat /\ Len(log[r]) \in Nat
      BY <2>1, <2>2 DEF Typed
    <3>4. (lastEventId[r] + Len(wire[r]) + Len(page[r]) <= Len(log[r]))'
      BY <3>1, <3>2, <3>3, SMTT(30)
    <3> QED
      BY <2>1, <2>2, <3>4, Zenon DEF PrefixOK, Typed
  <2>6. FinalOK(r)'
    BY <1>12, <2>1, <2>2, Zenon DEF Disconnect, PrefixOK, FinalOK, Typed, Serving,
       Returned
  <2> QED
    BY <2>1, <2>3, <2>4, <2>5, <2>6, Untouched DEF StreamInv
<1>13. CASE RunStep
  BY <1>13, RunStepKeeps, SMTT(30)
<1>14. CASE UNCHANGED vars
  BY <1>14, Zenon DEF vars, durableVars, serverVars, clientVars, StreamInv, TypeOK,
     PrefixOK, FinalOK,
             Durable!DurableTypeOK
<1> QED
  BY <1>1, <1>2, <1>3, <1>4, <1>5, <1>6, <1>7, <1>8, <1>9, <1>10, <1>11, <1>12,
     <1>13, <1>14
     DEF Next, ServerStep, ClientStep

(* The invariant holds before anybody connects. *)
LEMMA StreamInit == Init => StreamInv
<1> SUFFICES ASSUME Init PROVE StreamInv
  OBVIOUS
<1>1. TypeOK
  BY DEF Init, TypeOK, Durable!Init, Durable!DurableTypeOK, Durable!RunStatus,
         Durable!ActiveStatus, Durable!EventKind
<1>2. ASSUME NEW r \in Runs PROVE PrefixOK(r) /\ FinalOK(r)
  BY DEF Init, Durable!Init, PrefixOK, FinalOK, Counts
<1> QED
  BY <1>1, <1>2 DEF StreamInv

-----------------------------------------------------------------------------
(* Theorems *)

(* The inductive invariant of handlers, subscribers and runs. *)
THEOREM StreamCorrect == Spec => []StreamInv
  BY StreamInit, StreamStep, PTL DEF Spec

(* For any page size and any lost connections a subscriber sees the log    *)
(* from its beginning, without gap, repetition or reordering.              *)
THEOREM SubscriberSeesPrefix == Spec => []StreamIsPrefix
<1>1. ASSUME StreamInv, NEW r \in Runs
      PROVE  /\ Len(Outgoing(r)) <= Len(log[r])
             /\ \A i \in 1..Len(Outgoing(r)) : Outgoing(r)[i] = i
  <2>1. PrefixOK(r) /\ TypeOK
    BY <1>1 DEF StreamInv
  <2>2. received[r] \in Seq(Nat) /\ wire[r] \in Seq(Nat) /\ page[r] \in Seq(Nat)
    BY <2>1 DEF TypeOK
  <2>3. /\ Len(received[r]) \in Nat /\ Len(wire[r]) \in Nat /\ Len(page[r]) \in Nat
        /\ Len(<<>>) = 0
    BY <2>2
  <2>4. Counts(received[r], 0) /\ Counts(wire[r], Len(received[r]))
    BY <2>1 DEF PrefixOK
  <2>5. /\ received[r] \o wire[r] \in Seq(Nat)
        /\ Len(received[r] \o wire[r]) = Len(received[r]) + Len(wire[r])
        /\ Counts(received[r] \o wire[r], 0)
    BY <2>2, <2>4, CountsConcat
  <2>6. Counts(page[r], Len(received[r] \o wire[r]))
    <3>1. CASE page[r] = <<>>
      BY <2>3, <3>1 DEF Counts
    <3>2. CASE page[r] # <<>>
      BY <2>1, <2>5, <3>2, Zenon DEF PrefixOK
    <3> QED
      BY <3>1, <3>2, Zenon
  <2>7. /\ Len(Outgoing(r)) = Len(received[r]) + Len(wire[r]) + Len(page[r])
        /\ Counts(Outgoing(r), 0)
    <3>1. PICK s \in Seq(Nat) : s = received[r] \o wire[r]
      BY <2>5, Zenon
    <3>2. Counts(s, 0) /\ Counts(page[r], Len(s)) /\ Len(s) = Len(received[r]) + Len(wire[r])
      BY <2>5, <2>6, <3>1, Zenon
    <3>3. Len(s \o page[r]) = Len(s) + Len(page[r]) /\ Counts(s \o page[r], 0)
      BY <2>2, <3>2, CountsConcat, Zenon
    <3>4. Outgoing(r) = s \o page[r]
      BY <3>1 DEF Outgoing
    <3> QED
      BY <3>2, <3>3, <3>4, Zenon
  <2>8. Len(Outgoing(r)) <= Len(log[r])
    BY <2>1, <2>7, Zenon DEF PrefixOK
  <2>9. \A i \in 1..Len(Outgoing(r)) : Outgoing(r)[i] = i
    <3>1. ASSUME NEW i \in 1..Len(Outgoing(r)) PROVE Outgoing(r)[i] = i
      <4>1. Outgoing(r)[i] = 0 + i
        BY <2>7, Zenon DEF Counts
      <4> QED
        BY <4>1
    <3> QED
      BY <3>1
  <2> QED
    BY <2>8, <2>9
<1>2. StreamInv => StreamIsPrefix
  BY <1>1 DEF StreamIsPrefix
<1> QED
  BY <1>2, StreamCorrect, PTL

(* The handler and the subscriber of every run keep their types, so no     *)
(* cursor is ever negative.                                                *)
THEOREM StreamTyped == Spec => []TypeOK
<1>1. StreamInv => TypeOK
  BY DEF StreamInv
<1> QED
  BY <1>1, StreamCorrect, PTL

(* For any page size, a stream that ends after a final page that is not    *)
(* full has sent the terminal event of its run.                            *)
THEOREM CatchUpIsComplete == Spec => []CatchUpSendsTerminalEvent
<1>1. ASSUME StreamInv, NEW r \in Runs, phase[r] = "done", pageLen[r] < PageSize,
             NEW i \in 1..Len(log[r]), IsTerminal(log[r][i])
      PROVE  i <= cursor[r]
  <2>1. PrefixOK(r) /\ FinalOK(r) /\ cursor[r] \in Nat
    BY <1>1 DEF StreamInv, TypeOK
  <2>2. page[r] = <<>> /\ Len(<<>>) = 0
    BY <1>1, <2>1 DEF PrefixOK
  <2> QED
    BY <1>1, <2>1, <2>2 DEF FinalOK
<1>2. StreamInv => CatchUpSendsTerminalEvent
  BY <1>1 DEF CatchUpSendsTerminalEvent, TerminalEventSent
<1> QED
  BY <1>2, StreamCorrect, PTL
=============================================================================
