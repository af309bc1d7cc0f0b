-------------------------- MODULE SignalWaitProofs --------------------------
(***************************************************************************)
(* Proofs about SignalWait, for any threads and any number of rounds:      *)
(* types, and that callbacks which wait one at a time get their own        *)
(* answers.                                                                *)
(***************************************************************************)
EXTENDS SignalWait, TLAPS

LEMMA InitTypeOK == Init => TypeOK
  BY WaitAssumption DEF Init, TypeOK, Threads, CallerPc, Answer

LEMMA CallerTypeOK ==
  ASSUME TypeOK, NEW w \in Callers, Call(w) \/ Caller(w) \/ SpuriousWake(w)
  PROVE  TypeOK'
  <1> USE WaitAssumption DEF TypeOK, Threads, CallerPc
  <1>1. CASE Call(w)
    BY <1>1 DEF Call
  <1>2. CASE PrimeWait(w)
    <2>1. mixed' \subseteq Callers
      BY <1>2 DEF PrimeWait, MarkMixed, Open
    <2> QED  BY <2>1, <1>2 DEF PrimeWait
  <1>3. CASE AskMain(w)
    BY <1>3 DEF AskMain, Ask
  <1>4. CASE Wait(w)
    BY <1>4 DEF Wait
  <1>5. CASE GetSignalResponse(w)
    BY <1>5 DEF GetSignalResponse, Answer
  <1>6. CASE Return(w)
    BY <1>6 DEF Return
  <1>7. CASE SpuriousWake(w)
    BY <1>7 DEF SpuriousWake
  <1> QED  BY <1>1, <1>2, <1>3, <1>4, <1>5, <1>6, <1>7 DEF Caller

LEMMA SignalTypeOK ==
  ASSUME TypeOK, Signal
  PROVE  TypeOK'
  <1> USE WaitAssumption DEF TypeOK, Threads, CallerPc
  <1>1. ASSUME NEW q \in asks, TakeUp(q) PROVE TypeOK'
    BY <1>1 DEF TakeUp
  <1>2. CASE SignalLock
    BY <1>2 DEF SignalLock
  <1>3. CASE SignalDone
    BY <1>3 DEF SignalDone, NotifyOne
  <1> QED  BY <1>1, <1>2, <1>3 DEF Signal

(* m_mutex and m_signal are used as declared: the main thread holds the    *)
(* mutex exactly while it assigns m_signal, and no callback blocks in Wait *)
(* holding it.                                                             *)
THEOREM WaitTypeOK == Spec => []TypeOK
  <1>1. TypeOK /\ [Next]_vars => TypeOK'
    <2> SUFFICES ASSUME TypeOK, [Next]_vars PROVE TypeOK'
      OBVIOUS
    <2>1. CASE UNCHANGED vars
      BY <2>1 DEF TypeOK, vars
    <2> QED  BY <2>1, CallerTypeOK, SignalTypeOK DEF Next
  <1> QED  BY <1>1, InitTypeOK, PTL DEF Spec

-----------------------------------------------------------------------------
Question(w) == <<w, round[w]>>

Unanswered == code = 0 /\ answering = NoAnswer
TakenUp(w) == asks = {} /\ answering = Question(w) /\ code = 0
Answered(w) ==
    asks = {} /\ answering = NoAnswer /\ code = 200 /\ data = Question(w)

(* Where the question of a round that no other overlaps can be: it has not *)
(* been asked, or the main thread has not taken it up, or is about to      *)
(* answer it, or has answered it. It is in one place only.                 *)
Alone(w) ==
    /\ Open = {w}
    /\ pc[w] = "primed" => asks = {} /\ Unanswered
    /\ pc[w] \in {"asked", "waiting", "woken"} =>
          \/ asks = {Question(w)} /\ Unanswered
          \/ TakenUp(w)
          \/ Answered(w)
    /\ pc[w] = "released" => Answered(w)

MainIsBusy == (pc[Main] = "idle") <=> (answering = NoAnswer)

WaitInv ==
    /\ TypeOK
    /\ MainIsBusy
    /\ \A w \in Open \ mixed : Alone(w)
    /\ OwnAnswer

LEMMA InitWaitInv == Init => WaitInv
  BY InitTypeOK, WaitAssumption
  DEF Init, WaitInv, MainIsBusy, Open, OwnAnswer, Threads

(* What a step of a callback does to the place of a question.              *)
LEMMA CallerWaitInv ==
  ASSUME WaitInv, NEW c \in Callers, Call(c) \/ Caller(c) \/ SpuriousWake(c)
  PROVE  WaitInv'
  <1>1. TypeOK'
    BY CallerTypeOK DEF WaitInv
  <1>2. TypeOK /\ Main \notin Callers
    BY WaitAssumption DEF WaitInv
  <1>3. MainIsBusy'
    BY <1>2 DEF WaitInv, MainIsBusy, TypeOK, Threads, Caller, Call, PrimeWait,
                AskMain, Wait, GetSignalResponse, Return, SpuriousWake
  <1>4. CASE Call(c)
    BY <1>1, <1>2, <1>3, <1>4
    DEF WaitInv, Call, Open, Alone, OwnAnswer, TypeOK, Threads, Unanswered,
        TakenUp, Answered, Question
  <1>5. CASE PrimeWait(c)
    <2>1. CASE mutex = NoThread
      <3>1. Open' = Open \cup {c} /\ c \notin Open
        BY <1>2, <1>5, <2>1, WaitAssumption DEF PrimeWait, Open, TypeOK, Threads
      <3>2. ASSUME NEW w \in Open', w \notin mixed' PROVE Alone(w)'
        <4>1. w = c /\ Open = {} /\ asks = {} /\ answering = NoAnswer
          BY <3>1, <3>2, <1>5, <2>1, WaitAssumption DEF PrimeWait, MarkMixed
        <4> QED
          BY <4>1, <3>1, <1>2, <1>5, <2>1, WaitAssumption
          DEF PrimeWait, Alone, Unanswered, TypeOK, Threads
      <3>3. OwnAnswer'
        BY <1>2, <1>5, <2>1, WaitAssumption
        DEF WaitInv, OwnAnswer, PrimeWait, MarkMixed, TypeOK, Threads
      <3> QED  BY <1>1, <1>3, <3>2, <3>3 DEF WaitInv
    <2>2. CASE mutex = c
      BY <1>1, <1>2, <1>3, <1>5, <2>2, WaitAssumption
      DEF WaitInv, PrimeWait, Open, Alone, OwnAnswer, TypeOK, Threads,
          Unanswered, TakenUp, Answered, Question
    <2> QED  BY <1>5, <2>1, <2>2 DEF PrimeWait
  <1>6. CASE AskMain(c)
    <2>1. Open' = Open /\ c \in Open
      BY <1>2, <1>6 DEF AskMain, Open, TypeOK, Threads
    <2>2. ASSUME NEW w \in Open', w \notin mixed' PROVE Alone(w)'
      <3>1. w = c /\ Alone(c)
        BY <2>1, <2>2, <1>6 DEF WaitInv, AskMain, Alone
      <3> QED
        BY <3>1, <2>1, <1>2, <1>6
        DEF AskMain, Alone, Unanswered, Question, TypeOK, Threads
    <2>3. OwnAnswer'
      BY <1>2, <1>6 DEF WaitInv, OwnAnswer, AskMain, TypeOK, Threads
    <2> QED  BY <1>1, <1>3, <2>2, <2>3 DEF WaitInv
  <1>7. CASE Wait(c) \/ SpuriousWake(c)
    <2>1. Open' = Open /\ c \in Open
      BY <1>2, <1>7 DEF Wait, SpuriousWake, Open, TypeOK, Threads
    <2>2. ASSUME NEW w \in Open', w \notin mixed' PROVE Alone(w)'
      <3>1. w = c /\ Alone(c)
        BY <2>1, <2>2, <1>7 DEF WaitInv, Wait, SpuriousWake, Alone
      <3> QED
        BY <3>1, <2>1, <1>2, <1>7
        DEF Wait, SpuriousWake, Alone, Unanswered, TakenUp, Answered, Question,
            TypeOK, Threads
    <2>3. OwnAnswer'
      BY <1>2, <1>7 DEF WaitInv, OwnAnswer, Wait, SpuriousWake, TypeOK, Threads
    <2> QED  BY <1>1, <1>3, <2>2, <2>3 DEF WaitInv
  <1>8. CASE GetSignalResponse(c)
    <2>1. Open' = Open \ {c} /\ c \in Open
      BY <1>2, <1>8 DEF GetSignalResponse, Open, TypeOK, Threads
    <2>2. ASSUME NEW w \in Open', w \notin mixed' PROVE FALSE
      BY <2>1, <2>2, <1>8 DEF WaitInv, GetSignalResponse, Alone
    <2>3. ASSUME c \notin mixed PROVE got'[c] = <<c, round[c]>>
      <3>1. Answered(c) /\ pc[Main] = "idle"
        BY <2>1, <2>3, <1>8
        DEF WaitInv, Alone, Answered, MainIsBusy, GetSignalResponse
      <3> QED
        BY <3>1, <1>2, <1>8 DEF GetSignalResponse, Answered, Question, TypeOK
    <2>4. OwnAnswer'
      BY <2>3, <1>2, <1>8
      DEF WaitInv, OwnAnswer, GetSignalResponse, TypeOK, Threads
    <2> QED  BY <1>1, <1>3, <2>2, <2>4 DEF WaitInv
  <1>9. CASE Return(c)
    BY <1>1, <1>2, <1>3, <1>9
    DEF WaitInv, Return, Open, Alone, OwnAnswer, TypeOK, Threads, Unanswered,
        TakenUp, Answered, Question
  <1> QED  BY <1>4, <1>5, <1>6, <1>7, <1>8, <1>9 DEF Caller

(* What a step of the main thread does to it. A thread it wakes has not    *)
(* left its round.                                                         *)
LEMMA SignalWaitInv ==
  ASSUME WaitInv, Signal
  PROVE  WaitInv'
  <1>1. TypeOK'
    BY SignalTypeOK DEF WaitInv
  <1>2. TypeOK /\ Main \notin Callers /\ NoThread \notin Callers
    BY WaitAssumption DEF WaitInv
  <1>3. ASSUME NEW q \in asks, TakeUp(q) PROVE WaitInv'
    <2>1. Open' = Open /\ mixed' = mixed
      BY <1>2, <1>3 DEF TakeUp, Open, TypeOK, Threads
    <2>2. MainIsBusy' /\ q # NoAnswer /\ answering = NoAnswer
      BY <1>2, <1>3 DEF WaitInv, TakeUp, MainIsBusy, TypeOK, Threads, Ask,
                        NoAnswer
    <2>3. ASSUME NEW w \in Open', w \notin mixed' PROVE Alone(w)'
      <3>1. Alone(w) /\ w \in Callers /\ asks # {}
        BY <2>1, <2>3, <1>3 DEF WaitInv, Open
      <3> QED
        BY <3>1, <2>1, <2>2, <1>2, <1>3
        DEF TakeUp, Alone, Unanswered, TakenUp, Answered, Question, TypeOK,
            Threads
    <2>4. OwnAnswer'
      BY <1>2, <1>3 DEF WaitInv, OwnAnswer, TakeUp, TypeOK, Threads
    <2> QED  BY <1>1, <2>2, <2>3, <2>4 DEF WaitInv
  <1>4. CASE SignalLock
    BY <1>1, <1>2, <1>4
    DEF WaitInv, SignalLock, MainIsBusy, Open, Alone, OwnAnswer, Unanswered,
        TakenUp, Answered, Question, TypeOK, Threads
  <1>5. CASE SignalDone
    <2>1. \A w \in Callers :
             pc'[w] = pc[w] \/ (pc[w] = "waiting" /\ pc'[w] = "woken")
      BY <1>2, <1>5 DEF SignalDone, NotifyOne, TypeOK, Threads
    <2>2. pc'[Main] = "idle"
      BY <1>2, <1>5 DEF SignalDone, NotifyOne, TypeOK, Threads
    <2>3. MainIsBusy'
      BY <2>2, <1>5 DEF SignalDone, MainIsBusy
    <2>4. Open' = Open /\ mixed' = mixed
      BY <2>1, <1>5 DEF SignalDone, Open
    <2>5. answering # NoAnswer
      BY <1>5 DEF WaitInv, SignalDone, MainIsBusy
    <2>6. ASSUME NEW w \in Open', w \notin mixed' PROVE Alone(w)'
      <3>1. Alone(w) /\ w \in Callers
        BY <2>4, <2>6 DEF WaitInv, Open
      <3>2. pc[w] \in {"asked", "waiting", "woken"} /\ TakenUp(w)
        BY <3>1, <2>4, <2>5, <2>6 DEF Alone, Open, Unanswered, Answered
      <3>3. Answered(w)' /\ pc'[w] \in {"asked", "waiting", "woken"}
        BY <3>1, <3>2, <2>1, <1>5
        DEF SignalDone, TakenUp, Answered, Question
      <3> QED  BY <3>1, <3>3, <2>4 DEF Alone
    <2>7. OwnAnswer'
      BY <2>1, <2>4, <1>5 DEF WaitInv, OwnAnswer, SignalDone
    <2> QED  BY <1>1, <2>3, <2>6, <2>7 DEF WaitInv
  <1> QED  BY <1>3, <1>4, <1>5 DEF Signal

LEMMA WaitInvIsInvariant == Spec => []WaitInv
  <1>1. WaitInv /\ [Next]_vars => WaitInv'
    <2> SUFFICES ASSUME WaitInv, [Next]_vars PROVE WaitInv'
      OBVIOUS
    <2>1. CASE UNCHANGED vars
      BY <2>1
      DEF vars, WaitInv, TypeOK, MainIsBusy, Open, Alone, OwnAnswer,
          Unanswered, TakenUp, Answered, Question
    <2> QED  BY <2>1, CallerWaitInv, SignalWaitInv DEF Next
  <1> QED  BY <1>1, InitWaitInv, PTL DEF Spec

(* A callback whose round no other overlapped got the response made for    *)
(* the question it asked in that round, for any number of threads and of   *)
(* rounds.                                                                 *)
THEOREM WaitOwnAnswer == Spec => []OwnAnswer
  BY WaitInvIsInvariant, PTL DEF WaitInv

=============================================================================
