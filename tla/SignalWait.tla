----------------------------- MODULE SignalWait -----------------------------
(***************************************************************************)
(* How a callback makes the server wait for another thread of the          *)
(* application: PrimeWait, Wait, GetSignalResponse and Signal of           *)
(* MongooseServer, over m_mutex, m_cvSync and the single m_signal.         *)
(*                                                                         *)
(* A callback runs in the server thread, or in a thread of the pool when   *)
(* its endpoint was added with bUseThread; the token callback runs in the  *)
(* server thread inside CheckAuthorizationBearer or AuthenticateWebsocket, *)
(* which hold m_mutex. As README.md tells it, a callback calls PrimeWait,  *)
(* asks the main thread for data, calls Wait and returns                   *)
(* GetSignalResponse; the main thread calls Signal once for each ask, in   *)
(* whatever order it likes.                                                *)
(***************************************************************************)
EXTENDS Naturals, FiniteSets

CONSTANTS
    Callers,     \* the threads that run callbacks
    Server,      \* the server thread
    Main,        \* the thread of the application that calls Signal
    NoThread,
    MaxRounds    \* callbacks per thread (bounds the model)

ASSUME WaitAssumption ==
    /\ Server \in Callers
    /\ Main \notin Callers
    /\ NoThread \notin Callers \cup {Main}
    /\ MaxRounds \in Nat

Threads == Callers \cup {Main}

(* A question, named by the thread that asks it and the round it is in;    *)
(* the answer to it is the response made for it.                           *)
Ask == Callers \X (1 .. MaxRounds)
NoAnswer == <<NoThread, 0>>
Torn == <<NoThread, 1>>    \* a response read while it was being assigned
Answer == Ask \cup {NoAnswer, Torn}

VARIABLES
    mutex,      \* m_mutex: the thread that holds it, or NoThread
    code,       \* m_signal.nHttpCode
    data,       \* the rest of m_signal
    pc,         \* where each thread is
    round,      \* callbacks each thread has begun
    asks,       \* questions the main thread has not taken up yet
    answering,  \* the question Signal is being called for
    got,        \* history: what the last GetSignalResponse of each thread read
    mixed       \* history: threads whose round was open while another's was,
                \* or while an earlier question was unanswered

vars == <<mutex, code, data, pc, round, asks, answering, got, mixed>>

Init ==
    /\ mutex = NoThread
    /\ code = 200      \* the default of response's constructor
    /\ data = NoAnswer
    /\ pc = [t \in Threads |-> "idle"]
    /\ round = [w \in Callers |-> 0]
    /\ asks = {}
    /\ answering = NoAnswer
    /\ got = [w \in Callers |-> NoAnswer]
    /\ mixed = {}

-----------------------------------------------------------------------------
(* A callback of an endpoint begins, or, in the server thread and under    *)
(* m_mutex, the token callback.                                            *)
Call(w) ==
    /\ pc[w] = "idle"
    /\ round[w] < MaxRounds
    /\ \/ UNCHANGED mutex
       \/ w = Server /\ mutex = NoThread /\ mutex' = w
    /\ pc' = [pc EXCEPT ![w] = "callback"]
    /\ round' = [round EXCEPT ![w] = @ + 1]
    /\ UNCHANGED <<code, data, asks, answering, got, mixed>>

(* The callback returns; it need not have waited for anybody.              *)
Return(w) ==
    /\ pc[w] \in {"callback", "answered"}
    /\ pc' = [pc EXCEPT ![w] = "idle"]
    /\ mutex' = IF mutex = w THEN NoThread ELSE mutex
    /\ UNCHANGED <<code, data, round, asks, answering, got, mixed>>

(* Rounds between PrimeWait and GetSignalResponse.                         *)
Open == {w \in Callers : pc[w] \in {"primed", "asked", "waiting", "woken",
                                    "released"}}

MarkMixed(w) ==
    mixed' = IF Open = {} /\ asks = {} /\ answering = NoAnswer
                THEN mixed \ {w}
                ELSE mixed \cup Open \cup {w}

(* A faulty PrimeWait: the code of the last Signal is left in place.       *)
PrimeWithoutReset(w) ==
    /\ pc[w] = "callback" /\ mutex = NoThread
    /\ pc' = [pc EXCEPT ![w] = "primed"]
    /\ MarkMixed(w)
    /\ UNCHANGED <<mutex, code, data, round, asks, answering, got>>

(* PrimeWait takes m_mutex, which a token callback already holds: that     *)
(* thread blocks on itself.                                                *)
PrimeWait(w) ==
    /\ pc[w] = "callback"
    /\ \/ /\ mutex = NoThread
          /\ code' = 0
          /\ pc' = [pc EXCEPT ![w] = "primed"]
          /\ MarkMixed(w)
       \/ /\ mutex = w
          /\ pc' = [pc EXCEPT ![w] = "hung"]
          /\ UNCHANGED <<code, mixed>>
    /\ UNCHANGED <<mutex, data, round, asks, answering, got>>

(* The callback tells the main thread what it needs.                       *)
AskMain(w) ==
    /\ pc[w] = "primed"
    /\ asks' = asks \cup {<<w, round[w]>>}
    /\ pc' = [pc EXCEPT ![w] = "asked"]
    /\ UNCHANGED <<mutex, code, data, round, answering, got, mixed>>

(* A faulty Wait: it blocks without looking at the code first, and so      *)
(* misses a Signal that came before it.                                    *)
WaitBlindly(w) ==
    /\ pc[w] \in {"asked", "woken"}
    /\ mutex = NoThread
    /\ pc' = [pc EXCEPT ![w] = IF pc[w] = "asked" \/ code = 0
                                  THEN "waiting" ELSE "released"]
    /\ UNCHANGED <<mutex, code, data, round, asks, answering, got, mixed>>

(* Wait takes m_mutex and evaluates the predicate of m_cvSync.wait, when   *)
(* it is called and each time it wakes; it goes on with m_mutex unlocked,  *)
(* or unlocks it and blocks in one step.                                   *)
Wait(w) ==
    /\ pc[w] \in {"asked", "woken"}
    /\ mutex = NoThread
    /\ pc' = [pc EXCEPT ![w] = IF code = 0 THEN "waiting" ELSE "released"]
    /\ UNCHANGED <<mutex, code, data, round, asks, answering, got, mixed>>

SpuriousWake(w) ==
    /\ pc[w] = "waiting"
    /\ pc' = [pc EXCEPT ![w] = "woken"]
    /\ UNCHANGED <<mutex, code, data, round, asks, answering, got, mixed>>

(* GetSignalResponse gives a reference and the callback copies what is     *)
(* there, without the lock: while Signal assigns, it may find anything.    *)
GetSignalResponse(w) ==
    /\ pc[w] = "released"
    /\ got' = [got EXCEPT ![w] = IF pc[Main] = "assigning" THEN Torn ELSE data]
    /\ pc' = [pc EXCEPT ![w] = "answered"]
    /\ UNCHANGED <<mutex, code, data, round, asks, answering, mixed>>

(* The main thread takes up a question, in any order, and calls Signal.    *)
TakeUp(q) ==
    /\ pc[Main] = "idle"
    /\ asks' = asks \ {q}
    /\ answering' = q
    /\ pc' = [pc EXCEPT ![Main] = "signal"]
    /\ UNCHANGED <<mutex, code, data, round, got, mixed>>

SignalLock ==
    /\ pc[Main] = "signal"
    /\ mutex = NoThread
    /\ mutex' = Main
    /\ pc' = [pc EXCEPT ![Main] = "assigning"]
    /\ UNCHANGED <<code, data, round, asks, answering, got, mixed>>

(* notify_one: one of the threads blocked in m_cvSync, if there is any.    *)
NotifyOne(at) ==
    LET blocked == {w \in Callers : pc[w] = "waiting"}
    IN  IF blocked = {} THEN pc' = at
        ELSE \E w \in blocked : pc' = [at EXCEPT ![w] = "woken"]

(* m_signal is assigned, a waiter notified and m_mutex unlocked.           *)
SignalDone ==
    /\ pc[Main] = "assigning"
    /\ code' = 200
    /\ data' = answering
    /\ answering' = NoAnswer
    /\ mutex' = NoThread
    /\ NotifyOne([pc EXCEPT ![Main] = "idle"])
    /\ UNCHANGED <<round, asks, got, mixed>>

Caller(w) == \/ PrimeWait(w) \/ AskMain(w) \/ Wait(w)
             \/ GetSignalResponse(w) \/ Return(w)
Signal == (\E q \in asks : TakeUp(q)) \/ SignalLock \/ SignalDone

Next ==
    \/ \E w \in Callers : Call(w) \/ Caller(w) \/ SpuriousWake(w)
    \/ Signal

(* Callbacks are code that goes on, and the application answers what it    *)
(* was asked; nobody needs to call or to wake up by accident.              *)
Fairness == WF_vars(Signal) /\ \A w \in Callers : WF_vars(Caller(w))

Spec == Init /\ [][Next]_vars /\ Fairness

-----------------------------------------------------------------------------
CallerPc == {"idle", "callback", "primed", "asked", "waiting", "woken",
             "released", "answered", "hung"}

(* Types. A thread that waits does not hold m_mutex, and the main thread   *)
(* holds it exactly while it assigns.                                      *)
TypeOK ==
    /\ mutex \in Threads \cup {NoThread}
    /\ code \in {0, 200}
    /\ data \in Ask \cup {NoAnswer}
    /\ pc \in [Threads -> CallerPc \cup {"signal", "assigning"}]
    /\ pc[Main] \in {"idle", "signal", "assigning"}
    /\ \A w \in Callers : pc[w] \in CallerPc
    /\ round \in [Callers -> 0 .. MaxRounds]
    /\ asks \subseteq Ask
    /\ answering \in Ask \cup {NoAnswer}
    /\ got \in [Callers -> Answer]
    /\ mixed \subseteq Callers
    /\ \A w \in Callers : pc[w] # "idle" => round[w] > 0
    /\ (mutex = Main) <=> (pc[Main] = "assigning")
    /\ \A w \in Callers : mutex = w => pc[w] \in {"callback", "hung"}

(* One at a time, a callback gets the response made for its own question,  *)
(* whole: not the one of the round before, not half of one. It takes       *)
(* PrimeWait before the question and Wait's look at the code under the     *)
(* mutex, however Signal falls between them (README.md: "return            *)
(* server.GetSignalResponse()").                                           *)
OwnAnswer ==
    \A w \in Callers \ mixed :
        pc[w] = "answered" => got[w] = <<w, round[w]>>

Hung == \E w \in Callers : pc[w] = "hung"

(* A callback that waits is released, also when Signal came before Wait or *)
(* between its look at the code and its block, as long as rounds do not    *)
(* overlap and nobody calls PrimeWait from the token callback.             *)
WaitReturns ==
    \A w \in Callers :
        pc[w] = "asked" ~> (pc[w] = "answered" \/ w \in mixed \/ Hung)

=============================================================================
