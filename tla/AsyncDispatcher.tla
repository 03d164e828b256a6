--------------------------- MODULE AsyncDispatcher ---------------------------
(***************************************************************************)
(* ATAsyncDispatcher (ATCore/source/asyncdispatcherimpl.cpp) and the way    *)
(* ATSimulator runs it.  Worker threads hand callbacks to the emulation     *)
(* thread, which runs them at the end of every scanline, or, when the       *)
(* emulation stands still, when a wake-up message arrives.  The queue is     *)
(* guarded by a mutex; the wake-up is sent after the mutex is released.      *)
(*                                                                         *)
(* A client is the holder of one token.  Clients in MainClients live on the *)
(* dispatching thread, each of the others on a worker thread of its own.    *)
(***************************************************************************)
EXTENDS Naturals, Sequences, SequencesExt

CONSTANTS
    Clients,
    MainClients,
    Tokenless,      \* clients that pass no token
    Main,           \* the dispatching thread
    MaxRequests,    \* bounds the requests of a behaviour
    Null            \* a cancelled callback

ASSUME DispatcherAssumption ==
    /\ MainClients \subseteq Clients /\ Tokenless \subseteq Clients
    /\ Main \notin Clients /\ Null \notin Clients
    /\ MaxRequests \in Nat

VARIABLES
    mCallbacks,         \* the queue; a cancelled callback stays as Null
    mHeadToken,         \* the token of its front, an odd number
    token,              \* the client's token variable; 0 is no token
    main,               \* what the dispatching thread does: "idle" stands for
                        \* emulating or waiting for messages
    wake,               \* how far a thread is in sending a wake-up
    mAsyncWakePending,
    message             \* a wake-up message is in the main thread's queue

vars == <<mCallbacks, mHeadToken, token, main, wake, mAsyncWakePending, message>>
requests == <<mCallbacks, mHeadToken, token>>

Threads == {Main} \union (Clients \ MainClients)
ThreadOf(c) == IF c \in MainClients THEN Main ELSE c

Init ==
    /\ mCallbacks = <<>>
    /\ mHeadToken = 1
    /\ token = [c \in Clients |-> 0]
    /\ main = "idle"
    /\ wake = [t \in Threads |-> "none"]
    /\ mAsyncWakePending = FALSE
    /\ message = FALSE

\* A worker calls any time, a main client from emulation code or a callback.
MayCall(c) ==
    /\ wake[ThreadOf(c)] = "none"
    /\ c \in MainClients => main \in {"idle", "callback"}

\* Bug: tokens taken to be consecutive numbers.
CancelUnhalved(tok) ==
    LET offset == tok - mHeadToken
    IN IF tok % 2 = 1 /\ tok >= mHeadToken /\ offset < Len(mCallbacks)
       THEN [mCallbacks EXCEPT ![offset + 1] = Null]
       ELSE mCallbacks

\* InternalCancel: the queue without the callback the token refers to, if that
\* is still in it (the offset of an older token wraps to a huge number).
InternalCancel(tok) ==
    LET offset == (tok - mHeadToken) \div 2
    IN IF tok % 2 = 1 /\ tok >= mHeadToken /\ offset < Len(mCallbacks)
       THEN [mCallbacks EXCEPT ![offset + 1] = Null]
       ELSE mCallbacks

\* Bug: isFirst tested after the callback was pushed.
NeverFirst == FALSE
IsFirst == mCallbacks = <<>>

\* Queue, up to the end of its critical section.
Queue(c) ==
    /\ MayCall(c)
    /\ (mHeadToken \div 2) + Len(mCallbacks) < MaxRequests
    /\ IF c \in Tokenless
       THEN mCallbacks' = Append(mCallbacks, c) /\ UNCHANGED token
       ELSE /\ mCallbacks' = Append(InternalCancel(token[c]), c)
            /\ token' = [token EXCEPT ![c] = mHeadToken + 2 * Len(mCallbacks)]
    /\ wake' = [wake EXCEPT ![ThreadOf(c)] = IF IsFirst THEN "check" ELSE "none"]
    /\ UNCHANGED <<mHeadToken, main, mAsyncWakePending, message>>

\* The wake callback, which no lock protects: look at the flag, set it, post.
CheckWakePending(t) ==
    /\ wake[t] = "check"
    /\ wake' = [wake EXCEPT ![t] = IF mAsyncWakePending THEN "none" ELSE "set"]
    /\ UNCHANGED <<requests, main, mAsyncWakePending, message>>

SetWakePending(t) ==
    /\ wake[t] = "set"
    /\ wake' = [wake EXCEPT ![t] = "post"]
    /\ mAsyncWakePending' = TRUE
    /\ UNCHANGED <<requests, main, message>>

\* mAsyncWakeFunction posts a message to the main window.
PostWake(t) ==
    /\ wake[t] = "post"
    /\ wake' = [wake EXCEPT ![t] = "none"]
    /\ message' = TRUE
    /\ UNCHANGED <<requests, main, mAsyncWakePending>>

Cancel(c) ==
    /\ MayCall(c) /\ c \notin Tokenless
    /\ mCallbacks' = InternalCancel(token[c])
    /\ token' = [token EXCEPT ![c] = 0]
    /\ UNCHANGED <<mHeadToken, main, wake, mAsyncWakePending, message>>

-----------------------------------------------------------------------------
MainFree == main = "idle" /\ wake[Main] = "none"

\* Bug: the flag stays set.
OnWakeKeepingFlag ==
    /\ MainFree /\ message
    /\ message' = FALSE
    /\ main' = "run"
    /\ UNCHANGED <<requests, wake, mAsyncWakePending>>

\* The message arrives: ATSimulator::OnWake.
OnWake ==
    /\ MainFree /\ message
    /\ message' = FALSE
    /\ mAsyncWakePending' = FALSE
    /\ main' = "run"
    /\ UNCHANGED <<requests, wake>>

\* AnticEndScanline calls RunCallbacks.
EndScanline ==
    /\ MainFree
    /\ main' = "run"
    /\ UNCHANGED <<requests, wake, mAsyncWakePending, message>>

\* Bugs: the head token advances by one; or not for cancelled callbacks.
HeadTokenByOne(front) == mHeadToken + 1
HeadTokenOfCalled(front) == IF front = Null THEN mHeadToken ELSE mHeadToken + 2
NextHeadToken(front) == mHeadToken + 2

\* One turn of RunCallbacks: take the front under the lock, call it without.
RunNext ==
    /\ main = "run" /\ mCallbacks # <<>>
    /\ mHeadToken' = NextHeadToken(Head(mCallbacks))
    /\ mCallbacks' = Tail(mCallbacks)
    /\ main' = IF Head(mCallbacks) = Null THEN "run" ELSE "callback"
    /\ UNCHANGED <<token, wake, mAsyncWakePending, message>>

CallbackReturns ==
    /\ main = "callback" /\ wake[Main] = "none"
    /\ main' = "run"
    /\ UNCHANGED <<requests, wake, mAsyncWakePending, message>>

FinishRun ==
    /\ main = "run" /\ mCallbacks = <<>>
    /\ main' = "idle"
    /\ UNCHANGED <<requests, wake, mAsyncWakePending, message>>

WakeStep(t) == CheckWakePending(t) \/ SetWakePending(t) \/ PostWake(t)

Next ==
    \/ \E c \in Clients : Queue(c) \/ Cancel(c)
    \/ \E t \in Threads : WakeStep(t)
    \/ OnWake \/ EndScanline \/ RunNext \/ CallbackReturns \/ FinishRun

Spec == Init /\ [][Next]_vars

\* The message loop takes every message, RunCallbacks and the wake callback are
\* straight-line code, callbacks return.  Nothing is assumed of EndScanline: the
\* emulation may stand still.  A callback may keep calling the dispatcher, so
\* that returning from it is enabled only time and again.
FairSpec ==
    /\ Spec
    /\ SF_vars(OnWake) /\ SF_vars(CallbackReturns)
    /\ WF_vars(RunNext) /\ WF_vars(FinishRun)
    /\ \A t \in Threads : WF_vars(WakeStep(t))

-----------------------------------------------------------------------------
MaxToken == 2 * MaxRequests + 1

TypeOK ==
    /\ mCallbacks \in Seq(Clients \union {Null})
    /\ mHeadToken \in 1 .. MaxToken /\ mHeadToken % 2 = 1
    /\ token \in [Clients -> 0 .. MaxToken]
    /\ main \in {"idle", "run", "callback"}
    /\ wake \in [Threads -> {"none", "check", "set", "post"}]
    /\ mAsyncWakePending \in BOOLEAN /\ message \in BOOLEAN

\* A request in the queue is the last one made on its client's token and the
\* token still leads to it, however many callbacks were run or cancelled since:
\* Cancel always stops a request that has not been taken, and after Cancel on
\* the dispatching thread the callback is not called (asyncdispatcher.h).
TokensReachRequests ==
    \A i \in DOMAIN mCallbacks :
        mCallbacks[i] \in Clients \ Tokenless =>
            token[mCallbacks[i]] = mHeadToken + 2 * (i - 1)

\* A token is never ahead of the queue, and one that is still held when its request
\* has been run leads to nobody else's request: Cancel and Queue with it stop no
\* stranger's callback.
TokensAreOwn ==
    \A c \in Clients \ Tokenless :
        /\ token[c] < mHeadToken + 2 * Len(mCallbacks)
        /\ \A i \in 1 .. Len(mCallbacks) :
              token[c] = mHeadToken + 2 * (i - 1) => mCallbacks[i] \in {c, Null}

\* A token leads to the request that was made on it, as long as that is in the queue,
\* and to no other, at any distance between the head and the tokens that are held.
TokensLeadToRequests == TokensReachRequests /\ TokensAreOwn

\* When callbacks wait and the dispatching thread is not running any, a wake-up
\* is on its way, although it is only sent for the first callback, after the
\* lock is released, and only if none seems to be pending.
NoLostWakeup ==
    mCallbacks # <<>> /\ main = "idle" =>
        message \/ \E t \in Threads : wake[t] # "none"

\* Every request is run unless it is cancelled, even if the emulation stands still.
EveryRequestRuns ==
    \A c \in Clients \ Tokenless : Contains(mCallbacks, c) ~> ~ Contains(mCallbacks, c)

INSTANCE Packing

\* Without its cancelled entries the queue is a plain queue with cancellation.
Waiting == Packed(mCallbacks)
Abstract == INSTANCE CancelableQueue WITH waiting <- Waiting
ImplementsQueue == Abstract!Spec
=============================================================================
