------------------------------- MODULE Interop -------------------------------
(***************************************************************************)
(* Graphics interop, streams, notifications and imported resources: which  *)
(* CUDA context each thread has current, before, during and after a call,  *)
(* and in which context the factory makes what it makes.                   *)
(*                                                                         *)
(* A context is <<"primary", d>> of CUDA device d or <<"cig", n>>, the n-th *)
(* one made for a graphics queue.  A thread has a stack of contexts, the   *)
(* last one current.  A CUDA call in a destroyed context fails, and so do  *)
(* setting one current and pushing one.                                    *)
(***************************************************************************)
EXTENDS Devices

CONSTANTS
  Threads,
  Streams,       \* stream objects the application can hold at a time
  MaxContexts,   \* bound: graphics contexts ever made
  None

ASSUME InteropAssumption ==
  /\ MaxContexts \in Nat /\ None \notin Streams
  /\ \A c \in ({"primary"} \X DOMAIN Cuda) \cup ({"cig"} \X (1..MaxContexts)) : None # c

VARIABLES
  cig,       \* cig_contexts_: device id -> context
  contexts,  \* graphics contexts made: sequence of [device, live]
  thread,    \* of each thread: where its call is, with the call's locals, and its stack
  stream,    \* SyncStreamImpl with a stream of its own: [context, lies], or None:
             \* stream_context_, and the context CUDA made it in
  event      \* the context the event of a stream's notification was made in, or None

interopVars == <<cig, contexts, thread, stream, event>>
vars == <<deviceVars, interopVars>>

CudaDevices == DOMAIN Cuda
DeviceIds == CudaDevices \cup {1}    \* a virtual device is looked up under the first id
Primary(d) == <<"primary", d>>
Graphics(n) == <<"cig", n>>
(* slot is the stream a call is for; previous and changed are the members of *)
(* ScopedCudaContext; found is the stack when the call began (history).      *)
Idle == [at |-> "idle", device |-> 0, context |-> None, stack |-> <<>>, slot |-> None,
         previous |-> None, changed |-> FALSE, found |-> <<>>]

Init ==
  /\ DevicesInit
  /\ cig = [d \in DeviceIds |-> None]
  /\ contexts = <<>>
  /\ thread = [t \in Threads |-> Idle]
  /\ stream = [s \in Streams |-> None]
  /\ event = [s \in Streams |-> None]

-----------------------------------------------------------------------------
(* CUDA.                                                                     *)
Live(c) == IF c[1] = "primary" THEN TRUE ELSE contexts[c[2]].live
DeviceOf(c) == IF c[1] = "primary" THEN c[2] ELSE contexts[c[2]].device
Current(t) == IF thread[t].stack = <<>> THEN None ELSE Last(thread[t].stack)
(* A call with no context current goes to the first device.                  *)
CallContext(t) == IF Current(t) = None THEN Primary(1) ELSE Current(t)
(* cuCtxSetCurrent replaces the top, cuCtxCreate pushes.                     *)
WithCurrent(stack, c) == IF stack = <<>> THEN <<c>> ELSE [stack EXCEPT ![Len(stack)] = c]
WithoutCurrent(stack, c) ==
  IF stack # <<>> /\ Last(stack) = c THEN Front(stack) ELSE stack

At(t, where) == thread[t].at = where
Step(t, r) == thread' = [thread EXCEPT ![t] = r]
Leave(t, stack) == Step(t, [Idle EXCEPT !.stack = stack])
Return(t) == Leave(t, thread[t].stack)

GetCigContext(d) == cig[d]

-----------------------------------------------------------------------------
(* InitGraphicsInterop.  Its checks first: a context of the device that is   *)
(* there makes it fail, an unsuitable API or queue makes it return.          *)
BeginInit(t, e) ==
  /\ At(t, "idle") /\ e \in Range(published)
  /\ GetCigContext(ParseDeviceId(e)) = None
  /\ Step(t, [thread[t] EXCEPT !.at = "create", !.device = ParseDeviceId(e)])
  /\ UNCHANGED <<deviceVars, cig, contexts, stream, event>>

(* cuCtxCreate leaves the new context current.                               *)
CreateContext(t) ==
  /\ At(t, "create")
  /\ \/ /\ Return(t) /\ UNCHANGED contexts
     \/ /\ ~env.lockdown /\ Len(contexts) < MaxContexts
        /\ LET c == Graphics(Len(contexts) + 1)
           IN /\ contexts' = Append(contexts, [device |-> thread[t].device, live |-> TRUE])
              /\ Step(t, [thread[t] EXCEPT !.at = "publish", !.context = c, !.stack = Append(@, c)])
  /\ UNCHANGED <<deviceVars, cig, stream, event>>

(* (mutant) The second look is left out. *)
PublishUnchecked(t) ==
  /\ At(t, "publish")
  /\ cig' = [cig EXCEPT ![thread[t].device] = thread[t].context]
  /\ Return(t)
  /\ UNCHANGED <<deviceVars, contexts, stream, event>>

PublishContext(t) ==
  /\ At(t, "publish")
  /\ IF cig[thread[t].device] = None
     THEN /\ cig' = [cig EXCEPT ![thread[t].device] = thread[t].context]
          /\ Return(t)
     ELSE /\ Step(t, [thread[t] EXCEPT !.at = "destroy"])
          /\ UNCHANGED cig
  /\ UNCHANGED <<deviceVars, contexts, stream, event>>

(* DeinitGraphicsInterop takes the context out under the lock ...            *)
BeginDeinit(t, e) ==
  /\ At(t, "idle") /\ e \in Range(published)
  /\ cig[ParseDeviceId(e)] # None
  /\ cig' = [cig EXCEPT ![ParseDeviceId(e)] = None]
  /\ Step(t, [thread[t] EXCEPT !.at = "destroy", !.context = cig[ParseDeviceId(e)]])
  /\ UNCHANGED <<deviceVars, contexts, stream, event>>

(* ... and both destroy outside it: cuCtxDestroy pops the context if it is   *)
(* current to the calling thread, and takes its streams and events with it.  *)
DestroyContext(t) ==
  /\ At(t, "destroy")
  /\ contexts' = [contexts EXCEPT ![thread[t].context[2]].live = FALSE]
  /\ Leave(t, WithoutCurrent(thread[t].stack, thread[t].context))
  /\ UNCHANGED <<deviceVars, cig, stream, event>>

-----------------------------------------------------------------------------
(* The EP constructor selects its device.                                    *)
SelectDevice(t, e) ==
  /\ At(t, "idle") /\ e \in Range(published) /\ CreateEpAccepts(env.lockdown, Hardware[e.hardware], FALSE)
  /\ Step(t, [thread[t] EXCEPT !.stack = WithCurrent(@, Primary(e.cuda))])
  /\ UNCHANGED <<deviceVars, cig, contexts, stream, event>>

-----------------------------------------------------------------------------
(* A call that needs another context than its caller's.                      *)
Inside(t, where, s, stack, changed) ==
  Step(t, [thread[t] EXCEPT !.at = where, !.device = 0, !.slot = s, !.stack = stack,
                            !.previous = Current(t), !.changed = changed,
                            !.found = thread[t].stack])

(* (mutant) The status of the constructor is not looked at. *)
SetContextUnchecked(t, where, s, c) ==
  \/ Current(t) = c /\ Inside(t, where, s, thread[t].stack, FALSE)
  \/ Current(t) # c /\ Live(c) /\ Inside(t, where, s, WithCurrent(thread[t].stack, c), TRUE)
  \/ Inside(t, where, s, thread[t].stack, FALSE)

(* The constructor of ScopedCudaContext: c is made current, if it is not.  A *)
(* failure is the call's, which returns it ...                               *)
SetContext(t, where, s, c) ==
  \/ Current(t) = c /\ Inside(t, where, s, thread[t].stack, FALSE)
  \/ Current(t) # c /\ Live(c) /\ Inside(t, where, s, WithCurrent(thread[t].stack, c), TRUE)
  \/ Return(t)

(* ... except in a destructor (ScopedCudaContextNoThrow), which goes on.     *)
SetContextNoThrow(t, where, s, c) ==
  \/ Current(t) # c /\ Live(c) /\ Inside(t, where, s, WithCurrent(thread[t].stack, c), TRUE)
  \/ Inside(t, where, s, thread[t].stack, FALSE)

(* (mutant) Nothing is restored if nothing was current. *)
RestoredIfAny(t) ==
  IF thread[t].changed /\ thread[t].previous # None /\ Live(thread[t].previous)
  THEN WithCurrent(thread[t].stack, thread[t].previous)
  ELSE thread[t].stack

(* The destructor sets what was current again, whatever became of the call;  *)
(* setting no context pops.  That it fails if the context is destroyed by    *)
(* now goes unnoticed.                                                       *)
Restored(t) ==
  CASE ~thread[t].changed -> thread[t].stack
    [] thread[t].changed /\ thread[t].previous = None -> Front(thread[t].stack)
    [] OTHER -> IF Live(thread[t].previous) THEN WithCurrent(thread[t].stack, thread[t].previous)
                ELSE thread[t].stack

-----------------------------------------------------------------------------
(* TensorrtRtxSyncStreamImpl::Create for a device: GetCigContext under the   *)
(* lock, then the stream.                                                    *)
BeginStream(t, e) ==
  /\ At(t, "idle") /\ e \in Range(published) /\ e.cuda \in infos
  /\ \E s \in Streams : stream[s] = None
  /\ Step(t, [thread[t] EXCEPT !.at = "stream", !.device = e.cuda,
                             !.context = GetCigContext(e.cuda), !.found = thread[t].stack])
  /\ UNCHANGED <<deviceVars, cig, contexts, stream, event>>

MakeStream(s, remembered, c) ==
  \/ /\ stream[s] = None /\ Live(c)
     /\ stream' = [stream EXCEPT ![s] = [context |-> remembered, lies |-> c]]
  \/ UNCHANGED stream                                           \* the call fails

(* With a graphics context: inside it.                                       *)
EnterGraphics(t) ==
  /\ At(t, "stream") /\ thread[t].context # None
  /\ SetContext(t, "newStream", None, thread[t].context)
  /\ UNCHANGED <<deviceVars, cig, contexts, stream, event>>

CreateGraphicsStream(t, s) ==
  /\ At(t, "newStream")
  /\ MakeStream(s, thread[t].context, CallContext(t))
  /\ Leave(t, Restored(t))
  /\ UNCHANGED <<deviceVars, cig, contexts, event>>

(* Without: a context that is current is kept, and the device selected if    *)
(* there is none.  The stream's context is the one CUDA says it has.         *)
StackForStream(t) ==
  IF thread[t].stack # <<>> THEN thread[t].stack ELSE <<Primary(thread[t].device)>>

CreateStream(t, s) ==
  /\ At(t, "stream") /\ thread[t].context = None
  /\ LET c == Last(StackForStream(t)) IN MakeStream(s, c, c)
  /\ Leave(t, StackForStream(t))
  /\ UNCHANGED <<deviceVars, cig, contexts, event>>

-----------------------------------------------------------------------------
(* Calls on a stream, one at a time, each inside the stream's context: make  *)
(* its notification, in the context CUDA says the stream has; record and     *)
(* wait for one, flush; destroy the notification, and then the stream.       *)
Idling(t, s) == At(t, "idle") /\ stream[s] # None /\ \A u \in Threads : thread[u].slot # s

EnterStream(t, s) ==
  /\ Idling(t, s)
  /\ \/ event[s] = None /\ SetContext(t, "newEvent", s, stream[s].lies)
     \/ SetContext(t, "use", s, stream[s].context)
     \/ event[s] # None /\ SetContextNoThrow(t, "freeEvent", s, event[s])
     \/ event[s] = None /\ SetContextNoThrow(t, "freeStream", s, stream[s].context)
  /\ UNCHANGED <<deviceVars, cig, contexts, stream, event>>

CreateNotification(t) ==
  /\ At(t, "newEvent")
  /\ \/ Live(CallContext(t)) /\ event' = [event EXCEPT ![thread[t].slot] = CallContext(t)]
     \/ UNCHANGED event
  /\ Leave(t, Restored(t))
  /\ UNCHANGED <<deviceVars, cig, contexts, stream>>

UseStream(t) ==
  /\ At(t, "use")
  /\ Leave(t, Restored(t))
  /\ UNCHANGED <<deviceVars, cig, contexts, stream, event>>

ReleaseNotification(t) ==
  /\ At(t, "freeEvent")
  /\ event' = [event EXCEPT ![thread[t].slot] = None]
  /\ Leave(t, Restored(t))
  /\ UNCHANGED <<deviceVars, cig, contexts, stream>>

ReleaseStream(t) ==
  /\ At(t, "freeStream")
  /\ stream' = [stream EXCEPT ![thread[t].slot] = None]
  /\ Leave(t, Restored(t))
  /\ UNCHANGED <<deviceVars, cig, contexts, event>>

-----------------------------------------------------------------------------
(* The importer of external resources, of a device with memory infos.        *)
(* ScopedCudaContextPush pushes, for an import, the context that is current, *)
(* or selects the device, which then stays current, and, for a semaphore of  *)
(* a stream, the stream's context; its destructor pops.                      *)
PushContext(t, s, base, c) ==
  \/ Live(c) /\ Step(t, [thread[t] EXCEPT !.at = "push", !.slot = s, !.stack = Append(base, c),
                                          !.found = thread[t].stack])
  \/ Leave(t, base)

BaseForImport(t, d) == IF thread[t].stack # <<>> THEN thread[t].stack ELSE <<Primary(d)>>

BeginImport(t, e) ==
  /\ At(t, "idle") /\ e \in Range(published) /\ ParseDeviceId(e) \in infos
  /\ LET base == BaseForImport(t, ParseDeviceId(e)) IN PushContext(t, None, base, Last(base))
  /\ UNCHANGED <<deviceVars, cig, contexts, stream, event>>

BeginSemaphore(t, s) ==
  /\ Idling(t, s)
  /\ PushContext(t, s, thread[t].stack, stream[s].lies)
  /\ UNCHANGED <<deviceVars, cig, contexts, stream, event>>

PopContext(t) ==
  /\ At(t, "push")
  /\ Leave(t, Front(thread[t].stack))
  /\ UNCHANGED <<deviceVars, cig, contexts, stream, event>>

-----------------------------------------------------------------------------
Next ==
  \/ GetSupportedDevices /\ UNCHANGED interopVars
  \/ \E t \in Threads :
       \/ \E e \in Range(published) :
            \/ BeginInit(t, e) \/ BeginDeinit(t, e) \/ SelectDevice(t, e) \/ BeginStream(t, e)
            \/ BeginImport(t, e)
       \/ CreateContext(t) \/ PublishContext(t) \/ DestroyContext(t)
       \/ EnterGraphics(t) \/ CreateNotification(t) \/ UseStream(t)
       \/ ReleaseNotification(t) \/ ReleaseStream(t) \/ PopContext(t)
       \/ \E s \in Streams : CreateGraphicsStream(t, s) \/ CreateStream(t, s)
                             \/ EnterStream(t, s) \/ BeginSemaphore(t, s)

Spec == Init /\ [][Next]_vars
=============================================================================
