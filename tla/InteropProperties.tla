-------------------------- MODULE InteropProperties --------------------------
(***************************************************************************)
(* What the factory's discovery of devices, its contexts and its streams   *)
(* may be relied on for.                                                   *)
(***************************************************************************)
EXTENDS Interop

AllContexts == ({"primary"} \X CudaDevices) \cup ({"cig"} \X (1..MaxContexts))
Places == {"idle", "create", "publish", "destroy", "stream", "newStream", "newEvent", "use",
           "freeEvent", "freeStream", "push"}

(* Every variable has its type. *)
TypeOK ==
  /\ env \in Environments /\ infos \subseteq CudaDevices
  /\ \A e \in Range(published) : e.cuda \in CudaDevices \cup {0}
  /\ cig \in [DeviceIds -> AllContexts \cup {None}]
  /\ contexts \in Seq([device : CudaDevices, live : BOOLEAN]) /\ Len(contexts) <= MaxContexts
  /\ \A t \in Threads :
       /\ thread[t].at \in Places
       /\ thread[t].device \in DeviceIds \cup {0}
       /\ thread[t].context \in AllContexts \cup {None}
       /\ thread[t].stack \in Seq(AllContexts) /\ thread[t].found \in Seq(AllContexts)
       /\ thread[t].slot \in Streams \cup {None}
       /\ thread[t].previous \in AllContexts \cup {None} /\ thread[t].changed \in BOOLEAN
  /\ \A s \in Streams :
       /\ \/ stream[s] = None
          \/ stream[s] \in [context : AllContexts, lies : AllContexts]
       /\ event[s] \in AllContexts \cup {None}

(* The three judgements of a device agree.  In a process with a driver, a    *)
(* published device is one that CreateEp accepts, that has memory infos, and *)
(* that no driver new enough makes incompatible; no two published devices    *)
(* are the same CUDA device; an NVIDIA GPU that is not published is one      *)
(* CreateEp refuses and the diagnosis calls incompatible, or there was no    *)
(* room.  In a sandbox, only a compile-only session gets an EP, and for a    *)
(* target that TensorRT RTX can compile for.                                 *)
Newest == <<9999, 0>>
JudgementsAgree ==
  IF env.lockdown
  THEN \A e \in Range(published) :
         /\ e.target \in NamedSMs /\ infos = {}
         /\ ~CreateEpAccepts(TRUE, NoKey, FALSE)
  ELSE /\ \A i, j \in DOMAIN published : i # j => published[i].cuda # published[j].cuda
       /\ infos # {} =>
            \A i \in DOMAIN Hardware :
              LET h == Hardware[i]
                  isPublished == \E e \in Range(published) : e.hardware = i
              IN /\ isPublished =>
                      /\ CreateEpAccepts(FALSE, h, FALSE)
                      /\ Incompatibility(h, Newest) = "none"
                      /\ CudaIndex(h) \in infos
                 /\ (IsNvidiaGpu(h) /\ ~isPublished) =>
                      \/ Len(published) = MaxEpDevices
                      \/ /\ ~CreateEpAccepts(FALSE, h, FALSE)
                         /\ Incompatibility(h, Newest) = "device"

(* No graphics context is lost or destroyed twice, whichever threads         *)
(* initialise and deinitialise the same device: one that is alive is in the  *)
(* map, for its device, or in the hands of exactly one call that will        *)
(* publish or destroy it; one in the map is alive.                           *)
Holders(c) ==
  {d \in DeviceIds : cig[d] = c}
     \cup {t \in Threads : At(t, "publish") /\ thread[t].context = c}
     \cup {t \in Threads : At(t, "destroy") /\ thread[t].context = c}
NoContextLost ==
  /\ \A n \in DOMAIN contexts :
       Cardinality(Holders(Graphics(n))) = IF contexts[n].live THEN 1 ELSE 0
  /\ \A d \in DeviceIds : cig[d] # None => DeviceOf(cig[d]) = d

(* The caller of a call on streams, notifications or imported resources has  *)
(* its own context current again afterwards, and below it what was there,    *)
(* whether the call succeeds, fails on entry or fails inside.  The exceptions *)
(* are two: a device that is selected because nothing was current stays so,  *)
(* where the code means it to (a stream without a graphics context, an       *)
(* import), and a context that another thread has destroyed in the meantime  *)
(* cannot be set again.                                                      *)
Borrows(t) == ~At(t, "create") /\ ~At(t, "publish") /\ ~At(t, "destroy")
Found(t) == IF At(t, "idle") THEN thread[t].stack ELSE thread[t].found
SelectsDevice(t) ==
  \/ At(t, "stream") /\ thread[t].context = None
  \/ At(t, "push") /\ thread[t].slot = None
  \/ At(t, "idle") /\ \E e \in Range(published) : BeginImport(t, e)
CallersContextKept ==
  [][\A t \in Threads :
       (Borrows(t) /\ At(t, "idle")' /\ ~(\E e \in Range(published) : SelectDevice(t, e))) =>
         \/ thread[t].stack' = Found(t)
         \/ Found(t) = <<>> /\ SelectsDevice(t) /\ Len(thread[t].stack') = 1
         \/ /\ Found(t) # <<>> /\ ~Live(Last(Found(t)))
            /\ thread[t].stack' # <<>> /\ Front(thread[t].stack') = Front(Found(t))]_vars

(* What is made lies where it is remembered to lie: a stream in the context  *)
(* that its later calls will make current, and a notification's event in the *)
(* context of its stream, as recording it needs, whichever context the       *)
(* caller has current and whatever fails on the way.                         *)
MadeWhereRemembered ==
  \A s \in Streams :
    /\ stream[s] # None => stream[s].lies = stream[s].context
    /\ event[s] # None => stream[s] # None /\ event[s] = stream[s].lies
=============================================================================
