-------------------------- MODULE GpuSyncAllocator --------------------------
(***************************************************************************)
(* GpuSyncAllocator (src/gpu_sync_allocator.h): the adapter TensorRT RTX   *)
(* allocates through when nv_use_sync_gpu_allocator is set.  It forwards   *)
(* to the device's arena, next to the arena's other clients.               *)
(***************************************************************************)
EXTENDS ArenaProperties

\* allocateAsync forwards to Reserve; its catch turns the device's exception
\* into nullptr, which leaves the arena as it was.
allocateAsync(bytes) == Reserve(bytes)

\* deallocateAsync forwards to Free.
deallocateAsync(p) == p \in DOMAIN reserved /\ Free(p)

\* ONNX Runtime's own calls; those with a stream have no caller in src/ today.
OtherClients ==
  \/ \E bytes \in Sizes, s \in Streams \cup {NoStream} : Allocate(bytes, s)
  \/ \E p \in DOMAIN live \ DOMAIN reserved : Free(p)
  \/ \E s \in Streams : ResetChunksUsingStream(s)
  \/ \E s, t \in Streams : Synchronize(s, t)
  \/ Shrink

SyncNext ==
  /\ ~arena.fault
  /\ \/ \E bytes \in ReserveSizes : allocateAsync(bytes)
     \/ \E p \in DOMAIN live : deallocateAsync(p)
     \/ OtherClients

SyncSpec == Init /\ [][SyncNext]_vars
=============================================================================
