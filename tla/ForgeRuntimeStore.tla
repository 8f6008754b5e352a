------------------------- MODULE ForgeRuntimeStore -------------------------
(***************************************************************************)
(* ForgeRuntime keeps the promise of PersistentStore.  The copy on the     *)
(* open device is the cached value; a borrowed host buffer caches nothing, *)
(* and the layout of a copy is invisible.                                  *)
(***************************************************************************)
EXTENDS ForgeRuntime

\* The binary asks for persistent inputs on the device: "they are moved to
\* device once and stay in the correct layout across runs" (tensor.hpp).
ASSUME DeviceLayoutAssumption ==
    \A p \in Programs, n \in Names : LayoutOf[p][n] # HostLayout

DeviceView == [n \in Names |->
                  IF OnDevice(pool[n], device) THEN pool[n].val ELSE NoOutputs]

ReadView == [p \in Programs |->
                IF outputs[p] = NoOutputs THEN NoOutputs ELSE outputs[p].read]

Store == INSTANCE PersistentStore
            WITH source <- host, cache <- DeviceView, result <- ReadView,
                 Missing <- NoOutputs

\* Every step of the runtime is a step of the store or invisible: what a
\* program reads is what is on the device or, when a tensor is absent, what
\* its host buffer holds at the time of the run, whatever layouts the programs
\* ask for and however many runs threw half-way (tensor.hpp:127-148,
\* state.cpp:39-86).
PoolIsAStore == Store!Spec

\* No run reads memory of a device that has been closed.  "In that case on
\* next use they will be pushed to the device again" (state.hpp:55-57).
NoLostRead ==
    \A p \in Programs : outputs[p] # NoOutputs =>
        \A n \in UsedBy[p] : outputs[p].read[n] # Lost

\* Once a tensor is on the device, a run may convert its layout but never
\* changes its value, even when it throws, and never drops it.
RunsKeepValues ==
    [][\A n \in Names :
          /\ OnDevice(pool[n], device)
          /\ \E p \in Programs : CallRun(p)
          => OnDevice(pool'[n], device') /\ pool'[n].val = pool[n].val
      ]_runtimeVars
=============================================================================
