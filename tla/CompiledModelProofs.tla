------------------------ MODULE CompiledModelProofs ------------------------
(***************************************************************************)
(* The tensor pool is a persistent store, for any names, programs and      *)
(* layouts; and a compiled model trains its weights correctly, for any     *)
(* order of calls, runs that throw included; both as long as nobody closes *)
(* a device that still holds tensors.                                      *)
(***************************************************************************)
EXTENDS CompiledModel, ForgeRuntimeStore, TLAPS

-----------------------------------------------------------------------------
(* The runtime: the tensor pool *)

\* What a runtime tensor is while generation dev of the device is open: only
\* copies have a device layout, and they are on the open device.
Sound(rt, dev) ==
    /\ rt.kind # "copy" => rt.layout = HostLayout
    /\ rt.kind = "copy" => /\ rt.layout # HostLayout
                           /\ dev # 0 /\ rt.gen = dev
                           /\ rt.val \in Nat

PoolSound == \A n \in Names : Sound(pool[n], device)

HostKnown == host \in [Names -> Nat]

OutputsSound ==
    \A p \in Programs : outputs[p] # NoOutputs =>
        /\ device # 0 /\ outputs[p].gen = device
        /\ \A n \in UsedBy[p] : outputs[p].read[n] \in Nat

\* NoLostRead is not inductive: that a run reads no lost value rests on the
\* pool, which holds no copy of an earlier generation, and the pool after an
\* update rests on the outputs.
IInv == RuntimeTypeOK /\ PoolSound /\ HostKnown /\ OutputsSound

-----------------------------------------------------------------------------
\* TensorImpl

LEMMA RtTensorTypes ==
    /\ NoRt \in RtTensor /\ Borrowed \in RtTensor
    /\ \A layout \in Layouts, val \in Values, gen \in Nat :
          Copy(layout, val, gen) \in RtTensor
  BY LayoutAssumption DEF NoRt, Borrowed, Copy, RtTensor, Values, LayoutAssumption

\* to_layout and a read keep to the types.
LEMMA ToLayoutType ==
    ASSUME NEW rt \in RtTensor, NEW layout \in Layouts, NEW hostVal \in Values,
           NEW gen \in Nat
    PROVE  /\ ToLayout(rt, layout, hostVal, gen) \in RtTensor
           /\ EnsureRt(rt) \in RtTensor
           /\ ValueOf(rt, hostVal, gen) \in Values
  <1>1. EnsureRt(rt) \in RtTensor
    BY RtTensorTypes DEF EnsureRt
  <1>2. \A t \in RtTensor : ValueOf(t, hostVal, gen) \in Values
    BY DEF ValueOf, RtTensor, Values
  <1>3. Copy(layout, ValueOf(EnsureRt(rt), hostVal, gen), gen) \in RtTensor
    BY <1>1, <1>2, RtTensorTypes
  <1> QED
    BY <1>1, <1>2, <1>3 DEF ToLayout

\* A sound tensor brought to a device layout is a copy on the device, with the
\* value it had there, or that of the host buffer if it was not there.
LEMMA ToLayoutSound ==
    ASSUME NEW rt \in RtTensor, NEW layout \in Layouts \ {HostLayout},
           NEW hostVal \in Nat, NEW dev \in Nat, NEW gen \in Nat \ {0},
           dev # 0 => gen = dev, Sound(rt, dev)
    PROVE  LET t == ToLayout(rt, layout, hostVal, gen)
           IN  /\ Sound(t, gen) /\ OnDevice(t, gen)
               /\ t.val = IF OnDevice(rt, dev) THEN rt.val ELSE hostVal
               /\ ValueOf(t, hostVal, gen) = t.val
               /\ t.val \in Nat
  <1> DEFINE t == ToLayout(rt, layout, hostVal, gen)
  <1>1. CASE rt.kind = "copy" /\ rt.layout = layout
    <2>1. t = rt
      BY <1>1 DEF ToLayout, EnsureRt, HasRt
    <2> QED
      BY <1>1, <2>1 DEF Sound, OnDevice, ValueOf, Dead
  <1>2. CASE rt.kind = "copy" /\ rt.layout # layout
    <2>1. rt.gen = dev /\ gen = dev /\ rt.layout # HostLayout /\ rt.val \in Nat
      BY <1>2 DEF Sound
    <2>2. t = Copy(layout, rt.val, gen)
      BY <1>2, <2>1 DEF ToLayout, EnsureRt, HasRt, ValueOf, Dead
    <2> QED
      BY <1>2, <2>1, <2>2 DEF Sound, OnDevice, ValueOf, Dead, Copy
  <1>3. CASE rt.kind # "copy"
    <2>1. EnsureRt(rt).kind = "borrowed" /\ EnsureRt(rt).layout = HostLayout
      BY <1>3 DEF EnsureRt, HasRt, Borrowed, NoRt, Sound, RtTensor
    <2>2. t = Copy(layout, hostVal, gen)
      BY <2>1 DEF ToLayout, ValueOf
    <2> QED
      BY <1>3, <2>2 DEF Sound, OnDevice, ValueOf, Dead, Copy
  <1> QED
    BY <1>1, <1>2, <1>3

\* What is not laid out stays what it was, or becomes a borrowed tensor.
LEMMA EnsureRtSound ==
    ASSUME NEW rt \in RtTensor, NEW dev \in Nat, NEW gen \in Nat \ {0},
           dev # 0 => gen = dev, Sound(rt, dev)
    PROVE  /\ Sound(rt, gen) /\ Sound(EnsureRt(rt), gen)
           /\ OnDevice(rt, gen) <=> OnDevice(rt, dev)
           /\ OnDevice(EnsureRt(rt), gen) <=> OnDevice(rt, dev)
           /\ OnDevice(rt, dev) => EnsureRt(rt) = rt
  <1>1. Sound(rt, gen) /\ (OnDevice(rt, gen) <=> OnDevice(rt, dev))
    BY DEF Sound, OnDevice
  <1>2. CASE HasRt(rt)
    BY <1>1, <1>2 DEF EnsureRt
  <1>3. CASE ~HasRt(rt)
    BY <1>1, <1>3 DEF EnsureRt, HasRt, Sound, OnDevice, Borrowed, NoRt
  <1> QED
    BY <1>2, <1>3

-----------------------------------------------------------------------------
\* Constants

LEMMA InputNames ==
    ASSUME NEW p \in Programs
    PROVE  /\ UsedBy[p] \subseteq Names
           /\ Len(PersistentInputs[p]) \in Nat
           /\ \A k \in 0..Len(PersistentInputs[p]) :
                 InputsUpTo(p, k) \subseteq UsedBy[p]
           /\ \A n \in Names : LayoutOf[p][n] \in Layouts \ {HostLayout}
  BY RuntimeAssumption, DeviceLayoutAssumption
     DEF RuntimeAssumption, DeviceLayoutAssumption, UsedBy, InputsUpTo

LEMMA UpdatedNames ==
    Updating \in Programs /\ Updated \subseteq UsedBy[Updating] /\ Updated \subseteq Names
  <1>1. /\ Updating \in Programs
        /\ PersistentInputs[Updating] \in Seq(Names)
        /\ Updated \subseteq {PersistentInputs[Updating][i] :
                                  i \in DOMAIN PersistentInputs[Updating]}
    BY RuntimeAssumption DEF RuntimeAssumption
  <1>2. DOMAIN PersistentInputs[Updating] = 1..Len(PersistentInputs[Updating])
    BY <1>1
  <1>3. Updated \subseteq UsedBy[Updating]
    BY <1>1, <1>2 DEF UsedBy, InputsUpTo
  <1> QED
    BY <1>1, <1>3, InputNames

-----------------------------------------------------------------------------
\* Types

LEMMA OpenedType ==
    ASSUME RuntimeTypeOK
    PROVE  Opened \in Nat
  BY DEF RuntimeTypeOK, Opened

\* What a run from the pool "from" lays out and remembers.
LEMMA SubmittedType ==
    ASSUME RuntimeTypeOK, NEW from \in [Names -> RtTensor], NEW p \in Programs
    PROVE  /\ \A n \in Names : Laid(from, p, n) \in RtTensor
           /\ [read |-> Submitted(from, p), gen |-> Opened] \in RunOutputs
  <1>1. \A n \in Names : /\ host[n] \in Values /\ from[n] \in RtTensor
                         /\ LayoutOf[p][n] \in Layouts
    BY InputNames DEF RuntimeTypeOK
  <1>2. ASSUME NEW n \in Names
        PROVE  /\ Laid(from, p, n) \in RtTensor
               /\ ValueOf(Laid(from, p, n), host[n], Opened) \in Values
    <2>1. Laid(from, p, n) \in RtTensor
      BY <1>1, OpenedType, ToLayoutType DEF Laid
    <2> QED
      BY <2>1, <1>1, OpenedType, ToLayoutType
  <1>3. Submitted(from, p) \in [Names -> Values \cup {NotRead}]
    BY <1>2 DEF Submitted
  <1> QED
    BY <1>2, <1>3, OpenedType DEF RunOutputs, Reads

LEMMA RunType ==
    ASSUME RuntimeTypeOK, NEW from \in [Names -> RtTensor], NEW p \in Programs,
           RunProgram(from, p) \/ RunFails(from, p)
    PROVE  RuntimeTypeOK'
  <1>1. device' \in Nat /\ gens' \in Nat /\ host' = host
    BY OpenedType DEF RunProgram, RunFails, RunProgramThrows, RunProgramThrowsEarly,
                      OpenForRun, RuntimeTypeOK
  <1>2. outputs' \in [Programs -> RunOutputs \cup {NoOutputs}]
    BY SubmittedType DEF RunProgram, RunFails, RunProgramThrows, RunProgramThrowsEarly,
                         RuntimeTypeOK
  <1>3. \A n \in Names : /\ from[n] \in RtTensor /\ EnsureRt(from[n]) \in RtTensor
                         /\ Laid(from, p, n) \in RtTensor
    BY SubmittedType, RtTensorTypes DEF EnsureRt
  <1>4. pool' \in [Names -> RtTensor]
    <2>1. CASE RunProgram(from, p)
      BY <2>1, <1>3 DEF RunProgram
    <2>2. CASE RunProgramThrowsEarly(from, p)
      BY <2>2 DEF RunProgramThrowsEarly
    <2>3. ASSUME NEW k \in 0..Len(PersistentInputs[p]), RunProgramThrows(from, p, k)
          PROVE  pool' \in [Names -> RtTensor]
      BY <2>3, <1>3 DEF RunProgramThrows
    <2> QED
      BY <2>1, <2>2, <2>3 DEF RunFails
  <1> QED
    BY <1>1, <1>2, <1>4 DEF RuntimeTypeOK

LEMMA TensorType ==
    ASSUME RuntimeTypeOK, NEW n \in Names, CallTensor(n)
    PROVE  RuntimeTypeOK'
  <1>1. CASE WriteHost(n) /\ Bounded(n)
    BY <1>1 DEF WriteHost, Bounded, RuntimeTypeOK, Values
  <1>2. CASE UpdateHostData(n)
    <2>1. ValueOf(pool[n], host[n], device) \in Values
      BY DEF RuntimeTypeOK, ValueOf, RtTensor, Values
    <2> QED
      BY <1>2, <2>1 DEF UpdateHostData, RuntimeTypeOK
  <1>3. CASE Detach({n})
    BY <1>3, RtTensorTypes DEF Detach, Detached, DetachFromDevice, RuntimeTypeOK
  <1> QED
    BY <1>1, <1>2, <1>3 DEF CallTensor

LEMMA UpdateType ==
    ASSUME RuntimeTypeOK, NEW n \in Updated, CallUpdate(n)
    PROVE  RuntimeTypeOK'
  <1>1. /\ n \in Names /\ Updating \in Programs
        /\ LayoutOf[Updating][n] \in Layouts
    BY UpdatedNames, InputNames
  <1>2. /\ outputs[Updating] \in RunOutputs
        /\ outputs[Updating].read[n] \in Nat
    BY <1>1, RuntimeAssumption DEF CallUpdate, RuntimeTypeOK, RuntimeAssumption
  <1>3. /\ outputs[Updating].gen \in Nat
        /\ outputs[Updating].read[n] # Lost
        /\ outputs[Updating].read[n] + 1 \in Values
    BY <1>2, LostAssumption DEF RunOutputs, LostAssumption, Values
  <1>4. UpdatedTensor(n, outputs[Updating]) \in RtTensor
    BY <1>1, <1>3, RtTensorTypes DEF UpdatedTensor
  <1> QED
    BY <1>4 DEF CallUpdate, UpdateTensor, RuntimeTypeOK

LEMMA NextType == RuntimeTypeOK /\ [RuntimeNext]_runtimeVars => RuntimeTypeOK'
  <1> SUFFICES ASSUME RuntimeTypeOK, [RuntimeNext]_runtimeVars
               PROVE  RuntimeTypeOK'
    OBVIOUS
  <1>1. CASE UNCHANGED runtimeVars
    BY <1>1 DEF runtimeVars, RuntimeTypeOK
  <1>2. CASE CallDevice
    BY <1>2 DEF CallDevice, OpenDevice, CloseDevices, ConfigureDevices, RuntimeTypeOK
  <1>3. ASSUME NEW p \in Programs, CallRun(p) PROVE RuntimeTypeOK'
    BY <1>3, RunType DEF CallRun, RuntimeTypeOK
  <1>4. ASSUME NEW n \in Names, CallTensor(n) PROVE RuntimeTypeOK'
    BY <1>4, TensorType
  <1>5. ASSUME NEW n \in Updated, CallUpdate(n) PROVE RuntimeTypeOK'
    BY <1>5, UpdateType
  <1> QED
    BY <1>1, <1>2, <1>3, <1>4, <1>5 DEF RuntimeNext

LEMMA InitType == RuntimeInit => RuntimeTypeOK
  BY RtTensorTypes DEF RuntimeInit, RuntimeTypeOK, Values

\* Every call leaves the device, the pool and the outputs well-formed, also a
\* run that throws half-way and whatever the caller does with the device
\* (state.cpp:39-86, tensor.hpp:88-172).
THEOREM TypeCorrect == RuntimeSpec => []RuntimeTypeOK
  BY InitType, NextType, PTL DEF RuntimeSpec

-----------------------------------------------------------------------------
\* Reads

\* What a run lays out and reads, from a pool that is sound.
LEMMA LaidFromSound ==
    ASSUME IInv, NEW from \in [Names -> RtTensor], NEW p \in Programs,
           NEW n \in Names, Sound(from[n], device)
    PROVE  /\ Opened \in Nat \ {0} /\ (device # 0 => Opened = device)
           /\ Sound(Laid(from, p, n), Opened)
           /\ OnDevice(Laid(from, p, n), Opened)
           /\ Laid(from, p, n).val \in Nat
           /\ Laid(from, p, n).val = IF OnDevice(from[n], device)
                                     THEN from[n].val ELSE host[n]
           /\ ValueOf(Laid(from, p, n), host[n], Opened) = Laid(from, p, n).val
  <1>1. Opened \in Nat \ {0} /\ (device # 0 => Opened = device)
    BY DEF IInv, RuntimeTypeOK, Opened
  <1>2. /\ from[n] \in RtTensor /\ Sound(from[n], device) /\ host[n] \in Nat
        /\ device \in Nat /\ LayoutOf[p][n] \in Layouts \ {HostLayout}
    BY InputNames DEF IInv, RuntimeTypeOK, HostKnown
  <1> QED
    BY <1>1, <1>2, ToLayoutSound DEF Laid

LEMMA LaidSound ==
    ASSUME IInv, NEW p \in Programs, NEW n \in Names
    PROVE  /\ Opened \in Nat \ {0} /\ (device # 0 => Opened = device)
           /\ pool[n] \in RtTensor /\ Sound(pool[n], device) /\ device \in Nat
           /\ Sound(Laid(pool, p, n), Opened)
           /\ OnDevice(Laid(pool, p, n), Opened)
           /\ Laid(pool, p, n).val \in Nat
           /\ Laid(pool, p, n).val = IF OnDevice(pool[n], device)
                                     THEN pool[n].val ELSE host[n]
           /\ ValueOf(Laid(pool, p, n), host[n], Opened) = Laid(pool, p, n).val
  <1>1. pool \in [Names -> RtTensor] /\ Sound(pool[n], device) /\ device \in Nat
    BY DEF IInv, RuntimeTypeOK, PoolSound
  <1> QED
    BY <1>1, LaidFromSound

\* The outputs of the other programs survive a run: a device that was closed
\* left none.
LEMMA RunOutputsSound ==
    ASSUME IInv, NEW from \in [Names -> RtTensor], NEW p \in Programs,
           \A n \in Names : Sound(from[n], device), OpenForRun,
           \/ outputs' = [outputs EXCEPT ![p] =
                             [read |-> Submitted(from, p), gen |-> Opened]]
           \/ outputs' = [outputs EXCEPT ![p] = NoOutputs]
    PROVE  OutputsSound'
  <1> SUFFICES ASSUME NEW q \in Programs, outputs'[q] # NoOutputs
               PROVE  /\ device' # 0 /\ outputs'[q].gen = device'
                      /\ \A n \in UsedBy[q] : outputs'[q].read[n] \in Nat
    BY DEF OutputsSound
  <1>1. device' = Opened /\ outputs \in [Programs -> RunOutputs \cup {NoOutputs}]
    BY DEF OpenForRun, IInv, RuntimeTypeOK
  <1>2. Opened \in Nat \ {0} /\ (device # 0 => Opened = device)
    BY DEF IInv, RuntimeTypeOK, Opened
  <1>3. CASE q # p
    <2>1. outputs'[q] = outputs[q]
      BY <1>1, <1>3
    <2> QED
      BY <2>1, <1>1, <1>2 DEF IInv, OutputsSound
  <1>4. CASE q = p
    <2>1. outputs'[q] = [read |-> Submitted(from, p), gen |-> Opened]
      BY <1>1, <1>4
    <2>2. \A n \in UsedBy[p] : Submitted(from, p)[n] \in Nat
      BY LaidFromSound, InputNames DEF Submitted
    <2> QED
      BY <2>1, <2>2, <1>1, <1>2, <1>4
  <1> QED
    BY <1>3, <1>4

\* A run from a pool that is sound, whether it returns or throws.
LEMMA RunFromIInv ==
    ASSUME IInv, NEW from \in [Names -> RtTensor], NEW p \in Programs,
           \A n \in Names : Sound(from[n], device),
           RunProgram(from, p) \/ RunFails(from, p)
    PROVE  IInv'
  <1>1. RuntimeTypeOK'
    BY RunType DEF IInv
  <1>2. OpenForRun /\ host' = host
    BY DEF RunProgram, RunFails, RunProgramThrows, RunProgramThrowsEarly
  <1>3. OutputsSound'
    BY <1>2, RunOutputsSound
       DEF RunProgram, RunFails, RunProgramThrows, RunProgramThrowsEarly
  <1>4. ASSUME NEW n \in Names PROVE Sound(pool'[n], device')
    <2>1. \/ pool'[n] = Laid(from, p, n) \/ pool'[n] = from[n]
          \/ pool'[n] = EnsureRt(from[n])
      BY DEF RunProgram, RunFails, RunProgramThrows, RunProgramThrowsEarly
    <2>2. /\ Opened \in Nat \ {0} /\ (device # 0 => Opened = device) /\ device \in Nat
          /\ Sound(Laid(from, p, n), Opened)
      BY LaidFromSound DEF IInv, RuntimeTypeOK
    <2>3. Sound(from[n], Opened) /\ Sound(EnsureRt(from[n]), Opened)
      BY <2>2, EnsureRtSound
    <2> QED
      BY <2>1, <2>2, <2>3, <1>2 DEF OpenForRun
  <1> QED
    BY <1>1, <1>2, <1>3, <1>4 DEF IInv, PoolSound, HostKnown

LEMMA RunIInv ==
    ASSUME IInv, NEW p \in Programs, RunProgram(pool, p) \/ RunFails(pool, p)
    PROVE  IInv'
  <1>1. pool \in [Names -> RtTensor] /\ \A n \in Names : Sound(pool[n], device)
    BY DEF IInv, RuntimeTypeOK, PoolSound
  <1> QED
    BY <1>1, RunFromIInv

\* The device is only closed or opened when nothing is on it.
LEMMA DeviceIInv ==
    ASSUME ~ReconfigureAnytime, IInv, CallDevice
    PROVE  IInv'
  <1>1. RuntimeTypeOK' /\ UNCHANGED <<host, pool, outputs>>
    BY DEF CallDevice, OpenDevice, CloseDevices, ConfigureDevices, IInv, RuntimeTypeOK
  <1>2. NothingOnDevice
    <2>1. CASE device = 0
      BY <2>1 DEF IInv, PoolSound, Sound, OutputsSound, NothingOnDevice
    <2>2. CASE MayClose
      BY <2>2 DEF MayClose
    <2> QED
      BY <2>1, <2>2 DEF CallDevice, OpenDevice, CloseDevices, ConfigureDevices
  <1>3. PoolSound' /\ OutputsSound'
    BY <1>1, <1>2 DEF NothingOnDevice, IInv, PoolSound, Sound, OutputsSound
  <1> QED
    BY <1>1, <1>3 DEF IInv, HostKnown

LEMMA TensorIInv ==
    ASSUME IInv, NEW n \in Names, CallTensor(n)
    PROVE  IInv'
  <1>1. RuntimeTypeOK'
    BY TensorType DEF IInv
  <1>2. UNCHANGED <<device, outputs>>
    BY DEF CallTensor, WriteHost, UpdateHostData, Detach
  <1>3. PoolSound'
    BY <1>2 DEF CallTensor, WriteHost, UpdateHostData, Detach, Detached,
                DetachFromDevice, NoRt, IInv, PoolSound, Sound
  <1>4. HostKnown'
    <2>1. CASE WriteHost(n)
      BY <2>1 DEF WriteHost, IInv, HostKnown
    <2>2. CASE UpdateHostData(n)
      <3>1. ValueOf(pool[n], host[n], device) \in Nat
        BY <2>2 DEF UpdateHostData, HasRt, ValueOf, Dead, RtTensor,
                    IInv, PoolSound, Sound, HostKnown, RuntimeTypeOK
      <3> QED
        BY <2>2, <3>1 DEF UpdateHostData, IInv, HostKnown
    <2>3. CASE Detach({n})
      BY <2>3 DEF Detach, IInv, HostKnown
    <2> QED
      BY <2>1, <2>2, <2>3 DEF CallTensor
  <1> QED
    BY <1>1, <1>2, <1>3, <1>4 DEF IInv, OutputsSound

\* What update_tensor moves is on the open device.
LEMMA UpdatedSound ==
    ASSUME IInv, NEW n \in Updated, CallUpdate(n)
    PROVE  /\ n \in Names /\ Updating \in Programs
           /\ outputs[Updating].read[n] \in Nat
           /\ UpdatedTensor(n, outputs[Updating]).val = outputs[Updating].read[n] + 1
           /\ Sound(UpdatedTensor(n, outputs[Updating]), device)
           /\ OnDevice(UpdatedTensor(n, outputs[Updating]), device)
  <1>1. /\ n \in Names /\ Updating \in Programs /\ n \in UsedBy[Updating]
        /\ LayoutOf[Updating][n] # HostLayout
    BY UpdatedNames, InputNames
  <1>2. /\ device # 0 /\ outputs[Updating].gen = device
        /\ outputs[Updating].read[n] \in Nat
    BY <1>1 DEF CallUpdate, IInv, OutputsSound
  <1>3. outputs[Updating].read[n] # Lost
    BY <1>2, LostAssumption DEF LostAssumption
  <1> QED
    BY <1>1, <1>2, <1>3 DEF UpdatedTensor, Copy, Sound, OnDevice

LEMMA UpdateIInv ==
    ASSUME IInv, NEW n \in Updated, CallUpdate(n)
    PROVE  IInv'
  <1>1. RuntimeTypeOK'
    BY UpdateType DEF IInv
  <1>2. PoolSound'
    BY UpdatedSound DEF CallUpdate, UpdateTensor, IInv, PoolSound, RuntimeTypeOK
  <1> QED
    BY <1>1, <1>2 DEF CallUpdate, UpdateTensor, IInv, HostKnown, OutputsSound

LEMMA NextIInv ==
    ASSUME ~ReconfigureAnytime
    PROVE  IInv /\ [RuntimeNext]_runtimeVars => IInv'
  <1> SUFFICES ASSUME IInv, [RuntimeNext]_runtimeVars
               PROVE  IInv'
    OBVIOUS
  <1>1. CASE UNCHANGED runtimeVars
    BY <1>1 DEF runtimeVars, IInv, RuntimeTypeOK, PoolSound, HostKnown, OutputsSound
  <1>2. CASE CallDevice
    BY <1>2, DeviceIInv
  <1>3. ASSUME NEW p \in Programs, CallRun(p) PROVE IInv'
    BY <1>3, RunIInv DEF CallRun
  <1>4. ASSUME NEW n \in Names, CallTensor(n) PROVE IInv'
    BY <1>4, TensorIInv
  <1>5. ASSUME NEW n \in Updated, CallUpdate(n) PROVE IInv'
    BY <1>5, UpdateIInv
  <1> QED
    BY <1>1, <1>2, <1>3, <1>4, <1>5 DEF RuntimeNext

LEMMA InitIInv == RuntimeInit => IInv
  <1> SUFFICES ASSUME RuntimeInit PROVE IInv
    OBVIOUS
  <1>1. RuntimeTypeOK
    BY InitType
  <1> QED
    BY <1>1 DEF RuntimeInit, IInv, PoolSound, Sound, NoRt, HostKnown, OutputsSound

\* While nobody closes a device that holds tensors, all copies in the pool are
\* on the open device, and so are all outputs (state.cpp:39-86,
\* tensor.hpp:127-148, tt_device.cpp:62-88).
THEOREM PoolInvariant ==
    ASSUME ~ReconfigureAnytime
    PROVE  RuntimeSpec => []IInv
  BY InitIInv, NextIInv, PTL DEF RuntimeSpec

\* No run reads memory of a device that has been closed (state.hpp:55-57).
THEOREM NoReadIsLost ==
    ASSUME ~ReconfigureAnytime
    PROVE  RuntimeSpec => []NoLostRead
  <1>1. IInv => NoLostRead
    <2> SUFFICES ASSUME IInv, NEW p \in Programs, outputs[p] # NoOutputs,
                        NEW n \in UsedBy[p]
                 PROVE  outputs[p].read[n] # Lost
      BY DEF NoLostRead
    <2>1. outputs[p].read[n] \in Nat
      BY DEF IInv, OutputsSound
    <2> QED
      BY <2>1, LostAssumption DEF LostAssumption
  <1> QED
    BY <1>1, PoolInvariant, PTL

-----------------------------------------------------------------------------
\* Refinement: what the pool does is what a persistent store does.

LEMMA NoOutputsIsNoValue ==
    /\ NoOutputs \notin Nat /\ NoOutputs \notin RunOutputs
    /\ \A out \in RunOutputs : out.read # NoOutputs
  BY RuntimeAssumption DEF RuntimeAssumption, RunOutputs, Values

\* The store's current value of a tensor is what a run would read.
LEMMA CurrentValue ==
    ASSUME IInv, NEW n \in Names
    PROVE  Store!Current(n) = IF OnDevice(pool[n], device)
                              THEN pool[n].val ELSE host[n]
  <1>1. OnDevice(pool[n], device) => pool[n].val \in Nat
    BY DEF IInv, PoolSound, Sound, OnDevice
  <1> QED
    BY <1>1, NoOutputsIsNoValue DEF Store!Current, DeviceView

\* A run that lays out the tensors in S, and leaves the others or gives them a
\* borrowed tensor, fills the store with S.
LEMMA LaidFills ==
    ASSUME IInv, NEW p \in Programs, NEW S \in SUBSET Names,
           device' = Opened, pool' \in [Names -> RtTensor],
           \A n \in S : pool'[n] = Laid(pool, p, n),
           \A n \in Names \ S : pool'[n] = pool[n] \/ pool'[n] = EnsureRt(pool[n])
    PROVE  DeviceView' = Store!Filled(S)
  <1>1. ASSUME NEW n \in S
        PROVE  OnDevice(pool'[n], device') /\ pool'[n].val = Store!Current(n)
    BY <1>1, LaidSound, CurrentValue
  <1>2. ASSUME NEW n \in Names \ S
        PROVE  /\ OnDevice(pool'[n], device') <=> OnDevice(pool[n], device)
               /\ OnDevice(pool[n], device) => pool'[n].val = pool[n].val
    BY <1>2, LaidSound, EnsureRtSound
  <1> QED
    BY <1>1, <1>2 DEF DeviceView, Store!Filled

LEMMA RunRefines ==
    ASSUME IInv, IInv', NEW p \in Programs, RunProgram(pool, p)
    PROVE  Store!Use(p)
  <1>1. DeviceView' = Store!Filled(UsedBy[p])
    BY LaidFills, InputNames DEF RunProgram, OpenForRun, IInv, RuntimeTypeOK
  <1>2. Submitted(pool, p) = [n \in Names |-> IF n \in UsedBy[p]
                                             THEN Store!Current(n) ELSE NotRead]
    BY LaidSound, CurrentValue DEF Submitted
  <1>3. outputs' = [outputs EXCEPT ![p] = [read |-> Submitted(pool, p), gen |-> Opened]]
    BY DEF RunProgram
  <1>4. outputs'[p] \in RunOutputs
    BY <1>3, SubmittedType DEF IInv, RuntimeTypeOK
  <1>5. outputs'[p] # NoOutputs
    BY <1>4, NoOutputsIsNoValue
  <1>6. ReadView' = [ReadView EXCEPT ![p] = Submitted(pool, p)]
    BY <1>3, <1>5 DEF ReadView, IInv, RuntimeTypeOK
  <1> QED
    BY <1>1, <1>2, <1>6 DEF Store!Use, RunProgram

LEMMA RunFailsRefines ==
    ASSUME IInv, IInv', NEW p \in Programs, RunFails(pool, p)
    PROVE  Store!FailedUse(p)
  <1>1. device' = Opened /\ host' = host /\ pool' \in [Names -> RtTensor]
    BY DEF RunFails, RunProgramThrows, RunProgramThrowsEarly, OpenForRun, IInv,
           RuntimeTypeOK
  <1>2. \E S \in SUBSET UsedBy[p] : DeviceView' = Store!Filled(S)
    <2>1. CASE RunProgramThrowsEarly(pool, p)
      <3>1. DeviceView' = Store!Filled({})
        BY <2>1, <1>1, LaidFills DEF RunProgramThrowsEarly
      <3> QED
        BY <3>1
    <2>2. ASSUME NEW k \in 0..Len(PersistentInputs[p]), RunProgramThrows(pool, p, k)
          PROVE  DeviceView' = Store!Filled(InputsUpTo(p, k))
      <3>1. InputsUpTo(p, k) \subseteq UsedBy[p] /\ UsedBy[p] \subseteq Names
        BY InputNames
      <3>2. \A n \in InputsUpTo(p, k) : pool'[n] = Laid(pool, p, n)
        BY <2>2, <3>1 DEF RunProgramThrows
      <3>3. \A n \in Names \ InputsUpTo(p, k) :
               pool'[n] = pool[n] \/ pool'[n] = EnsureRt(pool[n])
        BY <2>2 DEF RunProgramThrows
      <3> QED
        BY <1>1, <3>1, <3>2, <3>3, LaidFills
    <2> QED
      BY <2>1, <2>2, InputNames DEF RunFails
  <1>3. ReadView' = [ReadView EXCEPT ![p] = NoOutputs]
    BY DEF RunFails, RunProgramThrows, RunProgramThrowsEarly, ReadView, IInv,
           RuntimeTypeOK
  <1> QED
    BY <1>1, <1>2, <1>3 DEF Store!FailedUse

\* Nothing is on a device that is opened or closed, so nothing is lost.
LEMMA DeviceRefines ==
    ASSUME ~ReconfigureAnytime, IInv, CallDevice
    PROVE  UNCHANGED Store!storeVars
  <1>1. UNCHANGED <<host, pool, outputs>>
    BY DEF CallDevice, OpenDevice, CloseDevices, ConfigureDevices
  <1>2. NothingOnDevice
    <2>1. CASE device = 0
      BY <2>1 DEF IInv, PoolSound, Sound, OutputsSound, NothingOnDevice
    <2>2. CASE MayClose
      BY <2>2 DEF MayClose
    <2> QED
      BY <2>1, <2>2 DEF CallDevice, OpenDevice, CloseDevices, ConfigureDevices
  <1>3. DeviceView' = DeviceView
    BY <1>1, <1>2 DEF NothingOnDevice, OnDevice, DeviceView
  <1> QED
    BY <1>1, <1>3 DEF Store!storeVars, ReadView

LEMMA TensorRefines ==
    ASSUME IInv, NEW n \in Names, CallTensor(n)
    PROVE  Store!Next
  <1>1. CASE WriteHost(n)
    BY <1>1 DEF WriteHost, Store!Next, Store!Write, DeviceView, ReadView
  <1>2. CASE UpdateHostData(n)
    <2>1. ValueOf(pool[n], host[n], device) = Store!Current(n)
      BY <1>2, CurrentValue DEF UpdateHostData, HasRt, ValueOf, Dead, OnDevice,
                                IInv, PoolSound, Sound, RuntimeTypeOK, RtTensor
    <2> QED
      BY <1>2, <2>1 DEF UpdateHostData, Store!Next, Store!WriteBack, DeviceView, ReadView
  <1>3. CASE Detach({n})
    <2>1. pool' = [m \in Names |-> IF m \in {n} THEN NoRt ELSE pool[m]]
          /\ UNCHANGED <<device, host, outputs>>
      BY <1>3 DEF Detach, Detached, DetachFromDevice
    <2>2. DeviceView' = [m \in Names |-> IF m \in {n} THEN NoOutputs ELSE DeviceView[m]]
      BY <2>1 DEF DeviceView, OnDevice, NoRt
    <2>3. Store!Remove({n})
      BY <2>1, <2>2 DEF Store!Remove, ReadView
    <2> QED
      BY <2>3 DEF Store!Next
  <1> QED
    BY <1>1, <1>2, <1>3 DEF CallTensor

LEMMA UpdateRefines ==
    ASSUME IInv, NEW n \in Updated, CallUpdate(n)
    PROVE  Store!Replace(n, Updating)
  <1>1. /\ n \in Names /\ Updating \in Programs /\ n \in UsedBy[Updating]
        /\ outputs[Updating] # NoOutputs
        /\ pool' = [pool EXCEPT ![n] = UpdatedTensor(n, outputs[Updating])]
        /\ UNCHANGED <<device, host, outputs>>
    BY UpdatedNames DEF CallUpdate, UpdateTensor
  <1>2. ReadView[Updating] = outputs[Updating].read /\ ReadView[Updating] # NoOutputs
    BY <1>1, NoOutputsIsNoValue DEF ReadView, IInv, RuntimeTypeOK
  <1>3. DeviceView' = [DeviceView EXCEPT ![n] = ReadView[Updating][n] + 1]
    BY <1>1, <1>2, UpdatedSound DEF DeviceView, IInv, RuntimeTypeOK
  <1> QED
    BY <1>1, <1>2, <1>3 DEF Store!Replace, ReadView

LEMMA NextRefines ==
    ASSUME ~ReconfigureAnytime, IInv, IInv', [RuntimeNext]_runtimeVars
    PROVE  [Store!Next]_(Store!storeVars)
  <1>1. CASE UNCHANGED runtimeVars
    BY <1>1 DEF runtimeVars, Store!storeVars, DeviceView, ReadView
  <1>2. CASE CallDevice
    BY <1>2, DeviceRefines
  <1>3. ASSUME NEW p \in Programs, CallRun(p) PROVE Store!Next
    BY <1>3, RunRefines, RunFailsRefines DEF CallRun, Store!Next
  <1>4. ASSUME NEW n \in Names, CallTensor(n) PROVE Store!Next
    BY <1>4, TensorRefines
  <1>5. ASSUME NEW n \in Updated, CallUpdate(n) PROVE Store!Next
    BY <1>5, UpdateRefines, UpdatedNames DEF Store!Next
  <1> QED
    BY <1>1, <1>2, <1>3, <1>4, <1>5 DEF RuntimeNext

\* The runtime implements the store its comments promise: what a program reads
\* is what is on the device or, when a tensor is absent, what its host buffer
\* holds, whatever layouts the programs want and wherever a run throws
\* (state.hpp:52-57, state.cpp:39-86, tensor.hpp:127-172).
THEOREM PoolRefinesStore ==
    ASSUME ~ReconfigureAnytime
    PROVE  RuntimeSpec => PoolIsAStore
  <1>1. RuntimeInit => Store!Init
    <2> SUFFICES ASSUME RuntimeInit PROVE Store!Init
      OBVIOUS
    <2>1. DeviceView = [n \in Names |-> NoOutputs]
      BY DEF RuntimeInit, DeviceView, OnDevice, NoRt
    <2>2. ReadView = [p \in Programs |-> NoOutputs]
      BY DEF RuntimeInit, ReadView
    <2> QED
      BY <2>1, <2>2 DEF RuntimeInit, Store!Init
  <1>2. IInv /\ IInv' /\ [RuntimeNext]_runtimeVars => [Store!Next]_(Store!storeVars)
    BY NextRefines
  <1> QED
    BY <1>1, <1>2, PoolInvariant, PTL DEF RuntimeSpec, PoolIsAStore, Store!Spec

\* A run may convert the layout of a tensor on the device, but never changes
\* its value and never drops it, even when it throws (tensor.hpp:127-148).
THEOREM RunsNeverChangeValues ==
    ASSUME ~ReconfigureAnytime
    PROVE  RuntimeSpec => RunsKeepValues
  <1>1. ASSUME IInv, IInv', NEW n \in Names, OnDevice(pool[n], device),
               NEW p \in Programs, CallRun(p)
        PROVE  OnDevice(pool'[n], device') /\ pool'[n].val = pool[n].val
    <2>1. device' = Opened
      BY <1>1 DEF CallRun, RunProgram, RunFails, RunProgramThrows,
                  RunProgramThrowsEarly, OpenForRun
    <2>2. \/ pool'[n] = Laid(pool, p, n) \/ pool'[n] = pool[n]
          \/ pool'[n] = EnsureRt(pool[n])
      BY <1>1 DEF CallRun, RunProgram, RunFails, RunProgramThrows, RunProgramThrowsEarly
    <2> QED
      BY <1>1, <2>1, <2>2, LaidSound, EnsureRtSound
  <1>2. IInv /\ IInv' => \A n \in Names :
            /\ OnDevice(pool[n], device)
            /\ \E p \in Programs : CallRun(p)
            => OnDevice(pool'[n], device') /\ pool'[n].val = pool[n].val
    BY <1>1
  <1> QED
    BY <1>2, PoolInvariant, PTL DEF RuntimeSpec, RunsKeepValues

-----------------------------------------------------------------------------
(* The training runtime: CompiledModel *)

\* While the script is between a call and its backward pass, what the model
\* keeps is of that call, and every weight the backward pass shares with the
\* forward pass is on the device as the forward pass read it.
CallPending ==
    UserLoop /\ phase \in {"called", "loss"} =>
        /\ calls # 0 /\ inputs = calls /\ intermediates.call = calls
        /\ phase = "loss" => \A i \in OutputIds : gradient_inputs[i] = calls
        /\ \A n \in UsedBy["Forward"] :
              OnDevice(pool[n], device) /\ pool[n].val = intermediates.read[n]

\* The intermediates are of the call that set the inputs, unless that call threw.
CallsKept ==
    /\ inputs <= calls /\ bwd_inputs.inputs <= calls
    /\ inputs \in held => intermediates.call = inputs

\* Before the first call returns, there is nothing to step with.
NothingBefore ==
    held = {} =>
        /\ gradient_outputs = 0 /\ steps = 0
        /\ \A i \in OutputIds : gradient_inputs[i] = 0
        /\ \A i \in DOMAIN AliasedOutputs : cut_moves[i] = 0
        /\ OptimizerOnDevice => \A n \in Params \cap Updated : host[n] = 0

\* After it, no parameter leaves a device that optimizes it.
WeightsStay ==
    OptimizerOnDevice /\ held # {} =>
        \A n \in Params : OnDevice(pool[n], device)

\* BackwardCoherent speaks of completed passes only; that the next one will be
\* coherent rests on what is pending.  That update_host_weights writes back all
\* weights or none of a later step rests on where they are.
MInv ==
    /\ IInv /\ ModelTypeOK
    /\ CallPending
    /\ CallsKept /\ NothingBefore /\ WeightsStay
    /\ BackwardCoherent
    /\ NoUpdateLost
    /\ StepsHaveGradients

-----------------------------------------------------------------------------
\* Constants and pools

LEMMA ModelConstants ==
    /\ Params \subseteq Names
    /\ "Forward" \in Programs /\ "Backward" \in Programs /\ "Optimizer" \in Programs
    /\ Updating = "Optimizer"
  <1>1. Parameters \in Seq(Names) /\ DOMAIN Parameters = 1..Len(Parameters)
    BY ModelAssumption DEF ModelAssumption
  <1> QED
    BY <1>1, ModelAssumption DEF ModelAssumption, Params

\* The pools runs start from are sound: the pool itself, and the pool without
\* the parameters.
LEMMA FromSound ==
    ASSUME IInv
    PROVE  /\ pool \in [Names -> RtTensor] /\ \A n \in Names : Sound(pool[n], device)
           /\ ForwardPool \in [Names -> RtTensor]
           /\ \A n \in Names : Sound(ForwardPool[n], device)
           /\ BackwardPool = pool
  <1>1. pool \in [Names -> RtTensor] /\ \A n \in Names : Sound(pool[n], device)
    BY DEF IInv, RuntimeTypeOK, PoolSound
  <1>2. /\ Detached(Params) \in [Names -> RtTensor]
        /\ \A n \in Names : Sound(Detached(Params)[n], device)
    BY <1>1, RtTensorTypes DEF Detached, DetachFromDevice, NoRt, Sound
  <1> QED
    BY <1>1, <1>2 DEF ForwardPool, BackwardPool

\* With a sound pool, the next program reads what is on the device, or else the
\* host buffer.
LEMMA LogicalValue ==
    ASSUME IInv, NEW n \in Names
    PROVE  /\ Logical(n) = IF OnDevice(pool[n], device) THEN pool[n].val ELSE host[n]
           /\ Logical(n) \in Nat
           /\ HasRt(pool[n]) => Logical(n) = ValueOf(pool[n], host[n], device)
  BY DEF Logical, HasRt, ValueOf, Dead, OnDevice, IInv, PoolSound, Sound,
         RuntimeTypeOK, RtTensor, HostKnown

\* A run from the pool leaves what is on the device there, with its value, and
\* brings nothing there that the next program would not have read anyway.
LEMMA RunKeeps ==
    ASSUME IInv, IInv', NEW p \in Programs, RunProgram(pool, p) \/ RunFails(pool, p),
           NEW n \in Names
    PROVE  /\ Logical(n)' = Logical(n)
           /\ OnDevice(pool[n], device) =>
                 OnDevice(pool'[n], device') /\ pool'[n].val = pool[n].val
  <1>1. device' = Opened /\ host' = host
    BY DEF RunProgram, RunFails, RunProgramThrows, RunProgramThrowsEarly, OpenForRun
  <1>2. \/ pool'[n] = Laid(pool, p, n) \/ pool'[n] = pool[n]
        \/ pool'[n] = EnsureRt(pool[n])
    BY DEF RunProgram, RunFails, RunProgramThrows, RunProgramThrowsEarly
  <1>3. /\ OnDevice(pool[n], device) =>
              OnDevice(pool'[n], device') /\ pool'[n].val = pool[n].val
        /\ OnDevice(pool'[n], device') =>
              pool'[n].val = IF OnDevice(pool[n], device) THEN pool[n].val ELSE host[n]
    BY <1>1, <1>2, LaidSound, EnsureRtSound
  <1>4. Logical(n)' = IF OnDevice(pool'[n], device') THEN pool'[n].val ELSE host'[n]
    <2>1. IInv' => Logical(n)' = IF OnDevice(pool'[n], device') THEN pool'[n].val ELSE host'[n]
      BY DEF Logical, HasRt, ValueOf, Dead, OnDevice, IInv, PoolSound, Sound,
             RuntimeTypeOK, RtTensor, HostKnown
    <2> QED
      BY <2>1
  <1> QED
    BY <1>1, <1>3, <1>4, LogicalValue

-----------------------------------------------------------------------------
\* The runtime under the calls of the model

\* The k-th time round, the loop of step has moved the first k aliased outputs, no
\* name twice.
LEMMA MovedNames ==
    /\ Len(AliasedOutputs) \in Nat
    /\ DOMAIN AliasedOutputs = 1..Len(AliasedOutputs)
    /\ \A i \in DOMAIN AliasedOutputs : AliasedOutputs[i] \in Updated
    /\ \A k \in 0..Len(AliasedOutputs) :
          /\ Moved(k) \subseteq Updated
          /\ \A i \in DOMAIN AliasedOutputs : AliasedOutputs[i] \in Moved(k) <=> i <= k
  <1>1. /\ Len(AliasedOutputs) \in Nat
        /\ DOMAIN AliasedOutputs = 1..Len(AliasedOutputs)
    BY ModelAssumption DEF ModelAssumption
  <1>2. Updated = {AliasedOutputs[i] : i \in DOMAIN AliasedOutputs}
    BY ModelAssumption DEF ModelAssumption
  <1>3. \A i, j \in DOMAIN AliasedOutputs : AliasedOutputs[i] = AliasedOutputs[j] => i = j
    BY ModelAssumption DEF ModelAssumption
  <1>4. ASSUME NEW k \in 0..Len(AliasedOutputs)
        PROVE  /\ Moved(k) \subseteq Updated
               /\ \A i \in DOMAIN AliasedOutputs : AliasedOutputs[i] \in Moved(k) <=> i <= k
    BY <1>1, <1>2, <1>3 DEF Moved
  <1> QED
    BY <1>1, <1>2, <1>4

\* step moves into the pool, for every output it has come to, the value after the one
\* the next program would have read, and keeps what the others hold.
LEMMA StepRunsPool ==
    ASSUME IInv, NEW k \in 0..Len(AliasedOutputs), StepRuns(k), NEW n \in Names
    PROVE  /\ pool'[n] \in RtTensor /\ Sound(pool'[n], Opened)
           /\ OnDevice(pool[n], device) => OnDevice(pool'[n], Opened)
           /\ n \in Moved(k) => OnDevice(pool'[n], Opened) /\ pool'[n].val = Logical(n) + 1
           /\ n \notin Moved(k) /\ OnDevice(pool'[n], Opened) =>
                 pool'[n].val = Logical(n)
  <1>1. /\ "Optimizer" \in Programs /\ Updating = "Optimizer" /\ Updated \subseteq Names
        /\ Moved(k) \subseteq UsedBy["Optimizer"] /\ UsedBy["Optimizer"] \subseteq Names
        /\ LayoutOf["Optimizer"][n] \in Layouts \ {HostLayout}
    BY ModelConstants, UpdatedNames, InputNames, MovedNames
  <1>2. outputs'["Optimizer"] = [read |-> Submitted(pool, "Optimizer"), gen |-> Opened]
    BY <1>1 DEF StepRuns, IInv, RuntimeTypeOK
  <1>3. /\ Sound(Laid(pool, "Optimizer", n), Opened)
        /\ OnDevice(Laid(pool, "Optimizer", n), Opened)
        /\ Laid(pool, "Optimizer", n).val \in Nat
        /\ Laid(pool, "Optimizer", n).val = Logical(n)
        /\ ValueOf(Laid(pool, "Optimizer", n), host[n], Opened) = Logical(n)
        /\ Opened \in Nat \ {0} /\ (device # 0 => Opened = device) /\ device \in Nat
        /\ pool[n] \in RtTensor /\ Sound(pool[n], device)
    BY <1>1, LaidSound, LogicalValue
  <1>4. CASE n \in Moved(k)
    <2>1. outputs'["Optimizer"].read[n] = Logical(n) /\ outputs'["Optimizer"].gen = Opened
      BY <1>1, <1>2, <1>3, <1>4 DEF Submitted
    <2>2. pool'[n] = UpdatedTensor(n, outputs'["Optimizer"])
      BY <1>4 DEF StepRuns
    <2>3. Logical(n) \in Nat /\ Logical(n) # Lost
      BY LogicalValue, LostAssumption DEF LostAssumption
    <2>4. pool'[n] = Copy(LayoutOf["Optimizer"][n], Logical(n) + 1, Opened)
      BY <1>1, <2>1, <2>2, <2>3 DEF UpdatedTensor
    <2>5. pool'[n] \in RtTensor
      BY <1>1, <1>3, <2>3, <2>4, RtTensorTypes DEF Values
    <2> QED
      BY <1>1, <1>3, <1>4, <2>3, <2>4, <2>5 DEF Copy, Sound, OnDevice
  <1>5. CASE n \in UsedBy["Optimizer"] \ Moved(k)
    <2>1. pool'[n] = Laid(pool, "Optimizer", n)
      BY <1>5 DEF StepRuns
    <2>2. RuntimeTypeOK /\ pool \in [Names -> RtTensor]
      BY DEF IInv, RuntimeTypeOK
    <2>3. Laid(pool, "Optimizer", n) \in RtTensor
      BY <1>1, <2>2, SubmittedType
    <2> QED
      BY <1>3, <1>5, <2>1, <2>3
  <1>6. CASE n \notin UsedBy["Optimizer"]
    <2>1. pool'[n] = pool[n] /\ n \notin Moved(k)
      BY <1>1, <1>6 DEF StepRuns
    <2>2. /\ Sound(pool[n], Opened)
          /\ OnDevice(pool[n], Opened) <=> OnDevice(pool[n], device)
      BY <1>3, EnsureRtSound
    <2>3. OnDevice(pool[n], device) => pool[n].val = Logical(n)
      BY LogicalValue
    <2> QED
      BY <1>3, <2>1, <2>2, <2>3
  <1> QED
    BY <1>4, <1>5, <1>6

LEMMA StepRunsIInv ==
    ASSUME IInv, NEW k \in 0..Len(AliasedOutputs), StepRuns(k)
    PROVE  IInv'
  <1>1. "Optimizer" \in Programs /\ OpenForRun /\ host' = host
    BY ModelConstants DEF StepRuns
  <1>2. pool' \in [Names -> RtTensor]
    <2>1. pool' = [n \in Names |-> pool'[n]]
      BY DEF StepRuns
    <2> QED
      BY <2>1, StepRunsPool
  <1>3. /\ pool \in [Names -> RtTensor] /\ \A n \in Names : Sound(pool[n], device)
        /\ outputs' = [outputs EXCEPT !["Optimizer"] =
                          [read |-> Submitted(pool, "Optimizer"), gen |-> Opened]]
    BY FromSound DEF StepRuns
  <1>4. OutputsSound'
    BY <1>1, <1>3, RunOutputsSound
  <1>5. outputs' \in [Programs -> RunOutputs \cup {NoOutputs}]
    BY <1>1, <1>3, SubmittedType DEF IInv, RuntimeTypeOK
  <1>6. device' \in Nat /\ gens' \in Nat
    BY <1>1, OpenedType DEF OpenForRun, IInv, RuntimeTypeOK
  <1>7. PoolSound'
    BY <1>1, StepRunsPool DEF PoolSound, OpenForRun
  <1> QED
    BY <1>1, <1>2, <1>4, <1>5, <1>6, <1>7 DEF IInv, RuntimeTypeOK, HostKnown

\* A step that completes has come to all outputs, one that is cut short to some.
LEMMA StepsRun ==
    /\ Step => StepRuns(Len(AliasedOutputs))
    /\ StepCut => \E k \in DOMAIN AliasedOutputs : StepRuns(k)
    /\ Len(AliasedOutputs) \in 0..Len(AliasedOutputs)
    /\ DOMAIN AliasedOutputs \subseteq 0..Len(AliasedOutputs)
  BY MovedNames DEF Step, StepCompletes, StepCut

\* The persistent inputs are laid out for a run that is refused.
LEMMA RefusedStepPool ==
    ASSUME IInv, StepWithoutGradients
    PROVE  /\ pool' \in [Names -> RtTensor] /\ device' = Opened
           /\ \A n \in Names :
                 /\ Sound(pool'[n], Opened)
                 /\ OnDevice(pool[n], device) =>
                       OnDevice(pool'[n], Opened) /\ pool'[n].val = pool[n].val
                 /\ OnDevice(pool'[n], Opened) =>
                       pool'[n].val = IF OnDevice(pool[n], device)
                                      THEN pool[n].val ELSE host[n]
  <1>1. PICK layout \in [UsedBy["Optimizer"] -> Layouts \ {HostLayout}] :
            pool' = [n \in Names |->
                        IF n \in UsedBy["Optimizer"]
                        THEN ToLayout(pool[n], layout[n], host[n], Opened)
                        ELSE pool[n]]
    BY DEF StepWithoutGradients
  <1>2. Opened \in Nat \ {0} /\ (device # 0 => Opened = device) /\ device \in Nat
    BY DEF IInv, RuntimeTypeOK, Opened
  <1>3. ASSUME NEW n \in Names
        PROVE  /\ pool'[n] \in RtTensor /\ Sound(pool'[n], Opened)
               /\ OnDevice(pool[n], device) =>
                     OnDevice(pool'[n], Opened) /\ pool'[n].val = pool[n].val
               /\ OnDevice(pool'[n], Opened) =>
                     pool'[n].val = IF OnDevice(pool[n], device)
                                    THEN pool[n].val ELSE host[n]
    <2>1. pool[n] \in RtTensor /\ Sound(pool[n], device) /\ host[n] \in Nat
      BY DEF IInv, RuntimeTypeOK, PoolSound, HostKnown
    <2>2. CASE n \in UsedBy["Optimizer"]
      <3>1. pool'[n] = ToLayout(pool[n], layout[n], host[n], Opened)
            /\ layout[n] \in Layouts \ {HostLayout}
        BY <1>1, <2>2
      <3>2. pool'[n] \in RtTensor
        <4>1. Opened \in Nat /\ host[n] \in Values /\ layout[n] \in Layouts
          BY <1>2, <2>1, <3>1 DEF Values
        <4> QED
          BY <3>1, <2>1, <4>1, ToLayoutType
      <3> QED
        BY <3>1, <3>2, <2>1, <1>2, ToLayoutSound
    <2>3. CASE n \notin UsedBy["Optimizer"]
      <3>1. pool'[n] = pool[n]
        BY <1>1, <2>3
      <3> QED
        BY <3>1, <2>1, <1>2, EnsureRtSound
    <2> QED
      BY <2>2, <2>3
  <1> QED
    BY <1>1, <1>3 DEF StepWithoutGradients, OpenForRun

LEMMA RefusedStepIInv ==
    ASSUME IInv, StepWithoutGradients
    PROVE  IInv'
  <1>1. "Optimizer" \in Programs /\ OpenForRun /\ host' = host
        /\ outputs' = [outputs EXCEPT !["Optimizer"] = NoOutputs]
    BY ModelConstants DEF StepWithoutGradients
  <1>2. OutputsSound'
    BY <1>1, FromSound, RunOutputsSound
  <1>3. /\ outputs' \in [Programs -> RunOutputs \cup {NoOutputs}]
        /\ device' \in Nat /\ gens' \in Nat
    BY <1>1, OpenedType DEF OpenForRun, IInv, RuntimeTypeOK
  <1> QED
    BY <1>1, <1>2, <1>3, RefusedStepPool DEF IInv, RuntimeTypeOK, PoolSound, HostKnown

\* update_host_weights writes back what the next program would have read, of all
\* parameters if all have been pushed.
LEMMA HostWritten ==
    ASSUME IInv, UpdateHostWeights, NEW n \in Names
    PROVE  /\ host'[n] = host[n] \/ host'[n] = Logical(n)
           /\ n \in Params /\ (\A m \in Params : OnDevice(pool[m], device)) =>
                 host'[n] = Logical(n)
  <1> DEFINE synced == {Parameters[i] : i \in {i \in DOMAIN Parameters :
                           \A j \in 1..i : HasRt(pool[Parameters[j]])}}
  <1>1. DOMAIN Parameters = 1..Len(Parameters) /\ Len(Parameters) \in Nat
    BY ModelAssumption DEF ModelAssumption
  <1>2. host'[n] = IF n \in synced THEN ValueOf(pool[n], host[n], device) ELSE host[n]
    BY DEF UpdateHostWeights
  <1>3. n \in synced => HasRt(pool[n])
    BY <1>1
  <1>4. ASSUME n \in Params, \A m \in Params : OnDevice(pool[m], device)
        PROVE  n \in synced
    <2>1. PICK i \in DOMAIN Parameters : n = Parameters[i]
      BY <1>4 DEF Params
    <2>2. \A j \in 1..i : Parameters[j] \in Params
      BY <1>1, <2>1 DEF Params
    <2>3. \A j \in 1..i : HasRt(pool[Parameters[j]])
      BY <1>4, <2>2 DEF OnDevice, HasRt
    <2> QED
      BY <2>1, <2>3
  <1> HIDE DEF synced
  <1> QED
    BY <1>2, <1>3, <1>4, LogicalValue

\* Weights written by torch, or read back from the device.
LEMMA HostIInv ==
    ASSUME IInv, TorchStep \/ UpdateHostWeights
    PROVE  IInv'
  <1>1. UNCHANGED <<device, gens, pool, outputs>>
    BY DEF TorchStep, UpdateHostWeights
  <1>2. host' \in [Names -> Nat]
    <2>1. CASE TorchStep
      BY <2>1 DEF TorchStep, IInv, HostKnown
    <2>2. CASE UpdateHostWeights
      <3>1. \A n \in Names : host'[n] = host[n] \/ host'[n] = Logical(n)
        BY <2>2, HostWritten
      <3>2. host' = [n \in Names |-> host'[n]]
        BY <2>2 DEF UpdateHostWeights
      <3> QED
        BY <3>1, <3>2, LogicalValue DEF IInv, HostKnown
    <2> QED
      BY <2>1, <2>2
  <1>3. host' \in [Names -> Values]
    BY <1>2 DEF Values
  <1> QED
    BY <1>1, <1>2, <1>3 DEF IInv, RuntimeTypeOK, PoolSound, HostKnown, OutputsSound

\* Every action of the model is an action of a sound runtime.
LEMMA ModelIInv ==
    ASSUME ~ReconfigureAnytime, IInv, [Next]_vars
    PROVE  IInv'
  <1>1. "Forward" \in Programs /\ "Backward" \in Programs /\ "Optimizer" \in Programs
    BY ModelConstants
  <1>2. CASE UNCHANGED vars
    BY <1>2 DEF vars, runtimeVars, IInv, RuntimeTypeOK, PoolSound, HostKnown, OutputsSound
  <1>3. CASE Call \/ CallThrows
    BY <1>1, <1>3, FromSound, RunFromIInv DEF Call, CallThrows
  <1>4. CASE LossBackward \/ ZeroGrad \/ ReplaceParameter \/ SetLearningRate
    <2>1. UNCHANGED runtimeVars
      BY <1>4 DEF LossBackward, ZeroGrad, ReplaceParameter, SetLearningRate
    <2> QED
      BY <2>1 DEF runtimeVars, IInv, RuntimeTypeOK, PoolSound, HostKnown, OutputsSound
  <1>5. CASE Backward \/ BackwardRejected \/ BackwardThrows
    BY <1>1, <1>5, RunIInv
       DEF Backward, BackwardRejected, BackwardRuns, BackwardThrows, BackwardPool
  <1>6. CASE Step \/ StepCut
    BY <1>6, StepsRun, StepRunsIInv
  <1>7. CASE StepThrows
    BY <1>1, <1>7, RunIInv DEF StepThrows
  <1>8. CASE StepWithoutGradients
    BY <1>8, RefusedStepIInv
  <1>9. CASE TorchStep \/ UpdateHostWeights
    BY <1>9, HostIInv
  <1>10. CASE ConfigureFirst
    BY <1>10, DeviceIInv DEF ConfigureFirst, CallDevice
  <1> QED
    BY <1>2, <1>3, <1>4, <1>5, <1>6, <1>7, <1>8, <1>9, <1>10 DEF Next

-----------------------------------------------------------------------------
\* Types

LEMMA BoundaryTypes ==
    ASSUME IInv, IInv', ModelTypeOK, Call
    PROVE  intermediates' \in Intermediates
  <1>1. "Forward" \in Programs /\ ForwardPool \in [Names -> RtTensor]
    BY ModelConstants, FromSound
  <1>2. outputs'["Forward"] = [read |-> Submitted(ForwardPool, "Forward"), gen |-> Opened]
    BY <1>1 DEF Call, RunProgram, IInv, RuntimeTypeOK
  <1>3. Submitted(ForwardPool, "Forward") \in Weights
    BY <1>1, SubmittedType DEF IInv, RunOutputs, Reads, Weights
  <1> QED
    BY <1>2, <1>3 DEF Call, NewIntermediates, Intermediates, ModelTypeOK

LEMMA ModelType ==
    ASSUME IInv, IInv', ModelTypeOK, [Next]_vars
    PROVE  ModelTypeOK'
  <1>1. CASE UNCHANGED vars
    BY <1>1 DEF vars, modelVars, ModelTypeOK
  <1>2. CASE Call
    BY <1>2, BoundaryTypes DEF Call, ModelTypeOK
  <1>3. CASE CallThrows
    BY <1>3 DEF CallThrows, ModelTypeOK
  <1>4. CASE LossBackward
    <2>1. gradient_inputs' \in [OutputIds -> Nat]
      BY <1>4 DEF LossBackward, TieGradients, ModelTypeOK
    <2> QED
      BY <1>4, <2>1 DEF LossBackward, ModelTypeOK
  <1>5. CASE Backward
    <2>1. ASSUME NEW n \in Params
          PROVE  Accumulated(backwards + 1)[n] \in SUBSET (Nat \X Params)
      <3>1. grad[n] \in SUBSET (Nat \X Params) /\ backwards + 1 \in Nat
        BY DEF ModelTypeOK
      <3>2. \A m \in Params : <<backwards + 1, m>> \in Nat \X Params
        BY <3>1
      <3> QED
        BY <3>1, <3>2 DEF Accumulated
    <2>3. Accumulated(backwards + 1) \in [Params -> SUBSET (Nat \X Params)]
      BY <2>1 DEF Accumulated
    <2>2. bwd_inputs' \in [gradients : [OutputIds -> Nat],
                           intermediates : Intermediates, inputs : Nat]
      BY <1>5 DEF Backward, BackwardRuns, ModelTypeOK
    <2> QED
      BY <1>5, <2>2, <2>3 DEF Backward, ModelTypeOK
  <1>6. CASE BackwardRejected
    BY <1>6 DEF BackwardRejected, BackwardRuns, ModelTypeOK
  <1>7. CASE Step
    BY <1>7 DEF Step, StepCompletes, StepRuns, ModelTypeOK
  <1>11. CASE StepCut
    BY <1>11 DEF StepCut, StepRuns, ModelTypeOK
  <1>12. CASE ReplaceParameter
    BY <1>12 DEF ReplaceParameter, ModelTypeOK
  <1>8. CASE BackwardThrows \/ StepThrows \/ StepWithoutGradients \/ TorchStep
             \/ UpdateHostWeights \/ ConfigureFirst
    <2>1. UNCHANGED modelVars
      BY <1>8 DEF BackwardThrows, StepThrows, StepWithoutGradients, TorchStep,
                  UpdateHostWeights, ConfigureFirst
    <2> QED
      BY <2>1 DEF modelVars, ModelTypeOK
  <1>9. CASE ZeroGrad
    <2>1. grad' \in [Params -> SUBSET (Nat \X Params)]
      BY <1>9 DEF ZeroGrad
    <2> QED
      BY <1>9, <2>1 DEF ZeroGrad, ModelTypeOK
  <1>10. CASE SetLearningRate
    BY <1>10 DEF SetLearningRate, ModelTypeOK
  <1> QED
    BY <1>1, <1>2, <1>3, <1>4, <1>5, <1>6, <1>7, <1>8, <1>9, <1>10, <1>11, <1>12
       DEF Next

\* A forward run puts every weight it uses on the device and remembers it.
LEMMA ForwardRemembers ==
    ASSUME IInv, RunProgram(ForwardPool, "Forward"), NEW n \in UsedBy["Forward"]
    PROVE  /\ OnDevice(pool'[n], device')
           /\ pool'[n].val = outputs'["Forward"].read[n]
           /\ pool'[n].val = IF OnDevice(ForwardPool[n], device)
                             THEN ForwardPool[n].val ELSE host[n]
  <1>1. "Forward" \in Programs /\ n \in Names
    BY ModelConstants, InputNames
  <1>2. outputs'["Forward"] = [read |-> Submitted(ForwardPool, "Forward"), gen |-> Opened]
    BY <1>1 DEF RunProgram, IInv, RuntimeTypeOK
  <1>3. pool'[n] = Laid(ForwardPool, "Forward", n) /\ device' = Opened
    BY <1>1 DEF RunProgram, OpenForRun
  <1>4. outputs'["Forward"].read[n] = ValueOf(Laid(ForwardPool, "Forward", n), host[n], Opened)
    BY <1>1, <1>2 DEF Submitted
  <1> QED
    BY <1>1, <1>3, <1>4, FromSound, LaidFromSound

-----------------------------------------------------------------------------
\* Updates

\* Only a step changes what the next program reads of the weights of a model that is
\* optimized on the device.
LEMMA OnlyStepsUpdate ==
    ASSUME ~ReconfigureAnytime, IInv, IInv', [Next]_vars, ~Step, ~StepCut,
           OptimizerOnDevice, NEW n \in Names
    PROVE  Logical(n)' = Logical(n)
  <1>1. "Forward" \in Programs /\ "Backward" \in Programs /\ "Optimizer" \in Programs
    BY ModelConstants
  <1>2. IInv' => Logical(n)' = IF OnDevice(pool'[n], device') THEN pool'[n].val ELSE host'[n]
    BY DEF Logical, HasRt, ValueOf, Dead, OnDevice, IInv, PoolSound, Sound,
           RuntimeTypeOK, RtTensor, HostKnown
  <1>3. CASE UNCHANGED vars \/ LossBackward \/ ZeroGrad \/ ReplaceParameter
             \/ SetLearningRate
    BY <1>3 DEF vars, runtimeVars, LossBackward, ZeroGrad, ReplaceParameter,
                SetLearningRate, Logical
  <1>4. CASE Call \/ CallThrows
    BY <1>1, <1>4, RunKeeps DEF Call, CallThrows, ForwardPool
  <1>5. CASE Backward \/ BackwardRejected \/ BackwardThrows
    BY <1>1, <1>5, RunKeeps
       DEF Backward, BackwardRejected, BackwardRuns, BackwardThrows, BackwardPool
  <1>6. CASE StepThrows
    BY <1>1, <1>6, RunKeeps DEF StepThrows
  <1>7. CASE StepWithoutGradients
    <2>1. host' = host /\ device' = Opened
      BY <1>7 DEF StepWithoutGradients, OpenForRun
    <2> QED
      BY <1>2, <1>7, <2>1, RefusedStepPool, LogicalValue
  <1>8. CASE TorchStep
    BY <1>8 DEF TorchStep
  <1>9. CASE UpdateHostWeights
    <2>1. host'[n] = host[n] \/ host'[n] = Logical(n)
      BY <1>9, HostWritten
    <2>2. UNCHANGED <<device, pool>>
      BY <1>9 DEF UpdateHostWeights
    <2> QED
      BY <1>2, <2>1, <2>2, LogicalValue
  <1>10. CASE ConfigureFirst
    <2>1. UNCHANGED <<host, pool>> /\ NothingOnDevice
      BY <1>10 DEF ConfigureFirst, ConfigureDevices, MayClose
    <2> QED
      BY <1>2, <2>1, LogicalValue DEF NothingOnDevice, OnDevice
  <1> QED
    BY <1>3, <1>4, <1>5, <1>6, <1>7, <1>8, <1>9, <1>10 DEF Next

\* A step adds one to what the next program reads of the weights it has come to.
LEMMA StepsUpdate ==
    ASSUME IInv, IInv', NEW k \in 0..Len(AliasedOutputs), StepRuns(k), NEW n \in Names
    PROVE  Logical(n)' = IF n \in Moved(k) THEN Logical(n) + 1 ELSE Logical(n)
  <1>1. device' = Opened /\ host' = host
    BY DEF StepRuns, OpenForRun
  <1>2. IInv' => Logical(n)' = IF OnDevice(pool'[n], device') THEN pool'[n].val ELSE host'[n]
    BY DEF Logical, HasRt, ValueOf, Dead, OnDevice, IInv, PoolSound, Sound,
           RuntimeTypeOK, RtTensor, HostKnown
  <1> QED
    BY <1>1, <1>2, StepRunsPool, LogicalValue

\* What a parameter's next version on the device is known by.
LEMMA UpdatedIsAliased ==
    ASSUME NEW n \in Updated
    PROVE  \E i \in DOMAIN AliasedOutputs : n = AliasedOutputs[i]
  BY ModelAssumption DEF ModelAssumption

\* update_host_weights leaves weights of one step on the host.
LEMMA HostOfOneStep ==
    ASSUME IInv, NothingBefore, WeightsStay, NoUpdateLost, OptimizerOnDevice,
           UpdateHostWeights, \A i \in DOMAIN AliasedOutputs : cut_moves[i] = 0,
           steps \in Nat, NEW n \in Params \cap Updated
    PROVE  /\ held = {} => host'[n] = 0
           /\ held # {} => host'[n] = steps
  <1>1. n \in Names
    BY ModelConstants
  <1>2. PICK i \in DOMAIN AliasedOutputs : n = AliasedOutputs[i]
    BY UpdatedIsAliased
  <1>3. Logical(n) = steps
    BY <1>2 DEF NoUpdateLost
  <1>4. held = {} => host[n] = 0 /\ steps = 0
    BY DEF NothingBefore
  <1>5. held # {} => \A m \in Params : OnDevice(pool[m], device)
    BY DEF WeightsStay
  <1> QED
    BY <1>1, <1>3, <1>4, <1>5, HostWritten

\* Nothing else writes the host's weights while the device optimizes them.
LEMMA HostOnlyWritten ==
    ASSUME [Next]_vars, OptimizerOnDevice, ~UpdateHostWeights
    PROVE  host' = host
  BY DEF vars, runtimeVars, modelVars, Next, Call, CallThrows, RunProgram, RunFails,
         RunProgramThrows, RunProgramThrowsEarly, LossBackward, Backward,
         BackwardRejected, BackwardRuns, BackwardThrows, Step, StepCompletes, StepCut,
         StepRuns, StepThrows, StepWithoutGradients, TorchStep, ZeroGrad,
         ReplaceParameter, SetLearningRate, ConfigureFirst, ConfigureDevices

LEMMA OptimizerStays ==
    ASSUME [Next]_vars
    PROVE  optimizer' = optimizer
  BY DEF vars, modelVars, Next, Call, CallThrows, LossBackward, Backward,
         BackwardRejected, BackwardThrows, Step, StepCompletes, StepCut, StepRuns,
         StepThrows, StepWithoutGradients, TorchStep, ZeroGrad, UpdateHostWeights,
         ReplaceParameter, SetLearningRate, ConfigureFirst

LEMMA OnlyStepsCount ==
    ASSUME [Next]_vars, ~Step, ~StepCut
    PROVE  UNCHANGED <<steps, cut_moves>>
  BY DEF vars, modelVars, Next, Call, CallThrows, LossBackward, Backward,
         BackwardRejected, BackwardThrows, StepThrows, StepWithoutGradients, TorchStep,
         ZeroGrad, UpdateHostWeights, ReplaceParameter, SetLearningRate, ConfigureFirst

LEMMA UpdatesCounted ==
    ASSUME ~ReconfigureAnytime, IInv, IInv', ModelTypeOK, NothingBefore, WeightsStay,
           NoUpdateLost, [Next]_vars
    PROVE  NoUpdateLost'
  <1> SUFFICES ASSUME OptimizerOnDevice
               PROVE  /\ \A i \in DOMAIN AliasedOutputs :
                            Logical(AliasedOutputs[i])' = steps' + cut_moves'[i]
                      /\ (\A i \in DOMAIN AliasedOutputs : cut_moves'[i] = 0) =>
                            \A m, n \in Params \cap Updated : host'[m] = host'[n]
    BY OptimizerStays DEF NoUpdateLost, OptimizerOnDevice
  <1>1. /\ steps \in Nat /\ cut_moves \in [DOMAIN AliasedOutputs -> Nat]
        /\ \A i \in DOMAIN AliasedOutputs :
              AliasedOutputs[i] \in Names /\ Logical(AliasedOutputs[i]) = steps + cut_moves[i]
    BY MovedNames, UpdatedNames DEF ModelTypeOK, NoUpdateLost
  <1>2. \A i \in DOMAIN AliasedOutputs : Logical(AliasedOutputs[i])' = steps' + cut_moves'[i]
    <2>1. CASE Step
      <3>1. steps' = steps + 1 /\ cut_moves' = cut_moves
        BY <2>1 DEF Step, StepCompletes
      <3>2. \A i \in DOMAIN AliasedOutputs :
               Logical(AliasedOutputs[i])' = Logical(AliasedOutputs[i]) + 1
        BY <1>1, <2>1, StepsRun, StepsUpdate, MovedNames
      <3> QED
        BY <1>1, <3>1, <3>2
    <2>2. CASE StepCut
      <3>1. PICK k \in DOMAIN AliasedOutputs :
               /\ StepRuns(k) /\ steps' = steps
               /\ cut_moves' = [i \in DOMAIN AliasedOutputs |->
                                   IF i <= k THEN cut_moves[i] + 1 ELSE cut_moves[i]]
        BY <2>2 DEF StepCut
      <3>2. \A i \in DOMAIN AliasedOutputs :
               Logical(AliasedOutputs[i])' = IF i <= k THEN Logical(AliasedOutputs[i]) + 1
                                             ELSE Logical(AliasedOutputs[i])
        BY <1>1, <3>1, StepsUpdate, MovedNames
      <3> QED
        BY <1>1, <3>1, <3>2
    <2>3. CASE ~Step /\ ~StepCut
      BY <1>1, <2>3, OnlyStepsUpdate, OnlyStepsCount
    <2> QED
      BY <2>1, <2>2, <2>3
  <1>3. ASSUME \A i \in DOMAIN AliasedOutputs : cut_moves'[i] = 0,
               NEW m \in Params \cap Updated, NEW n \in Params \cap Updated
        PROVE  host'[m] = host'[n]
    <2>1. \A i \in DOMAIN AliasedOutputs : cut_moves[i] = 0
      <3>1. CASE Step
        BY <1>3, <3>1 DEF Step, StepCompletes
      <3>2. CASE StepCut
        <4>1. PICK k \in DOMAIN AliasedOutputs : cut_moves'[k] = cut_moves[k] + 1
          BY <3>2, MovedNames DEF StepCut
        <4> QED
          BY <1>1, <1>3, <4>1
      <3>3. CASE ~Step /\ ~StepCut
        BY <1>3, <3>3, OnlyStepsCount
      <3> QED
        BY <3>1, <3>2, <3>3
    <2>2. CASE UpdateHostWeights
      BY <1>1, <2>1, <2>2, HostOfOneStep
    <2>3. CASE ~UpdateHostWeights
      BY <2>1, <2>3, HostOnlyWritten DEF NoUpdateLost
    <2> QED
      BY <2>2, <2>3
  <1> QED
    BY <1>2, <1>3

\* Calls are held from their return on, and gradients come from calls that are held.
LEMMA NothingIsBefore ==
    ASSUME IInv, ModelTypeOK, NothingBefore, WeightsStay, NoUpdateLost, [Next]_vars
    PROVE  NothingBefore'
  <1> SUFFICES ASSUME held' = {}
               PROVE  /\ gradient_outputs' = 0 /\ steps' = 0
                      /\ \A i \in OutputIds : gradient_inputs'[i] = 0
                      /\ \A i \in DOMAIN AliasedOutputs : cut_moves'[i] = 0
                      /\ OptimizerOnDevice => \A n \in Params \cap Updated : host'[n] = 0
    BY OptimizerStays DEF NothingBefore, OptimizerOnDevice
  <1>1. ~Call /\ held = {}
    BY DEF vars, modelVars, Next, Call, CallThrows, LossBackward, Backward,
           BackwardRejected, BackwardThrows, Step, StepCompletes, StepCut, StepRuns,
           StepThrows, StepWithoutGradients, TorchStep, ZeroGrad, UpdateHostWeights,
           ReplaceParameter, SetLearningRate, ConfigureFirst
  <1>2. /\ gradient_outputs = 0 /\ steps = 0
        /\ \A i \in OutputIds : gradient_inputs[i] = 0
        /\ \A i \in DOMAIN AliasedOutputs : cut_moves[i] = 0
        /\ OptimizerOnDevice => \A n \in Params \cap Updated : host[n] = 0
    BY <1>1 DEF NothingBefore
  <1>3. ~LossBackward
    BY <1>1 DEF LossBackward
  <1>4. ~GradientsProvided
    <2>1. 1 \in OutputIds
      BY ModelAssumption DEF ModelAssumption, OutputIds
    <2> QED
      BY <1>2, <2>1 DEF GradientsProvided
  <1>5. ~Backward /\ ~BackwardRejected /\ ~Step /\ ~StepCut
    BY <1>2, <1>4 DEF Backward, BackwardRejected, BackwardRuns, Step, StepCut
  <1>6. UNCHANGED <<gradient_outputs, steps, gradient_inputs, cut_moves>>
    BY <1>1, <1>3, <1>5
       DEF vars, modelVars, Next, CallThrows, BackwardThrows, StepThrows,
           StepWithoutGradients, TorchStep, ZeroGrad, UpdateHostWeights,
           ReplaceParameter, SetLearningRate, ConfigureFirst
  <1>7. ASSUME OptimizerOnDevice, NEW n \in Params \cap Updated
        PROVE  host'[n] = 0
    <2>1. CASE UpdateHostWeights
      BY <1>1, <1>2, <1>7, <2>1, HostOfOneStep DEF ModelTypeOK
    <2>2. CASE ~UpdateHostWeights
      BY <1>2, <1>7, <2>2, HostOnlyWritten
    <2> QED
      BY <2>1, <2>2
  <1> QED
    BY <1>2, <1>6, <1>7

\* While the device optimizes, nothing takes a tensor off it once a call has returned.
LEMMA TensorsStay ==
    ASSUME IInv, IInv', [Next]_vars, ~ConfigureFirst, OptimizerOnDevice,
           NEW n \in Names, OnDevice(pool[n], device)
    PROVE  OnDevice(pool'[n], device')
  <1>1. "Forward" \in Programs /\ "Backward" \in Programs /\ "Optimizer" \in Programs
    BY ModelConstants
  <1>2. CASE UNCHANGED vars \/ LossBackward \/ ZeroGrad \/ ReplaceParameter
             \/ SetLearningRate \/ TorchStep \/ UpdateHostWeights
    <2>1. UNCHANGED <<pool, device>>
      BY <1>2 DEF vars, runtimeVars, LossBackward, ZeroGrad, ReplaceParameter,
                  SetLearningRate, TorchStep, UpdateHostWeights
    <2> QED
      BY <2>1
  <1>3. CASE Call \/ CallThrows
    BY <1>1, <1>3, RunKeeps DEF Call, CallThrows, ForwardPool
  <1>4. CASE Backward \/ BackwardRejected \/ BackwardThrows
    BY <1>1, <1>4, RunKeeps
       DEF Backward, BackwardRejected, BackwardRuns, BackwardThrows, BackwardPool
  <1>5. CASE StepThrows
    BY <1>1, <1>5, RunKeeps DEF StepThrows
  <1>6. CASE StepWithoutGradients
    BY <1>6, RefusedStepPool
  <1>7. CASE Step \/ StepCut
    <2>1. PICK k \in 0..Len(AliasedOutputs) : StepRuns(k)
      BY <1>7, StepsRun
    <2>2. device' = Opened
      BY <2>1 DEF StepRuns, OpenForRun
    <2> QED
      BY <2>1, <2>2, StepRunsPool
  <1> QED
    BY <1>2, <1>3, <1>4, <1>5, <1>6, <1>7 DEF Next

LEMMA WeightsStayThere ==
    ASSUME IInv, IInv', ModelTypeOK, WeightsStay, [Next]_vars
    PROVE  WeightsStay'
  <1> SUFFICES ASSUME OptimizerOnDevice, held' # {}, NEW n \in Params
               PROVE  OnDevice(pool'[n], device')
    BY OptimizerStays DEF WeightsStay, OptimizerOnDevice
  <1>1. n \in Names
    BY ModelConstants
  <1>2. CASE Call
    BY <1>2, ForwardRemembers DEF Call, SharedWithTorch
  <1>3. CASE ~Call
    <2>1. held # {}
      BY <1>3 DEF vars, modelVars, Next, CallThrows, LossBackward, Backward,
             BackwardRejected, BackwardThrows, Step, StepCompletes, StepCut, StepRuns,
             StepThrows, StepWithoutGradients, TorchStep, ZeroGrad, UpdateHostWeights,
             ReplaceParameter, SetLearningRate, ConfigureFirst
    <2>2. ~ConfigureFirst
      <3>1. PICK c \in held : TRUE
        BY <2>1
      <3>2. c \in 1..calls /\ calls \in Nat
        BY DEF ModelTypeOK
      <3> QED
        BY <3>2 DEF ConfigureFirst
    <2>3. OnDevice(pool[n], device)
      BY <2>1 DEF WeightsStay
    <2> QED
      BY <1>1, <2>2, <2>3, TensorsStay
  <1> QED
    BY <1>2, <1>3

\* A step takes the gradients of a completed pass and leaves none.
LEMMA GradientsCounted ==
    ASSUME ModelTypeOK, StepsHaveGradients, [Next]_vars
    PROVE  StepsHaveGradients'
  <1>1. CASE Backward
    <2>1. gradient_outputs' = backwards + 1 /\ backwards' = backwards + 1 /\ steps' = steps
      BY <1>1 DEF Backward
    <2>2. steps <= backwards /\ steps \in Nat /\ backwards \in Nat
      BY DEF StepsHaveGradients, ModelTypeOK
    <2> QED
      BY <2>1, <2>2 DEF StepsHaveGradients
  <1>2. CASE BackwardRejected
    BY <1>2 DEF BackwardRejected, StepsHaveGradients, ModelTypeOK
  <1>3. CASE Step
    BY <1>3 DEF Step, StepCompletes, StepRuns, StepsHaveGradients, ModelTypeOK
  <1>4. CASE ~Backward /\ ~BackwardRejected /\ ~Step
    <2>1. UNCHANGED <<steps, gradient_outputs, backwards>>
      BY <1>4 DEF vars, modelVars, Next, Call, CallThrows, LossBackward,
             BackwardThrows, StepCut, StepRuns, StepThrows, StepWithoutGradients,
             TorchStep, ZeroGrad, UpdateHostWeights, ReplaceParameter, SetLearningRate,
             ConfigureFirst
    <2> QED
      BY <2>1 DEF StepsHaveGradients
  <1> QED
    BY <1>1, <1>2, <1>3, <1>4

-----------------------------------------------------------------------------
\* Calls and their backward passes

LEMMA PendingKept ==
    ASSUME ~ReconfigureAnytime, IInv, IInv', ModelTypeOK, CallPending, [Next]_vars
    PROVE  CallPending'
  <1>1. /\ "Forward" \in Programs /\ "Backward" \in Programs /\ "Optimizer" \in Programs
        /\ UsedBy["Forward"] \subseteq Names
    BY ModelConstants, InputNames
  <1>2. CASE UNCHANGED vars
    BY <1>2 DEF vars, runtimeVars, modelVars, CallPending, UserLoop
  <1>3. CASE Call
    <2>1. \A n \in UsedBy["Forward"] :
             OnDevice(pool'[n], device') /\ pool'[n].val = intermediates'.read[n]
      BY <1>3, ForwardRemembers DEF Call, NewIntermediates
    <2> QED
      BY <1>3, <2>1 DEF Call, NewIntermediates, CallPending, ModelTypeOK
  <1>4. CASE CallThrows \/ Backward \/ BackwardRejected \/ Step
    BY <1>4 DEF CallThrows, Backward, BackwardRejected, Step, StepCompletes, CallPending
  <1>5. CASE LossBackward
    <2>1. UNCHANGED <<runtimeVars, optimizer, inputs, intermediates, calls>>
      BY <1>5 DEF LossBackward
    <2>2. UserLoop => phase = "called" /\ \A i \in OutputIds : gradient_inputs'[i] = calls
      BY <1>5 DEF LossBackward, TieGradients
    <2> QED
      BY <2>1, <2>2 DEF runtimeVars, CallPending, UserLoop
  <1>6. CASE BackwardThrows \/ StepThrows
    <2>1. UNCHANGED modelVars
      BY <1>6 DEF BackwardThrows, StepThrows
    <2>2. \A n \in Names : OnDevice(pool[n], device) =>
                OnDevice(pool'[n], device') /\ pool'[n].val = pool[n].val
      BY <1>1, <1>6, RunKeeps DEF BackwardThrows, StepThrows, BackwardPool
    <2> QED
      BY <1>1, <2>1, <2>2 DEF modelVars, CallPending, UserLoop
  <1>7. CASE StepWithoutGradients
    BY <1>7 DEF StepWithoutGradients, StepAllowed, modelVars, CallPending, UserLoop
  <1>8. CASE TorchStep \/ UpdateHostWeights
    BY <1>8 DEF TorchStep, UpdateHostWeights, modelVars, CallPending, UserLoop
  <1>9. CASE ZeroGrad \/ ReplaceParameter \/ SetLearningRate
    BY <1>9 DEF ZeroGrad, ReplaceParameter, SetLearningRate, runtimeVars, CallPending,
                UserLoop
  <1>10. CASE ConfigureFirst
    BY <1>10 DEF ConfigureFirst, modelVars, CallPending, UserLoop
  <1>11. CASE StepCut
    BY <1>11 DEF StepCut, StepAllowed, StepRuns, CallPending, UserLoop
  <1> QED
    BY <1>2, <1>3, <1>4, <1>5, <1>6, <1>7, <1>8, <1>9, <1>10, <1>11 DEF Next

\* A call that throws sets the inputs of a number that no call will be held under.
LEMMA CallsAreKept ==
    ASSUME ModelTypeOK, CallsKept, [Next]_vars
    PROVE  CallsKept'
  <1>1. CASE Call
    BY <1>1 DEF Call, NewIntermediates, CallsKept, ModelTypeOK
  <1>2. CASE CallThrows
    <2>1. inputs' = calls' /\ calls' = calls + 1 /\ UNCHANGED <<bwd_inputs, held>>
      BY <1>2 DEF CallThrows
    <2>2. calls + 1 \notin held
      BY DEF ModelTypeOK
    <2> QED
      BY <2>1, <2>2 DEF CallsKept, ModelTypeOK
  <1>3. CASE Backward \/ BackwardRejected
    BY <1>3 DEF Backward, BackwardRejected, BackwardRuns, CallsKept
  <1>4. CASE ~Call /\ ~CallThrows /\ ~Backward /\ ~BackwardRejected
    <2>1. UNCHANGED <<inputs, intermediates, bwd_inputs, held, calls>>
      BY <1>4 DEF vars, modelVars, Next, LossBackward, BackwardThrows, Step,
             StepCompletes, StepCut, StepRuns, StepThrows, StepWithoutGradients,
             TorchStep, ZeroGrad, UpdateHostWeights, ReplaceParameter, SetLearningRate,
             ConfigureFirst
    <2> QED
      BY <2>1 DEF CallsKept
  <1> QED
    BY <1>1, <1>2, <1>3, <1>4

\* A backward pass of the loop finds what its call left behind.
LEMMA BackwardIsCoherent ==
    ASSUME IInv, ModelTypeOK, CallPending, BackwardRuns, UserLoop
    PROVE  LET c == bwd_inputs'.intermediates.call
           IN  /\ \A i \in OutputIds : bwd_inputs'.gradients[i] = c
               /\ bwd_inputs'.inputs = c
               /\ \A n \in UsedBy["Backward"] \cap UsedBy["Forward"] :
                     outputs'["Backward"].read[n] = bwd_inputs'.intermediates.read[n]
  <1>1. "Backward" \in Programs /\ UsedBy["Backward"] \subseteq Names
    BY ModelConstants, InputNames
  <1>2. /\ bwd_inputs' = [gradients |-> gradient_inputs,
                          intermediates |-> intermediates, inputs |-> inputs]
        /\ phase = "loss"
    BY DEF BackwardRuns
  <1>3. outputs'["Backward"] = [read |-> Submitted(pool, "Backward"), gen |-> Opened]
    BY <1>1 DEF BackwardRuns, BackwardPool, RunProgram, IInv, RuntimeTypeOK
  <1>4. ASSUME NEW n \in UsedBy["Backward"] \cap UsedBy["Forward"]
        PROVE  outputs'["Backward"].read[n] = intermediates.read[n]
    <2>1. OnDevice(pool[n], device) /\ pool[n].val = intermediates.read[n]
      BY <1>2, <1>4 DEF CallPending
    <2>2. outputs'["Backward"].read[n] = ValueOf(Laid(pool, "Backward", n), host[n], Opened)
      BY <1>1, <1>3, <1>4 DEF Submitted
    <2> QED
      BY <1>1, <1>4, <2>1, <2>2, LaidSound
  <1> QED
    BY <1>2, <1>4 DEF CallPending

LEMMA CoherenceKept ==
    ASSUME IInv, IInv', ModelTypeOK, CallPending, CallsKept, BackwardCoherent, [Next]_vars
    PROVE  BackwardCoherent'
  <1>1. "Forward" \in Programs /\ "Backward" \in Programs /\ "Optimizer" \in Programs
        /\ outputs \in [Programs -> RunOutputs \cup {NoOutputs}]
    BY ModelConstants DEF IInv, RuntimeTypeOK
  <1>2. CASE Backward \/ BackwardRejected
    <2>1. BackwardRuns /\ optimizer' = optimizer /\ held' = held
      BY <1>2 DEF Backward, BackwardRejected
    <2>2. bwd_inputs'.inputs \in held' =>
             bwd_inputs'.inputs = bwd_inputs'.intermediates.call
      BY <2>1 DEF BackwardRuns, CallsKept
    <2> QED
      BY <2>1, <2>2, BackwardIsCoherent DEF BackwardCoherent, UserLoop
  <1>3. CASE ~Backward /\ ~BackwardRejected
    <2>1. UNCHANGED <<bwd_inputs, optimizer>>
      BY <1>3 DEF vars, modelVars, Next, Call, CallThrows, LossBackward,
             BackwardThrows, Step, StepCompletes, StepCut, StepRuns, StepThrows,
             StepWithoutGradients, TorchStep, ZeroGrad, UpdateHostWeights,
             ReplaceParameter, SetLearningRate, ConfigureFirst
    <2>2. outputs'["Backward"] = outputs["Backward"] \/ outputs'["Backward"] = NoOutputs
      <3>1. CASE UNCHANGED outputs
        BY <3>1
      <3>2. CASE Call \/ CallThrows \/ BackwardThrows \/ StepThrows
        BY <1>1, <3>2 DEF Call, CallThrows, BackwardThrows, StepThrows, RunProgram,
                          RunFails, RunProgramThrows, RunProgramThrowsEarly
      <3>3. CASE Step \/ StepCut \/ StepWithoutGradients
        BY <1>1, <3>3 DEF Step, StepCompletes, StepCut, StepRuns, StepWithoutGradients
      <3> QED
        BY <1>3, <3>1, <3>2, <3>3
           DEF vars, runtimeVars, Next, LossBackward, TorchStep, ZeroGrad,
               UpdateHostWeights, ReplaceParameter, SetLearningRate, ConfigureFirst,
               ConfigureDevices
    <2>3. bwd_inputs.inputs \in held' => bwd_inputs.inputs \in held
      <3>1. CASE Call
        BY <3>1 DEF Call, CallsKept, ModelTypeOK
      <3>2. CASE ~Call
        BY <1>3, <3>2 DEF vars, modelVars, Next, CallThrows, LossBackward,
           BackwardThrows, Step, StepCompletes, StepCut, StepRuns, StepThrows,
           StepWithoutGradients, TorchStep, ZeroGrad, UpdateHostWeights,
           ReplaceParameter, SetLearningRate, ConfigureFirst
      <3> QED
        BY <3>1, <3>2
    <2> QED
      BY <2>1, <2>2, <2>3 DEF BackwardCoherent, UserLoop
  <1> QED
    BY <1>2, <1>3

-----------------------------------------------------------------------------
\* Theorems

LEMMA InitMInv == Init => MInv
  <1> SUFFICES ASSUME Init PROVE MInv
    OBVIOUS
  <1>1. IInv
    BY InitIInv DEF Init
  <1>2. ModelTypeOK
    <2>1. NoWeights \in Weights
      BY DEF NoWeights, Weights
    <2> QED
      BY <2>1 DEF Init, ModelTypeOK, Intermediates
  <1>3. CallPending
    BY DEF Init, CallPending
  <1>4. BackwardCoherent
    BY ModelConstants DEF Init, RuntimeInit, BackwardCoherent
  <1>5. NoUpdateLost
    <2>1. \A i \in DOMAIN AliasedOutputs : AliasedOutputs[i] \in Names
      BY MovedNames, UpdatedNames
    <2>2. \A n \in Names : host[n] = 0 /\ Logical(n) = 0
      BY DEF Init, RuntimeInit, Logical, HasRt, NoRt
    <2> QED
      BY <2>1, <2>2, UpdatedNames DEF Init, NoUpdateLost
  <1>6. StepsHaveGradients
    BY DEF Init, StepsHaveGradients
  <1>7. CallsKept /\ NothingBefore /\ WeightsStay
    BY UpdatedNames DEF Init, RuntimeInit, CallsKept, NothingBefore, WeightsStay
  <1> QED
    BY <1>1, <1>2, <1>3, <1>4, <1>5, <1>6, <1>7 DEF MInv

LEMMA NextMInv ==
    ASSUME ~ReconfigureAnytime
    PROVE  MInv /\ [Next]_vars => MInv'
  <1> SUFFICES ASSUME MInv, [Next]_vars PROVE MInv'
    OBVIOUS
  <1>1. IInv'
    BY ModelIInv DEF MInv
  <1>2. ModelTypeOK'
    BY <1>1, ModelType DEF MInv
  <1>3. CallPending'
    BY <1>1, PendingKept DEF MInv
  <1>4. BackwardCoherent'
    BY <1>1, CoherenceKept DEF MInv
  <1>5. NoUpdateLost'
    BY <1>1, UpdatesCounted DEF MInv
  <1>6. StepsHaveGradients'
    BY GradientsCounted DEF MInv
  <1>7. CallsKept'
    BY CallsAreKept DEF MInv
  <1>8. NothingBefore'
    BY NothingIsBefore DEF MInv
  <1>9. WeightsStay'
    BY <1>1, WeightsStayThere DEF MInv
  <1> QED
    BY <1>1, <1>2, <1>3, <1>4, <1>5, <1>6, <1>7, <1>8, <1>9 DEF MInv

\* The tensors, the pending call and the counts of a compiled model stay in
\* step through every order of calls and runs that throw
\* (compiled_graph_state.py:318-478).
THEOREM ModelInvariant ==
    ASSUME ~ReconfigureAnytime
    PROVE  Spec => []MInv
  BY InitMInv, NextMInv, PTL DEF Spec

\* The runtime and the model stay well-formed, for every module, optimizer and
\* script (compiled_graph_state.py:318-539).
THEOREM ModelTypeCorrect ==
    ASSUME ~ReconfigureAnytime
    PROVE  Spec => []TypeOK
  <1>1. MInv => TypeOK
    BY DEF MInv, IInv, ModelTypeOK, TypeOK
  <1> QED
    BY <1>1, ModelInvariant, PTL

\* A completed backward pass takes inputs and intermediates of one forward call unless
\* the last call threw, and in the loop it differentiates one call, at the weights that
\* call read (compiled_graph_state.py:338-392).
THEOREM BackwardsAreCoherent ==
    ASSUME ~ReconfigureAnytime
    PROVE  Spec => []BackwardCoherent
  <1>1. MInv => BackwardCoherent
    BY DEF MInv
  <1> QED
    BY <1>1, ModelInvariant, PTL

\* All weights and the optimizer's state have seen exactly the completed steps and the
\* moves of those that a failed check cut short, at whatever weight it failed; and
\* weights written back to the host are of one step as long as none did
\* (compiled_graph_state.py:453-478 and 536-540).
THEOREM UpdatesAreNotLost ==
    ASSUME ~ReconfigureAnytime
    PROVE  Spec => []NoUpdateLost
  <1>1. MInv => NoUpdateLost
    BY DEF MInv
  <1> QED
    BY <1>1, ModelInvariant, PTL

\* Every completed step had a backward pass of its own
\* (compiled_graph_state.py:395-401 and 478).
THEOREM StepsAlwaysHaveGradients ==
    ASSUME ~ReconfigureAnytime
    PROVE  Spec => []StepsHaveGradients
  <1>1. MInv => StepsHaveGradients
    BY DEF MInv
  <1> QED
    BY <1>1, ModelInvariant, PTL

\* A forward call reads the weights the host or the device has updated last,
\* whoever optimizes them (compiled_graph_state.py:323-332).
THEOREM ForwardsReadLatestWeights ==
    ASSUME ~ReconfigureAnytime
    PROVE  Spec => ForwardReadsLatestWeights
  <1>1. ASSUME IInv, Call, NEW n \in Params \cap UsedBy["Forward"]
        PROVE  outputs'["Forward"].read[n] = IF OptimizerOnDevice THEN Logical(n) ELSE host[n]
    <2>1. /\ n \in Names /\ outputs'["Forward"].read[n] =
                IF OnDevice(ForwardPool[n], device) THEN ForwardPool[n].val ELSE host[n]
      BY <1>1, ForwardRemembers, ModelConstants DEF Call
    <2>2. CASE OptimizerOnDevice
      BY <2>1, <2>2, <1>1, LogicalValue DEF ForwardPool
    <2>3. CASE ~OptimizerOnDevice
      BY <2>1, <2>3 DEF ForwardPool, Detached, DetachFromDevice, OnDevice, NoRt
    <2> QED
      BY <2>2, <2>3
  <1>2. ASSUME IInv, CallThrows
        PROVE  outputs'["Forward"] = NoOutputs
    BY <1>2, ModelConstants DEF CallThrows, RunFails, RunProgramThrows,
       RunProgramThrowsEarly, IInv, RuntimeTypeOK
  <1>3. ASSUME [Next]_vars, calls' # calls
        PROVE  Call \/ CallThrows
    BY <1>3 DEF vars, modelVars, Next, LossBackward, Backward, BackwardRejected,
       BackwardThrows, Step, StepCompletes, StepCut, StepRuns, StepThrows,
       StepWithoutGradients, TorchStep, ZeroGrad, UpdateHostWeights, ReplaceParameter,
       SetLearningRate, ConfigureFirst
  <1>4. MInv /\ [Next]_vars =>
            (calls' # calls /\ outputs'["Forward"] # NoOutputs =>
                \A n \in Params \cap UsedBy["Forward"] :
                    outputs'["Forward"].read[n] =
                        IF OptimizerOnDevice THEN Logical(n) ELSE host[n])
    BY <1>1, <1>2, <1>3 DEF MInv
  <1> QED
    BY <1>4, ModelInvariant, PTL DEF Spec, ForwardReadsLatestWeights
=============================================================================
