---------------------------- MODULE ForgeRuntime ----------------------------
(***************************************************************************)
(* The C++ runtime under one compiled model (csrc/runtime): the device,    *)
(* the tensor pool and the program states that share it, and run_program   *)
(* with the partial progress it leaves when it throws.  The caller is any  *)
(* sequence of the calls python_bindings.cpp exposes; CompiledModel fixes  *)
(* the caller.                                                             *)
(***************************************************************************)
EXTENDS ForgeTensor, Sequences, FiniteSets

CONSTANTS
    Names,              \* names in the tensor pool
    Programs,           \* ProgramType
    PersistentInputs,   \* [Programs -> Seq(Names)], in program order
    LayoutOf,           \* [Programs -> [Names -> Layouts]], in the binary
    Updating,           \* the program with aliased outputs (Optimizer)
    Updated,            \* the names it updates
    NoOutputs,          \* outputs of a program that has none
    NotRead,            \* a name that is not an input of the program
    ReconfigureAnytime, \* may the caller close a device that holds tensors?
    MaxVersion,         \* bound: versions of one tensor
    MaxGen              \* bound: times the device is opened

\* What a run read of each tensor, and on which generation of the device.
Reads == [Names -> Values \cup {NotRead}]
RunOutputs == [read : Reads, gen : Nat]

ASSUME RuntimeAssumption ==
    /\ DOMAIN PersistentInputs = Programs
    /\ \A p \in Programs : PersistentInputs[p] \in Seq(Names)
    /\ LayoutOf \in [Programs -> [Names -> Layouts]]
    /\ Updating \in Programs
    /\ Updated \subseteq {PersistentInputs[Updating][i] :
                              i \in DOMAIN PersistentInputs[Updating]}
    /\ ReconfigureAnytime \in BOOLEAN
    /\ MaxVersion \in Nat /\ MaxGen \in Nat
    /\ NotRead \notin Values
    /\ NoOutputs \notin Values \cup Reads \cup RunOutputs

VARIABLES
    device,     \* generation of the open device, 0 when it is closed
    gens,       \* generations used so far
    host,       \* content of the torch tensor behind each pool tensor
    pool,       \* runtime tensor of each pool tensor
    outputs     \* ProgramState.outputs, as what the program read

runtimeVars == <<device, gens, host, pool, outputs>>

InputsUpTo(p, k) == {PersistentInputs[p][i] : i \in 1..k}

UsedBy == [p \in Programs |-> InputsUpTo(p, Len(PersistentInputs[p]))]

\* Every name is in the pool: the constructor of CompiledModel inserts them.
RuntimeInit ==
    /\ device = 0 /\ gens = 0
    /\ host = [n \in Names |-> 0]
    /\ pool = [n \in Names |-> NoRt]
    /\ outputs = [p \in Programs |-> NoOutputs]

-----------------------------------------------------------------------------
\* TTDevice and TTSystem

\* Mutant of Opened: every run opens the device again.
OpenedAgain == gens + 1

Opened == IF device = 0 THEN gens + 1 ELSE device

\* Nothing on the device: what every caller in the repository waits for.
NothingOnDevice ==
    /\ \A n \in Names : pool[n].kind # "copy"
    /\ \A p \in Programs : outputs[p] = NoOutputs

MayClose == ReconfigureAnytime \/ NothingOnDevice

OpenDevice ==
    /\ device = 0
    /\ device' = gens + 1 /\ gens' = gens + 1
    /\ UNCHANGED <<host, pool, outputs>>

CloseDevices ==
    /\ MayClose
    /\ device' = 0
    /\ UNCHANGED <<gens, host, pool, outputs>>

ConfigureDevices ==
    /\ MayClose
    /\ device' = gens + 1 /\ gens' = gens + 1
    /\ UNCHANGED <<host, pool, outputs>>

-----------------------------------------------------------------------------
\* ModelState.run_program

\* "from" is the pool the run starts from: the pool itself, or the pool some
\* tensors have just been detached from.
Laid(from, p, n) == ToLayout(from[n], LayoutOf[p][n], host[n], Opened)

OpenForRun ==
    /\ device' = Opened
    /\ gens' = IF device = 0 THEN gens + 1 ELSE gens

\* Mutant of Submitted: only what the program uses is remembered.
SubmittedOnly(from, p) ==
    [n \in UsedBy[p] |-> ValueOf(Laid(from, p, n), host[n], Opened)]

Submitted(from, p) ==
    [n \in Names |-> IF n \in UsedBy[p]
                     THEN ValueOf(Laid(from, p, n), host[n], Opened)
                     ELSE NotRead]

\* All inputs are laid out, the program is submitted and returns.
RunProgram(from, p) ==
    /\ OpenForRun
    /\ pool' = [n \in Names |->
                    IF n \in UsedBy[p] THEN Laid(from, p, n) ELSE from[n]]
    /\ outputs' = [outputs EXCEPT ![p] =
                       [read |-> Submitted(from, p), gen |-> Opened]]
    /\ UNCHANGED host

\* The run throws with the first k persistent inputs laid out.  The next one
\* may have been given its borrowed tensor before its conversion threw; with
\* none left, the submission itself threw.  The outputs are already cleared.
RunProgramThrows(from, p, k) ==
    /\ OpenForRun
    /\ pool' = [n \in Names |->
                    IF n \in InputsUpTo(p, k) THEN Laid(from, p, n)
                    ELSE IF /\ k < Len(PersistentInputs[p])
                            /\ n = PersistentInputs[p][k + 1]
                         THEN EnsureRt(from[n])
                    ELSE from[n]]
    /\ outputs' = [outputs EXCEPT ![p] = NoOutputs]
    /\ UNCHANGED host

\* An activation input throws before any persistent input is touched.
RunProgramThrowsEarly(from, p) ==
    /\ OpenForRun
    /\ pool' = from
    /\ outputs' = [outputs EXCEPT ![p] = NoOutputs]
    /\ UNCHANGED host

RunFails(from, p) ==
    \/ RunProgramThrowsEarly(from, p)
    \/ \E k \in 0..Len(PersistentInputs[p]) : RunProgramThrows(from, p, k)

-----------------------------------------------------------------------------
\* TensorPool and Tensor

\* Torch writes to the storage it shares with the tensor.
WriteHost(n) ==
    /\ host' = [host EXCEPT ![n] = @ + 1]
    /\ UNCHANGED <<device, gens, pool, outputs>>

UpdateHostData(n) ==
    /\ HasRt(pool[n])
    /\ host' = [host EXCEPT ![n] = ValueOf(pool[n], @, device)]
    /\ UNCHANGED <<device, gens, pool, outputs>>

\* Mutant of Detached: the other tensors are dropped from the pool.
DetachedOnly(S) == [n \in S |-> DetachFromDevice(pool[n])]

Detached(S) ==
    [n \in Names |-> IF n \in S THEN DetachFromDevice(pool[n]) ELSE pool[n]]

Detach(S) ==
    /\ pool' = Detached(S)
    /\ UNCHANGED <<device, gens, host, outputs>>

\* Mutant of UpdatedTensor: only one of the aliased outputs is moved.
UpdatedOnce(n, out) ==
    IF n = CHOOSE m \in Updated : TRUE
    THEN Copy(LayoutOf[Updating][n], out.read[n] + 1, out.gen)
    ELSE pool[n]

\* update_tensor: the pool tensor takes over the runtime tensor of the aliased
\* output, which holds the value after the one that was read.
UpdatedTensor(n, out) ==
    Copy(LayoutOf[Updating][n],
         IF out.read[n] = Lost THEN Lost ELSE out.read[n] + 1, out.gen)

UpdateTensor(n) ==
    /\ outputs[Updating] # NoOutputs
    /\ HasRt(pool[n])
    /\ pool' = [pool EXCEPT ![n] = UpdatedTensor(n, outputs[Updating])]
    /\ UNCHANGED <<device, gens, host, outputs>>

-----------------------------------------------------------------------------
Bounded(n) == host[n] # Lost /\ host[n] < MaxVersion

CallDevice == \/ OpenDevice /\ gens < MaxGen
              \/ CloseDevices /\ device # 0
              \/ ConfigureDevices /\ gens < MaxGen

CallRun(p) == /\ device # 0 \/ gens < MaxGen
              /\ RunProgram(pool, p) \/ RunFails(pool, p)

CallTensor(n) == \/ WriteHost(n) /\ Bounded(n)
                 \/ UpdateHostData(n)
                 \/ Detach({n})

CallUpdate(n) == /\ outputs[Updating] # NoOutputs
                 /\ outputs[Updating].read[n] \in 0..(MaxVersion - 1)
                 /\ UpdateTensor(n)

RuntimeNext ==
    \/ CallDevice
    \/ \E p \in Programs : CallRun(p)
    \/ \E n \in Names : CallTensor(n)
    \/ \E n \in Updated : CallUpdate(n)

RuntimeSpec == RuntimeInit /\ [][RuntimeNext]_runtimeVars

-----------------------------------------------------------------------------
RuntimeTypeOK ==
    /\ device \in Nat /\ gens \in Nat
    /\ host \in [Names -> Values]
    /\ pool \in [Names -> RtTensor]
    /\ outputs \in [Programs -> RunOutputs \cup {NoOutputs}]
=============================================================================
