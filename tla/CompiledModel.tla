--------------------------- MODULE CompiledModel ---------------------------
(***************************************************************************)
(* CompiledModel (forge/compiled_graph_state.py) over ForgeRuntime: one    *)
(* model compiled for training, its forward, backward and optimizer        *)
(* programs, the torch module that shares its weights, and the training    *)
(* script that drives them.  A call of the model is known by its number;   *)
(* a gradient, an intermediate or an input is the number of the call it    *)
(* belongs to.                                                             *)
(***************************************************************************)
EXTENDS ForgeRuntime

CONSTANTS
    Parameters,         \* sequence of the parameters that require gradients
    NumOutputs,         \* external outputs, each with an input gradient
    AliasedOutputs,     \* the tensors the optimizer's outputs are moved to, in their order
    Optimizers,         \* "forge": compiled with one that runs on the device; "torch"
    NameIn,             \* pairs <<m, n>>: m is a substring of n's gradient name
    InLoop,             \* those with which the script follows the training loop of the tests
    LearningRates,      \* pool names that hold a learning rate
    Replaceable,        \* bound: the parameters the script may replace in the torch module
    MaxCalls,           \* bound: calls of the model
    MaxBackwards,       \* bound: completed backward passes
    MaxRates            \* bound: learning rates set by the script

Params == {Parameters[i] : i \in DOMAIN Parameters}
OutputIds == 1..NumOutputs

ASSUME ModelAssumption ==
    /\ Parameters \in Seq(Names)
    /\ NumOutputs \in Nat \ {0}
    /\ AliasedOutputs \in Seq(Names)
    /\ Updated = {AliasedOutputs[i] : i \in DOMAIN AliasedOutputs}
    /\ \A i, j \in DOMAIN AliasedOutputs : AliasedOutputs[i] = AliasedOutputs[j] => i = j
    /\ Optimizers \subseteq {"forge", "torch"} /\ InLoop \subseteq Optimizers
    /\ {"Forward", "Backward", "Optimizer"} \subseteq Programs
    /\ Updating = "Optimizer"
    /\ LearningRates \subseteq Names \ Params
    /\ Replaceable \subseteq Params
    /\ MaxCalls \in Nat /\ MaxBackwards \in Nat /\ MaxRates \in Nat

VARIABLES
    optimizer,          \* the one the model was compiled with
    inputs,             \* self.inputs: the call that set it, 0 for none
    intermediates,      \* self.intermediates: the call and the weights it read
    gradient_inputs,    \* [OutputIds -> call], 0 for None
    gradient_outputs,   \* the backward pass that produced it, 0 for []
    bwd_inputs,         \* what the last completed backward pass consumed
    grad,               \* torch param.grad: its contributions <<pass, name>>
    held,               \* calls whose outputs the script still holds
    calls,              \* calls of the model so far
    backwards,          \* completed backward passes so far
    steps,              \* completed optimizer steps so far
    cut_moves,          \* steps a failed check has cut short, behind each of their moves
    replaced,           \* parameters of which the torch module has another tensor by now
    learning_rate,      \* Optimizer.learning_rate, as a version
    phase               \* where the script is in its loop

modelVars == <<optimizer, inputs, intermediates, gradient_inputs, gradient_outputs,
               bwd_inputs, grad, held, calls, backwards, steps, cut_moves, replaced,
               learning_rate, phase>>
vars == <<runtimeVars, modelVars>>

OptimizerOnDevice == optimizer = "forge"
UserLoop == optimizer \in InLoop

Weights == [Names -> Values \cup {NotRead}]
NoWeights == [n \in Names |-> NotRead]
Intermediates == [call : Nat, read : Weights]

Init ==
    /\ RuntimeInit
    /\ optimizer \in Optimizers
    /\ inputs = 0
    /\ intermediates = [call |-> 0, read |-> NoWeights]
    /\ gradient_inputs = [i \in OutputIds |-> 0]
    /\ gradient_outputs = 0
    /\ bwd_inputs = [gradients |-> gradient_inputs,
                     intermediates |-> intermediates, inputs |-> 0]
    /\ grad = [n \in Params |-> {}]
    /\ held = {}
    /\ calls = 0 /\ backwards = 0 /\ steps = 0
    /\ cut_moves = [i \in DOMAIN AliasedOutputs |-> 0]
    /\ replaced = {}
    /\ learning_rate = 0
    /\ phase = "idle"

-----------------------------------------------------------------------------
\* CompiledModel.__call__

\* Mutant of ForwardPool: weights are never taken off the device.
WeightsKept == pool

\* Weights a torch optimizer may have changed are taken off the device, so that
\* the forward run pushes the host's values again.
ForwardPool == IF OptimizerOnDevice THEN pool ELSE Detached(Params)

\* Every parameter that requires gradients is one of the forward program's, and the torch
\* module has the tensor the model shares with it: the call is refused otherwise.
SharedWithTorch == replaced = {} /\ Params \subseteq UsedBy["Forward"]

NewIntermediates == [call |-> calls + 1, read |-> outputs'["Forward"].read]

Call ==
    /\ calls < MaxCalls
    /\ SharedWithTorch
    /\ RunProgram(ForwardPool, "Forward")
    /\ calls' = calls + 1
    /\ inputs' = calls + 1
    /\ intermediates' = NewIntermediates
    /\ held' = held \cup {calls + 1}
    /\ phase' = "called"
    /\ UNCHANGED <<optimizer, gradient_inputs, gradient_outputs, bwd_inputs, grad,
                   backwards, steps, cut_moves, replaced, learning_rate>>

\* self.inputs is assigned before the run, self.intermediates after it.
CallThrows ==
    /\ calls < MaxCalls
    /\ SharedWithTorch
    /\ RunFails(ForwardPool, "Forward")
    /\ calls' = calls + 1
    /\ inputs' = calls + 1
    /\ phase' = "idle"
    /\ UNCHANGED <<optimizer, intermediates, gradient_inputs, gradient_outputs,
                   bwd_inputs, grad, held, backwards, steps, cut_moves, replaced,
                   learning_rate>>

-----------------------------------------------------------------------------
\* The script computes a loss from some outputs of a call it holds and asks
\* torch for its gradients: the hooks of those outputs run tie_grad_fn.
TieGradients(c, S) ==
    gradient_inputs' = [i \in OutputIds |->
                           IF i \in S THEN c ELSE gradient_inputs[i]]

LossBackward ==
    /\ \E c \in held, S \in SUBSET OutputIds :
          /\ S # {}
          /\ UserLoop => phase = "called" /\ c = calls /\ S = OutputIds
          /\ TieGradients(c, S)
    /\ phase' = "loss"
    /\ UNCHANGED <<runtimeVars, optimizer, inputs, intermediates, gradient_outputs,
                   bwd_inputs, grad, held, calls, backwards, steps, cut_moves,
                   replaced, learning_rate>>

-----------------------------------------------------------------------------
\* CompiledModel.backward

GradientsProvided == \A i \in OutputIds : gradient_inputs[i] # 0

\* A gradient is added to every parameter whose name occurs in its name.
Accumulated(b) ==
    [n \in Params |-> grad[n] \cup {<<b, m>> : m \in {m \in Params : <<n, m>> \in NameIn}}]

\* Mutant of BackwardPool: weights are taken from the host once more.
BackwardPoolDetached == Detached(Params)

\* The backward pass uses the weights as the forward pass left them.
BackwardPool == pool

BackwardRuns ==
    /\ GradientsProvided
    /\ UserLoop => phase = "loss"
    /\ backwards < MaxBackwards
    /\ RunProgram(BackwardPool, "Backward")
    /\ bwd_inputs' = [gradients |-> gradient_inputs,
                      intermediates |-> intermediates, inputs |-> inputs]

Backward ==
    /\ BackwardRuns
    /\ OptimizerOnDevice => gradient_outputs = 0
    /\ backwards' = backwards + 1
    /\ gradient_outputs' = backwards + 1
    /\ grad' = IF OptimizerOnDevice THEN grad ELSE Accumulated(backwards + 1)
    /\ phase' = "grads"
    /\ UNCHANGED <<optimizer, inputs, intermediates, gradient_inputs, held, calls,
                   steps, cut_moves, replaced, learning_rate>>

\* "Gradient accumulation for grads on device not implemented yet": the pass
\* has run by the time the assertion fails.
BackwardRejected ==
    /\ BackwardRuns
    /\ OptimizerOnDevice /\ gradient_outputs # 0
    /\ backwards' = backwards + 1
    /\ phase' = "grads"
    /\ UNCHANGED <<optimizer, inputs, intermediates, gradient_inputs, gradient_outputs,
                   grad, held, calls, steps, cut_moves, replaced, learning_rate>>

BackwardThrows ==
    /\ GradientsProvided
    /\ UserLoop => phase = "loss"
    /\ RunFails(BackwardPool, "Backward")
    /\ UNCHANGED modelVars

-----------------------------------------------------------------------------
\* CompiledModel.step

StepAllowed == OptimizerOnDevice /\ (UserLoop => phase = "grads")

\* Mutant of Moved: each check comes before the move.
MovedAfterCheck(k) == {AliasedOutputs[i] : i \in 1..k} \ replaced

\* What update_tensor has moved an aliased output into, k times through its loop.
Moved(k) == {AliasedOutputs[i] : i \in 1..k}

\* The optimizer program runs, then the first k aliased outputs are moved into the
\* pool.  (The assertions of update_tensor hold: the run has laid out all weights.)
StepRuns(k) ==
    /\ \A n \in Updated : ValueOf(pool[n], host[n], device) \in 0..(MaxVersion - 1)
    /\ OpenForRun
    /\ outputs' = [outputs EXCEPT !["Optimizer"] =
                       [read |-> Submitted(pool, "Optimizer"), gen |-> Opened]]
    /\ pool' = [n \in Names |->
                    CASE n \in Moved(k) ->
                            UpdatedTensor(n, outputs'["Optimizer"])
                      [] n \in UsedBy["Optimizer"] \ Moved(k) ->
                            Laid(pool, "Optimizer", n)
                      [] OTHER -> pool[n]]
    /\ UNCHANGED <<host, optimizer, inputs, intermediates, gradient_inputs, bwd_inputs,
                   grad, held, calls, backwards, replaced, learning_rate>>

\* All outputs are moved, and each weight moved to passes the check that follows.
StepCompletes ==
    /\ \A i \in DOMAIN AliasedOutputs : AliasedOutputs[i] \notin replaced
    /\ StepRuns(Len(AliasedOutputs))
    /\ steps' = steps + 1
    /\ phase' = "idle"
    /\ UNCHANGED cut_moves

\* Mutant of Step: the gradients are not dropped.
StepKeepsGradients ==
    /\ StepAllowed
    /\ gradient_outputs # 0
    /\ StepCompletes
    /\ UNCHANGED gradient_outputs

Step ==
    /\ StepAllowed
    /\ gradient_outputs # 0
    /\ StepCompletes
    /\ gradient_outputs' = 0

\* "Sanity check": the k-th move is to a weight of which the torch module has another
\* tensor.  It has been made by then, those behind it are not, the gradients are kept.
StepCut ==
    /\ StepAllowed
    /\ gradient_outputs # 0
    /\ \E k \in DOMAIN AliasedOutputs :
          /\ AliasedOutputs[k] \in replaced
          /\ \A i \in 1..(k - 1) : AliasedOutputs[i] \notin replaced
          /\ StepRuns(k)
          /\ cut_moves' = [i \in DOMAIN AliasedOutputs |->
                              IF i <= k THEN cut_moves[i] + 1 ELSE cut_moves[i]]
    /\ UNCHANGED <<gradient_outputs, steps, phase>>

\* Mutant of StepThrows: the gradients are dropped before the run.
StepThrowsLast ==
    /\ StepAllowed
    /\ gradient_outputs # 0
    /\ RunFails(pool, "Optimizer")
    /\ gradient_outputs' = 0
    /\ UNCHANGED <<optimizer, inputs, intermediates, gradient_inputs, bwd_inputs, grad,
                   held, calls, backwards, steps, cut_moves, replaced, learning_rate,
                   phase>>

StepThrows ==
    /\ StepAllowed
    /\ gradient_outputs # 0
    /\ RunFails(pool, "Optimizer")
    /\ UNCHANGED modelVars

\* Without gradients the persistent inputs are laid out under the indices of
\* the gradients, and the run is refused for its number of inputs.
StepWithoutGradients ==
    /\ StepAllowed
    /\ gradient_outputs = 0
    /\ OpenForRun
    /\ \E layout \in [UsedBy["Optimizer"] -> Layouts \ {HostLayout}] :
          pool' = [n \in Names |->
                      IF n \in UsedBy["Optimizer"]
                      THEN ToLayout(pool[n], layout[n], host[n], Opened)
                      ELSE pool[n]]
    /\ outputs' = [outputs EXCEPT !["Optimizer"] = NoOutputs]
    /\ UNCHANGED <<host, modelVars>>

-----------------------------------------------------------------------------
\* Weights on the host

\* torch.optim step and zero_grad, on the parameters the model shares.
TorchStep ==
    /\ ~OptimizerOnDevice
    /\ \A n \in Params : Bounded(n)
    /\ host' = [n \in Names |-> IF n \in Params /\ grad[n] # {}
                               THEN host[n] + 1 ELSE host[n]]
    /\ UNCHANGED <<device, gens, pool, outputs, modelVars>>

ZeroGrad ==
    /\ ~OptimizerOnDevice
    /\ grad' = [n \in Params |-> {}]
    /\ UNCHANGED <<runtimeVars, optimizer, inputs, intermediates, gradient_inputs,
                   gradient_outputs, bwd_inputs, held, calls, backwards, steps,
                   cut_moves, replaced, learning_rate, phase>>

\* update_host_weights stops at the first parameter that was never pushed.
UpdateHostWeights ==
    /\ OptimizerOnDevice \/ ~UserLoop
    /\ LET synced == {Parameters[i] : i \in {i \in DOMAIN Parameters :
                          \A j \in 1..i : HasRt(pool[Parameters[j]])}}
       IN  host' = [n \in Names |->
                       IF n \in synced THEN ValueOf(pool[n], host[n], device)
                                       ELSE host[n]]
    /\ UNCHANGED <<device, gens, pool, outputs, modelVars>>

\* The script puts another tensor in the place of a parameter of the torch module, or
\* the one back that the model shares.
ReplaceParameter ==
    /\ OptimizerOnDevice
    /\ \E n \in Replaceable : replaced' \in {replaced \cup {n}, replaced \ {n}}
    /\ UNCHANGED <<runtimeVars, optimizer, inputs, intermediates, gradient_inputs,
                   gradient_outputs, bwd_inputs, grad, held, calls, backwards,
                   steps, cut_moves, learning_rate, phase>>

\* Optimizer.set_optimizer_parameters: a new tensor for the next compilation.
SetLearningRate ==
    /\ learning_rate < MaxRates
    /\ learning_rate' = learning_rate + 1
    /\ UNCHANGED <<runtimeVars, optimizer, inputs, intermediates, gradient_inputs,
                   gradient_outputs, bwd_inputs, grad, held, calls, backwards,
                   steps, cut_moves, replaced, phase>>

\* configure_devices, before the model is first used.
ConfigureFirst ==
    /\ calls = 0 /\ gens < MaxGen
    /\ ConfigureDevices
    /\ UNCHANGED modelVars

-----------------------------------------------------------------------------
Next ==
    \/ Call \/ CallThrows
    \/ LossBackward
    \/ Backward \/ BackwardRejected \/ BackwardThrows
    \/ Step \/ StepCut \/ StepThrows \/ StepWithoutGradients
    \/ TorchStep \/ ZeroGrad \/ UpdateHostWeights
    \/ ReplaceParameter \/ SetLearningRate
    \/ ConfigureFirst

\* A script that has gradients steps, again if need be, and not every run of the
\* optimizer throws.
Fairness == WF_vars(Step)

Spec == Init /\ [][Next]_vars /\ Fairness

-----------------------------------------------------------------------------
\* What the variables of CompiledModel and of the script hold.
ModelTypeOK ==
    /\ optimizer \in Optimizers
    /\ inputs \in Nat /\ gradient_outputs \in Nat
    /\ intermediates \in Intermediates
    /\ gradient_inputs \in [OutputIds -> Nat]
    /\ bwd_inputs \in [gradients : [OutputIds -> Nat],
                       intermediates : Intermediates, inputs : Nat]
    /\ grad \in [Params -> SUBSET (Nat \X Params)]
    /\ held \subseteq 1..calls
    /\ calls \in Nat /\ backwards \in Nat /\ steps \in Nat /\ learning_rate \in Nat
    /\ cut_moves \in [DOMAIN AliasedOutputs -> Nat]
    /\ replaced \subseteq Replaceable
    /\ phase \in {"idle", "called", "loss", "grads"}

TypeOK == RuntimeTypeOK /\ ModelTypeOK

\* What the next program that uses n will read.
Logical(n) ==
    IF HasRt(pool[n]) THEN ValueOf(pool[n], host[n], device) ELSE host[n]

\* Whatever the script calls in between, a completed backward pass is given the inputs
\* and the intermediates of one forward call, unless the last call threw.  In the loop
\* of the tests it differentiates one forward call: its gradients,
\* intermediates and inputs belong to the same call, and it reads the weights
\* that call read, although torch may have changed them on the host in between
\* and any run may have thrown half-way (compiled_graph_state.py:338-392).
BackwardCoherent ==
    outputs["Backward"] # NoOutputs =>
        LET c == bwd_inputs.intermediates.call
        IN  /\ bwd_inputs.inputs \in held => bwd_inputs.inputs = c
            /\ UserLoop =>
                  /\ \A i \in OutputIds : bwd_inputs.gradients[i] = c
                  /\ bwd_inputs.inputs = c
                  /\ \A n \in UsedBy["Backward"] \cap UsedBy["Forward"] :
                        outputs["Backward"].read[n] = bwd_inputs.intermediates.read[n]

\* A forward call reads the weights both sides have agreed on: the host's when
\* torch optimizes them, the result of the last step when the device does
\* (compiled_graph_state.py:323-332).
ForwardReadsLatestWeights ==
    [][ calls' # calls /\ outputs'["Forward"] # NoOutputs =>
          \A n \in Params \cap UsedBy["Forward"] :
              outputs'["Forward"].read[n] =
                  IF OptimizerOnDevice THEN Logical(n) ELSE host[n]
      ]_vars

\* No update is lost or applied twice, whatever runs throw and however often the calls
\* are repeated: each weight, and each state of the optimizer, has seen the completed
\* steps, and of those that a failed check has cut short exactly the ones that had come
\* as far as its move.  As long as no check has failed, the weights on the host are all
\* of one step, although update_host_weights may stop half-way
\* (compiled_graph_state.py:453-478 and 536-540).
NoUpdateLost ==
    OptimizerOnDevice =>
        /\ \A i \in DOMAIN AliasedOutputs :
              Logical(AliasedOutputs[i]) = steps + cut_moves[i]
        /\ (\A i \in DOMAIN AliasedOutputs : cut_moves[i] = 0) =>
              \A m, n \in Params \cap Updated : host[m] = host[n]

\* Every step has a backward pass of its own, and so has the one whose
\* gradients are pending (compiled_graph_state.py:395-401 and 478).
StepsHaveGradients ==
    steps + (IF gradient_outputs # 0 THEN 1 ELSE 0) <= backwards

\* Whatever the script calls in between and however many runs throw, gradients
\* that are on the device end up in the weights, or the script replaces a parameter: no
\* failure takes them away or leaves the model in a state from which a repeated step
\* cannot succeed (compiled_graph_state.py:453-478).
GradientsAreApplied ==
    \A k \in 0..(MaxVersion - 1) :
        /\ OptimizerOnDevice /\ gradient_outputs # 0 /\ steps = k
        /\ \A n \in Updated : Logical(n) < MaxVersion
        ~> steps > k \/ replaced # {}

\* set_optimizer_parameters "may be invoked multiple times as a way to adjust
\* the updated optimizer parameter values across training loop iterations"
\* (optimizers.py:150-151): the next step uses the rate that was set.
LearningRateReachesDevice ==
    \A n \in LearningRates : Logical(n) = learning_rate
=============================================================================
