# TLA+ models and proofs of tt-forge-onnx

tt-forge-onnx compiles a neural network (from ONNX, or traced from torch) into
programs for a Tenstorrent device and runs them: inference, and training with
a torch optimizer on the host or a forge optimizer on the device. This
directory models the parts of it that keep state, checks them with TLC and
proves the most important invariants with TLAPS.

## 1. The system

| component | state it keeps | operations | correct when |
|---|---|---|---|
| **Tensor and device runtime** `forge/csrc/runtime` | `TTSystem`/`TTDevice` (open or not, mesh handle), `TensorPool` (name → `Tensor`), each `TensorImpl` = host buffer shared with torch + optional `runtime::Tensor`, `ProgramState.outputs` per program | `run_program`, `to_layout`, `detach_from_device`, `update_host_data`, `update_tensor`, `open_device`, `close_devices`, `configure_devices` | a program reads the current value of each persistent tensor, wherever that value is and whatever throws |
| **Training runtime** `forge/forge/compiled_graph_state.py`, `optimizers.py` | `inputs`, `intermediates`, `gradient_inputs`, `gradient_outputs`, torch's `param.grad`, the learning rate | `__call__`, `backward`, `step`, `update_host_weights`, `set_optimizer_parameters`, and torch's own `backward`/`step`/`zero_grad` | a backward pass differentiates one forward call at the weights that call used; a step is applied exactly once to all weights |
| **Graph** `forge/csrc/graph_lib/graph.cpp` | nodes by id, names → ids, edges under their producer and again under their consumer, attributes by edge id, virtual nodes, module inputs/outputs | add/remove/rename node, add/remove edge, attributes, marks | the redundant maps describe one graph |
| **Graph rewriting helpers** `graph_lib/utils.cpp` | none of their own | insert on edge, bypass, replace, swap, cascade | the values computed downstream are unchanged |
| **Compilation pipeline** `forge/forge/compile.py` | `CompileContext`: stage, graph, modules, losses | one function per stage, early stop at `compile_depth` | every stage runs once, after what it needs |
| **Ops** `forge/csrc/ops`, `forge/forge/op` | none: a node is its op, attributes, operands and shape | shape, evaluation, backward and decompositions of each op; the Python functions that trace ops, layers and losses | the shape is that of the tensor; decompositions keep the tensor; the backward graph is the derivative |
| **Graph passes** `forge/csrc/passes`, `forge_passes.cpp` | the graph | pattern rewrites of the traced graph, decomposition by epochs, constant evaluation on the host, passes before lowering | the outputs keep their tensors; the sweeps end |
| **Optimization passes** `forge_passes.cpp`, `passes/commute_utils.cpp`, `passes/erase_inverse_ops.cpp` | the graph | commute and erase inverse ops, fold constants; repeated to a fixpoint; off by default | semantics kept; the repetition ends |
| **Autograd** `forge/csrc/autograd` | forward → backward node maps, accumulated gradients | one visit per forward node, in reverse | every parameter gets the sum of its gradients |
| **Splitting into programs** `passes/split_graph.cpp`, `passes/remove_nops.cpp` | one module of forward, backward and optimizer graphs | clone nodes, create boundary inputs/outputs | the boundary lists agree by order with those of `CompiledModel` |
| **Lowering** `forge/csrc/passes/lower_to_mlir.cpp` | the symbol table: node → value of the function | one instruction for each op, in topological order | the function returns what the graph does, with the broadcasts on edges dropped |
| **Verification** `forge/csrc/verif/verif_ops.cpp` | one atomic per reduction, and the locals of each thread | comparisons of two tensors: special values, largest difference, closeness, correlation | an answer does not depend on threads, chunks and vectors |
| Import, data formats, fracturing, reports | see sections 7 and 8 | | |

How they interact: the pipeline calls the passes, which rewrite the `Graph`
through its mutators and the rewriting helpers; `split_graph` fixes the order
of the inputs of each program, lowering turns each graph into one program of a
flatbuffer, and `CompiledModel` fills the tensor pool and calls
`run_program(program, activations)`. The order of the inputs is an agreement by
position between the compiler, `CompiledModel` and the runtime. All weights are
shared by reference: the torch module, the pool tensor's host buffer and (a
copy) the device.

What is hard here. Almost nothing runs concurrently: there is one Python thread, and
the runtime's calls are synchronous; only the kernels that compare two tensors reduce
them on several threads, without a lock. The other hazards are those of *state that
outlives a call*: copies of one weight (torch, borrowed, on the device in one
of several layouts, in an output not yet moved) that must be told apart; runs
that throw after part of their inputs moved; calls in orders the training loop
of the tests never uses; and, in the compiler, three maps holding one set of
edges under long sequences of removals and renamings. The second kind is an
*agreement by position*: autograd, the split, the lowering and `CompiledModel`
each make lists of inputs and outputs of their own, for graphs in which a value may be an
output, a saved value, a parameter and its own recomputation at once. The third is an *agreement
by convention* between some ninety ops and the passes over them: what one file decomposes an op into,
another must know how to differentiate, decompose further, re-rank or lower; shapes
are computed in one place and tensors in another; and broadcasts live on edges, in
nodes or nowhere, depending on the epoch. PROJECT.json lists the hazards
one by one with the properties that cover them.

## 2. Modules

| module | models | extends / instantiates |
|---|---|---|
| `ForgeTensor` | `TensorImpl`: what `to_layout`, `detach_from_device` and reading do to the optional runtime tensor, as pure operators | |
| `ForgeRuntime` | `TTDevice`, `TensorPool`, `run_program` with its partial failures; caller = any sequence of the exported calls | `ForgeTensor` |
| `PersistentStore` | abstract: a cache of persistent tensors, as `state.hpp` describes the pool | |
| `ForgeRuntimeStore` | the refinement mapping and the properties of the pool | `ForgeRuntime`; `PersistentStore` |
| `CompiledModel` | `CompiledModel` composed with the runtime, torch and the script that drives them | `ForgeRuntime` |
| `CompiledModelProofs` | theorems about the runtime and `CompiledModel` | `CompiledModel`, `ForgeRuntimeStore`, TLAPS |
| `GraphLib` | `Graph`'s mutators | `EdgeSet` |
| `EdgeSet` | abstract: a set of named nodes and a set of edges | |
| `GraphLibProofs` | theorems about the graph | `GraphLib`, TLAPS |
| `TensorGraph` | the graph as autograd and the split read it: nodes in order, operands by port, topological order, and what ops compute | SequencesExt |
| `Autograd` | `generate_graph` and the autograd engine: one action per visited tensor, output, node or parameter | `TensorGraph` |
| `SplitGraph` | `remove_nops` and `split_graph` | `Autograd` |
| `TrainingStep` | the lowered programs, the calls `CompiledModel` makes of them by position, and the module's own mathematics they are compared with | `SplitGraph` |
| `TensorGraphProofs` | lemmas about lists, sums and graphs; the topological sort sorts | `TensorGraph`, TLAPS |
| `AutogradProofs` | what a node's name says of it; recursion along ranks; every stage from the trace to the recomputed ops keeps the graph whole | `Autograd`, `TensorGraphProofs` |
| `SplitGraphProofs` | `remove_nops` and the three programs | `SplitGraph`, `AutogradProofs` |
| `TrainingStepProofs` | runs of the programs: types, results of the forward program, places for gradients, operands | `TrainingStep`, `SplitGraphProofs` |
| `GradientProofs` | the gradients autograd builds are the derivatives, and the backward program returns them | `TrainingStepProofs` |
| `Tensors` | shapes, elements, broadcasts, and the calls of torch the ops are made of | SequencesExt, FiniteSetsExt |
| `EvalEltwise`, `EvalMove`, `EvalReduce`, `EvalWindow` | the tensor each op computes and the shape it announces | in a chain from `Tensors` |
| `Ops` | the dispatch of `op.cpp` over them | `EvalWindow` |
| `Terms` | graphs of ops: building a node with its broadcasts, topological order, users, bypassing, shapes recomputed after a rewrite; the evaluation of a graph as `eval_graph` does it | `Ops` |
| `Gradients` | `backward` of each op | `Terms` |
| `Decompositions` | the decompositions of each op, by epoch | `Gradients` |
| `Passes` | the rewrites of the traced graph, and the passes before lowering | `Decompositions` |
| `ConstEval` | which input of a graph may absorb which op | `Passes` |
| `Lowering` | the function a graph is lowered to: arguments, renamed attributes, ops that write in place, returned values; the ops it refuses; and what it returns when it is executed | `ConstEval` |
| `Optimizers` | the graphs SGD, Adam and AdamW update a parameter with, the casts between data formats in them, and the state they start with | `Gradients` |
| `OpCompiler` | the stages of the compilation over all of these, one action per rewritten node | `Lowering`, `Optimizers`, `Torch` |
| `ForgeOps` | `forge.op`: what each Python function, layer and loss is traced to | `Terms` |
| `Torch` | the reference: torch's definitions of the losses, slices and convolutions `ForgeOps` is compared with, and of the optimizers `Optimizers` is | `EvalWindow` |
| `VerifOps` | the comparisons of two tensors: chunks, threads, vectors, compare-and-exchange | |
| `VerifOpsProofs` | theorems about them | `VerifOps`, TLAPS |
| `MC…` | the instances TLC checks | |

### Tensors and the runtime

Data is a version number. `host[n]` is the content of the storage torch and the
pool share; `pool[n]` is `rt_tensor`: none, *borrowed* (points into the host
buffer, so it reads whatever torch wrote last) or a *copy* with a layout, a value and
the generation of the device it was made on. A generation is one opening of the
device; memory of an earlier one reads as `Lost`. `outputs[p]` remembers what the
run read, which is what its results are a function of, and the updated weight
of the optimizer is the version after the one it read.

`RunProgram` is the whole of `run_program`: open the device if needed, lay out
each persistent input in order (the code loops over them; nothing else can
observe the middle unless it throws), submit, keep the outputs.
`RunProgramThrows(from, p, k)` is the same with an exception after `k` inputs,
including the case in which input `k + 1` was given its borrowed tensor before
its conversion threw, and `k = ` all when the submission throws.
`RunProgramThrowsEarly` stands for a refused activation. The argument `from`
lets `CompiledModel` detach tensors and run in one step, as `__call__` does.

### Training

`Call`, `CallThrows`, `LossBackward` (torch's backward through the loss, which
calls the hook of every output: it may provide gradients of only some outputs and of an
earlier call whose outputs the script kept), `Backward`, `BackwardRejected` (the
assertion after the run), `BackwardThrows`, `Step`, `StepCut`, `StepThrows`,
`StepWithoutGradients`, `TorchStep`, `ZeroGrad`, `UpdateHostWeights`, `ReplaceParameter`,
`SetLearningRate`, `ConfigureFirst`. Every value that belongs to a call of the
model is the number of that call. `UserLoop` says whether the script follows
the loop of the repository's training tests (call, loss, backward, step) or
calls in any order. Most of `BackwardCoherent` is said of the loop only: calls in other orders
violate it, as gradients are never cleared (section 3). What it says of all scripts is that the inputs of a call that
returned never meet the intermediates of another; after a call that threw they do.

`step` runs the optimizer program and then moves its outputs into the pool one at a time, in the order of
`AliasedOutputs`; behind each move to a weight it asserts that the torch module still has the tensor the model shares with
it. `StepRuns(k)` is the run and the first `k` moves. `Step` makes all of them. `StepCut` is the step that an assertion ends behind
the `k`-th: the weights up to there are new, those behind it old, the gradients are kept, and the next step
applies them again. A script gets there by putting another tensor in the place of a parameter
(`ReplaceParameter`, `replaced`); `__call__` makes the same check before it runs (`SharedWithTorch`). `cut_moves` is no variable of
the code: it records, for each output, in how many of the steps cut short its move was made, so that `NoUpdateLost` can
say of every weight what it must have seen.

### Graphs

One variable per map of the C++ class. An edge is its unique id (producer and
its port, consumer and its port, type): the creation id does not take part in
equality.
`add_edge` on a live edge, a refused `add_node` that has already used up an id,
and `unordered_map::insert` not replacing old attributes are modelled as the
code has them. `update_node_name` does not check for a name in use; its callers
derive fresh names, and the guard says so.

### From a module to a training step

The initial states are all modules of at most `MaxOps` operations over the
leaves (activations and weights), with every list of outputs; `Families` says which operations and
weights, what is trained, and whether there is an optimizer on the
device and recomputation. From there the compilation is deterministic, as in
the code; `stage` says which loop runs and `todo` what it still has to visit:

| stages | actions | code |
|---|---|---|
| `trace` | `VisitTensor`, `RegisterModule` | `generate_graph`: breadth first from the outputs, which makes the order of nodes the order of everything after |
| `propagate` … `optimizer` | `PropagateRequiresGrad`, `CreateGradientInput`, `StartDifferentiation`, `Differentiate`, `StartOptimizer`, `OptimizeParameter`, `InsertRecomputeOps` | `autograd_engine::run` |
| `nops` | `RemoveNop` | `remove_nops`, the pass before the split that changes what is an output of what |
| `nops` … `update` | `ExtractForward`, `ExtractBackward`, `ExtractOptimizer` | `split_graph` |
| `compiled` … `stepped` | `Call`, `LossBackward`, `RunBackward`, `Step` | the programs, run on lists put together by name and matched by position |

`stage = "refused"` is the runtime's "Input count mismatch", `"too many
gradients"` the assertion of `tie_grad_fn`. A tensor is one element modulo
`Modulus`: `Values` runs a graph on such elements. `Exact`, `Derivative` and
`Gradient` compute the same from the module alone, forward along its
operations, so that nothing of autograd's reverse pass is in the reference.

### From traced ops to lowered ones

`TrainingStep` has four ops and all small modules; `OpCompiler` has all ops and chosen
modules. A graph is the sequence of its outputs, and an output is a *term*: an op with
attributes, operands that are terms, and the shape announced for it. Equal terms are one
node; the broadcasts an edge carries are nodes `tm` between its ends. A tensor is its shape and its
elements, and an element is a dual number: a residue modulo the prime 191, and its
change with one element of one input. So the reference for a gradient is the
derivative of the module itself, and autograd's graph is not in it. Identities between
rational expressions hold of residues as they hold of rationals, residues below 95 are positive and
the others negative, so that maxima and comparisons of small numbers
work; `exp`, `tanh`, `erf` … are functions on residues with the derivatives theirs
have, which is all the rewrites rely on (softmax is the quotient it is defined by). `TracesAreTorch` compares what
`forge.op` traces with `Torch`, whose definitions are torch's and not made of the same ops.

`epoch` says where the compilation is, in the order of `forge_compile_from_context`:

| epoch | actions | code |
|---|---|---|
| `split`, `fuse_pad`, `unsqueeze`, `fuse_bias` | `DecomposeReshapeSplit`, `FusePadConv2d`, `ExplicateUnsqueeze`, `FuseConv2dBias` | `run_post_initial_graph_passes`: each rewrites the first node it matches until it matches none |
| `initial`, `post_autograd` | `DecomposeNode`, `NextSweep`, `HandleChangeRank` | `decompose_tt_forge_graph`: sweeps until one replaces no node, then the ranks users read are repaired |
| `bypass` | `BypassNopTms` | nops and transformations without effect |
| `autograd` | `Differentiate`, `EndAutograd` | `create_backward_graph`, over all ops, with the sums over broadcasts; then `create_optimizer_graph` |
| `consteval` | `AbsorbUnary`, `AbsorbWithOperands`, `ForkInput`, `KeepInput`, `EndConstEval` | `run_consteval_graph_pass`: an input that does not change absorbs the op that reads it |
| `pre_lowering` | `PreLower` | broadcasts to edges, nops away |

With an optimizer on the device, `EndAutograd` appends what it computes for each trained parameter: the
updated parameter, and the state that is looped back to where it was read. The gradient is read from the queue the backward program
writes it to. These outputs pass through the later epochs with the others, and
`RunOptimizer` runs them as `CompiledModel.step` does: on the state, which it replaces.
The optimizer computes in Float32 (`InFloat32` casts what it reads, `CastBack` the new parameter), and this is the one
place where the model has data formats: `Format` follows them from an operand to its op.

The tensors of a graph are those of the compiler's own evaluation (`eval_graph`): `InputMapping` has the inputs by name,
with the optimizer's state and the gradients of the outputs; `EvalInput` evaluates what an input has absorbed, `EvalOperands` the
broadcasts on edges; `GraphOutputs`, `FwdToGradient`, `BwdGradients` and `UpdatedParameters` are what it
returns. That evaluation ignores what is on the edge to an output, as the lowering does.

At the end the graph becomes a function (`EmitFunction`): its arguments are numbered first, each op
adds an instruction with the attributes under the names the dialect has for them, and writes a value of its own or, in place, that of
its first operand. `Returned` executes the instructions one after the other and says, as a graph again, what is
returned; `LoweredOutputsKept` compares that with the traced module.

`rejected` is any failed assertion. The default configuration is modelled: without
`enable_optimization_passes`, mixed precision or fracturing.

### Comparing tensors

`comparison` is what was asked: one of four functions, and two views of tensors. A function runs kernels one after the other; a kernel
is started on some number of threads (`StartKernel`), each of which reduces its chunk with what it loads from the atomic (`RunChunk`) and
exchanges (`ExchangeSucceeds`, `ExchangeFails`), in any order. `FinishKernel` is the return of `parallel_for`. A load of a vector takes
consecutive elements of the storage, whatever the strides of the view; so whether vectors are used where they must not be is
visible in the result.

## 3. Runs

Three runs also check liveness, see section 5.

| run | question | bounds |
|---|---|---|
| `MCForgeRuntime` | is the pool the store its comment describes, and does no run lose or change a value? | 2 tensors, 2 programs with different orders and layouts, 2 device openings, 2 versions |
| `MCForgeRuntimeReopen` *(violation)* | and if the device is closed with tensors on it? | same |
| `MCTraining` | torch optimizer in the loop of the tests: forward sees the weights torch wrote, backward differentiates the last forward. Device optimizer, calls in any order: each completed step is applied exactly once to all weights and moments, one that an assertion cuts short to those before it, and gradients on the device end up in the weights | 2 weights, of which one is replaced and put back, constant, rate set once, moment, 1 output, 2 calls, 3 passes |
| `MCLearningRate` *(violation)* | does a rate set after compilation reach the device? | 1 version |
| `MCTrainingStep` | does a training step of every small module return its outputs and gradients and move each weight down its own gradient? | modules of up to 2 operations (Add, Multiply, Exp, Nop) over 1 activation and 2 weights in 4 ways of compiling, and of up to 3 operations (Multiply, Nop) over 1 weight in 2; 1 or 2 outputs: 10694 modules |
| `MCConstantOutput` *(violation)* | is there a place for the gradient of every output? | as `MCTrainingStep`, with outputs that need no gradient |
| `MCInputAsOutput` *(violation)* | are the programs' inputs as many as they declare? | ... with inputs returned that the backward pass reads |
| `MCGraphLib` | do the redundant maps stay one graph? | 3 node ids, 2 names, 2 edges ever, 2 ports, 1 listed output |
| `MCOpCompiler` | does the compilation of every op keep the tensors of the graph and end, are the gradients derivatives, and do the traced functions and repeated steps of the optimizers compute what torch's do? | 116 graphs over tensors of 2 to 24 elements: every op, alone or with what its decompositions interact with; broadcasts in both directions; losses; a two-layer network; 7 graphs with parameters the host computes with; 10 trained by SGD, Adam or AdamW for 2 steps, with and without weight decay and the correction of the bias, and with parameters and gradients of 16 bits |
| `MCReshapeSplit` *(violation)* | does the reshape-split pass keep the outputs whichever dimension is indexed? | 3 graphs |
| `MCVerifOps` | is every answer about two tensors the one they have, however the work is divided and the threads take turns? | 138 comparisons of tensors of 0 to 5 elements, dense or every second element of a larger one, floating or not, with and without special values; chunks from 2 elements on, vectors of 2, up to 3 threads |
| `MCMixedViews` *(violation)* | and if one tensor is dense and the other is not? | the same tensors |

### Why the bounds are enough

* *Versions* (`MaxVersion` 2). The properties compare values for equality. Old,
  current and next are the only distinctions the code can make, and a lost or
  doubled update already shows between versions 0, 1 and 2.
* *Generations* (`MaxGen` 2): before and after one reopening. A third adds no
  case: a tensor is of the open generation or it is not.
* *Calls and passes* (2 and 3). A stale value needs a call that set it and one that finds it;
  a third pass lets a retry fall between the two. The theorems hold for any number.
* *Replaced parameters* (`Replaceable`): the weight in the middle of `AliasedOutputs`, so that a step that is cut short leaves one
  weight moved, the one whose check fails moved too, and the optimizer's state behind them not; and such a step can be
  followed by another, or by one that completes. One rate is set (`MaxRates` 1), as nothing reads it.
* *Tensors*: two weights, one used by the backward program in another layout,
  so that conversions there and back happen; one tensor never updated.
* *Graph*: three ids under two names, so that a name must be reused after a
  removal; two edges suffice for a node with a user and an operand, for two
  parallel edges, and for an edge that is removed and comes back. The ids run
  out, so the run says `CHECK_DEADLOCK FALSE`; so do the runs of `OpCompiler` and `VerifOps`, whose
  compilations and comparisons end.
* *Modules.* Two operations give every relation between two of them (one after the other,
  side by side, a result read twice, a leaf read by both) together with a
  weight that is or is not used, two outputs in either order, and all ways in
  which an output, a saved value and a leaf can coincide; with three, a node
  collects three gradients and several values are saved in an order of their own. Wrong
  positions show because the elements (5, 11, 17; gradients 23, 41; rate 3) and what
  is computed from them modulo the prime 101 differ. An equality modulo 101
  could hold by accident for one module; the modules number thousands.
* *Graphs of ops.* Dimensions of 1, 2, 3 and more that differ, so that a swapped or
  misnumbered one shows; negative and positive dimension arguments; strides that do not divide; kept
  and dropped dimensions; operands of different ranks on either side. Elements are odd, of both signs
  and all different, so no maximum ties and no element is zero. Two residues that should differ agree by
  accident in 1 of 191 cases, but a tensor has several.
* *Steps of an optimizer* (`NumSteps` 2). In the first step averages are zero and powers one; in the second they are what was looped
  back, and a state that was not, or was to the wrong input, shows. A third step does to the second what the second does to the first.
* *Kinds of modules.* `Awkward` lets in modules the programs and their callers do not
  agree on; the passing run has none of them. They are: an output that needs no
  gradient (violation 3), an input returned that an operation reads (violation 4), one result
  returned twice, and the gradient of an input with an optimizer on the device.
  For the last two no run is kept; with `Awkward = {"result twice"}`,
  `OperandsKept` fails, as `split_graph.cpp:265` gives a backward op one operand for each
  output that shows the value, and with `{"input gradient"}` and a family that trains `X`
  with the optimizer, `CallsAreAccepted` fails, as `step`
  (`compiled_graph_state.py:445`) passes on all results of the backward
  program and the optimizer program takes gradients of weights only.
* *Comparisons.* Five elements in chunks of two or three give chunks of different lengths, with and without a rest that
  fills no vector; three threads are the fewest of which one can lose two exchanges in a row to different threads.
* The theorems of section 6 do not depend on the values of these bounds.

### Violations: where the code and its own words differ

1. **Closed device** (`tensor.hpp:129`). `to_layout` asks only whether a
   runtime tensor exists; `run_program` opens a closed device again. A tensor
   that was on the device at the time of the closing is handed to the next run, though
   `state.hpp:56-57` says "on next use they will be pushed to the device again".
   The passing runs therefore assume `~ReconfigureAnytime`: callers close or
   reconfigure a device only when nothing is on it, as every caller in the
   repository does.
2. **Learning rate** (`optimizers.py:167`). `set_optimizer_parameters` makes a
   new tensor nobody reads after compilation, though its docstring promises
   adjustment across training iterations.
3. **Output without a gradient** (`compiled_graph_state.py:361`). The hooks use
   the index among all outputs for a list that has places only for outputs that need a
   gradient: "More gradients than expected."
4. **Input returned** (`split_graph.cpp:157`). The output is taken for a saved
   value though the backward graph reads the input itself. The extra input has no user,
   lowering drops it, `CompiledModel` passes it: "Input count mismatch".
5. **Reshape split** (`decompose_nd_reshape_split.cpp:151`). Users of a reshape that each pick one index are
   replaced by slices of the reshape's operand along the dimension that was split,
   whatever dimension they index. For `{2, 12}` reshaped to `{2, 2, 6}` and indexed along
   dimension 0 the module returns other elements.
6. **Mixed views** (`verif_ops.cpp:200`). "We can use vectorized implementation if all inputs are contiguous", says
   the comment (190-191); the code asks whether one of them is, and then loads vectors of the other one from elements that are not
   in the view. A column compared with a dense tensor has another largest difference than the elements have.

Others were met while reading, and have no run of their own: either no test, comment or assertion
says otherwise, or the graphs of `MCOpCompiler` avoid them.

* `compiled_graph_state.py:372`: `gradient_inputs` are never cleared, so "Gradients not provided for backward pass." is only
  reported before the first loss, and a second `backward` runs on the gradients of an earlier call.
* `compiled_graph_state.py:338`: a forward run that throws leaves the new inputs beside the intermediates of the call before, and a
  `backward` after it runs on both.
* `compiled_graph_state.py:469`: the assertions about the torch module come behind the move they are about. Where one fails the
  weights before it have been updated and those behind it have not, and a repeated `step` applies the same gradients to them again.
* `compiled_graph_state.py:408` asks `if name in grad_output_name`: the parameter `weight` also accumulates the gradient of
  `linear.weight`. `MCTraining` has two names of which one ends in the other.
* `lower_to_mlir.cpp` emits one function in topological order and ops that write in place: where a module returns the written cache first
  and then an op that reads the cache as it was, the op may be emitted after the write and read the new one. No graph of
  `MCOpCompiler` does.
* `consteval.cpp:158` drops the operands of an absorbed op from the list of inputs to
  visit, also those other ops still read: they are not evaluated any further.
* `LogicalAnd` (`eltwise_binary.py:417`) multiplies its first operand with itself.
* `conv2d_padding_to_canonical` gives "same" padding in another order than the attribute
  has; `AvgPool1d` with "same" reads `kernel_size[1]` of one; `Linear` with a bias reads a field that is never set.
* `op_less.cpp` has no backward: `HuberLoss` and `TripletMarginLoss` with `swap` cannot be trained.
* `avg_pool_2d` orders the padding that ceil mode adds as left, right, top, bottom for a list of top, left,
  bottom, right; `resize_1d` rounds a linear factor down to an integer.
* `matmul`'s backward does not sum over a broadcast batch; the tanh form of `gelu` is
  differentiated as the exact one.
* `fuse_conv2d_bias` takes any added tensor for a bias; `fuse_pad_conv2d.cpp:76` asserts seven
  attributes where a convolution has fewer.
* `IndexCopy` becomes a fill of the cache from index 0 whatever the indices are, if there is more than one.
* `Adam.set_optimizer_parameters` (`optimizers.py:323`) asks for the shape of a parameter's name;
  `Adam.torch_parameter_update` divides by `1 - beta` in every step and never updates its averages, so that it is Adam's
  first step only. (The graph for the device does neither.)

## 4. Properties that hold

* `PoolIsAStore` (refinement): every runtime step, also one that throws
  half-way, is a step of a simple write-back cache or invisible. Layout
  conversions, borrowed buffers and the order of inputs vanish in the mapping.
* `NoLostRead`, `RunsKeepValues`: no run reads a closed device; a run may
  convert a tensor and never changes or drops its value.
* `BackwardCoherent`: in the loop of the tests, gradients, intermediates and inputs of a completed backward
  pass are of one call, at the weights that call read, though torch may have
  stepped in between and runs may have thrown. In any other order of calls, inputs and intermediates of two
  calls only meet if the last call threw.
* `ForwardReadsLatestWeights`: with a torch optimizer a call reads the host's
  weights, with a device optimizer the result of the last step.
* `NoUpdateLost`: every updated tensor has seen exactly the completed steps, and of those an assertion cut short between two
  moves exactly the ones that had come as far as it, whatever was thrown and repeated. As long as no step was cut short, the weights on
  the host are all of one step, also where `update_host_weights` stops at the first one that was never pushed.
* `StepsHaveGradients`: each completed step consumed a pass of its own.
* `GradientsAreApplied` (liveness): with the optimizer on the device, gradients that are there are
  applied in the end, whatever the script calls in between, unless it replaces a parameter: a run that throws neither takes
  them away nor leaves the pool in a state from which a repeated step cannot succeed.
* `MapsAgree`, `GraphIsAnEdgeSet`: after any sequence of mutations both
  copies of the edges agree (`EdgesAgree`), an edge of the
  graph has attributes although removals never look at that map (`EdgesHaveAttributes`), names lead to
  live nodes (`NamesAgree`), and `remove_node` takes exactly the node and its own edges.
* `GradientsAreComplete`: each trained leaf gets one gradient, equal to the sum over all
  paths from all outputs, computed independently.
* `ForwardReturnsTheOutputs`, `BackwardReturnsTheGradients`, `StepDescends`: what
  comes out of the programs at the places `CompiledModel` looks at is what the
  module's mathematics says, though five lists must agree by position:
  autograd's inputs, the split's inputs and outputs, the lowered arguments, the
  pool's persistent tensors and the model's own.
* `CallsAreAccepted`, `GradientsHaveSlots`, `OperandsKept`: no call is refused, no
  gradient is left without a place and no operand is lost or doubled, but for the
  four kinds of modules above.
* `TracesAreTorch`: what `forge.op` traces for losses, slices and paddings "same" is what torch computes.
* `OutputsKept`: after every single rewrite of a node, of any epoch, the outputs have the
  tensors of the traced graph. `LoweredOutputsKept`: so has what the lowered function returns, though the broadcasts on edges are
  dropped, attributes change their names and caches are written in place.
* `GradientsAreDerivatives`: once autograd is through, every trained input has
  one gradient, and it is the derivative of the weighed outputs in every element, through broadcasts,
  decompositions of backward ops and the lowering.
* `UpdatesAreTorch`: however often the optimizer's program runs, each time on the state it left, the parameters are
  those of torch's optimizer for the same gradients; also when parameters and state have been through constant
  evaluation, decompositions and lowering. What is looped back has the data format of what it
  replaces, which is how the next run reads it.
* `ShapesAreComputed`: the announced shape, from which the device allocates, is that of the tensor.
* `HostComputesFrozen`: nothing the host computes once depends on a trained parameter.
* `LoweredOpsHaveHandlers`, `Compiles` (liveness): what ops are decomposed and differentiated into is itself
  decomposed, differentiated and lowered, with attributes of the kinds the conversion reads; no assertion fails on the way, and the
  sweeps end though each replacement may add nodes that are to be replaced.
* `AnswersAreExact`, `ComparisonEnds` (liveness): whatever threads there are, however the elements are divided among them and by vectors,
  and in whatever order the exchanges succeed, an answer is the one the tensors have; no thread loses exchanges for ever.

## 5. Fairness

The modelled components are passive: they act only when a caller calls them, and
each call returns or throws. Two specifications say more.

* `OpCompiler`: a compilation is one thread that runs on until it has ended. Its `Fairness`
  is weak fairness of `Next`, written without `ENABLED` (`[]<>Ended \/ []<><<Next>>_vars`), as
  some action is enabled in every state that is not `Ended`; TLC finds it much faster that way.
* `VerifOps`: weak fairness of `Next`. The threads of a kernel run until they are through, as `parallel_for` waits for
  them. A `compare_exchange_weak` that fails for no reason is left out; the assumption is that it does not for ever.
* `CompiledModel`: `WF_vars(Step)`. Nothing obliges a script to go on; the property says what the
  code owes a script that does: one that has gradients and calls `step`, again when a run has
  thrown, and not every run of the optimizer throws. No fairness is asked of the calls
  in between, nor of the device.

`ForgeRuntime`, `GraphLib` and `TrainingStep` assume none: a caller may stop anywhere, and no property of theirs needs it
to go on.

## 6. Proofs

The theorems about the runtime, `CompiledModel` and the graph hold for every set of names,
programs, parameters, layouts, ports and nodes; those about compilation and a training step for every
module over any leaves, of any size, compiled in any of the ways `Families` may list; all of them for every value of
the bounds.

Runtime:

* `TypeCorrect` : `RuntimeSpec => []RuntimeTypeOK`.
* `PoolInvariant`, under `~ReconfigureAnytime`. The inductive invariant says
  that the open device is the last generation; that every copy is sound, i.e.
  off the device or of the open generation and not `Lost`; that no host
  buffer holds `Lost`; and that remembered outputs are of the open generation
  and read nothing `Lost`. `NoLostRead` alone is not inductive: it says nothing of tensors
  not yet read, nor of the host buffer `update_host_data` writes to.
* `NoReadIsLost`, `RunsNeverChangeValues` follow from it; `PoolRefinesStore`
  proves the refinement step by step. They also use
  `DeviceLayoutAssumption`: binaries ask for persistent inputs on the device.

Training, for any programs that share any weights in any layouts, under
`~ReconfigureAnytime` and `DeviceLayoutAssumption`:

* `ModelInvariant`: `MInv`, the inductive invariant. It holds the runtime's invariant (its lemmas are stated for a run that starts
  from any sound pool, so that a call that detaches tensors and runs in one step is covered), what the
  runs check, and `CallPending`: in the loop of the tests, between a call and its
  backward pass, inputs and intermediates are of the last call, gradients are none or of it, and
  each weight the forward program read is on the device with the value it had then. `BackwardCoherent` alone is not
  inductive: it says what a completed pass has consumed and not why the weights are still there when it runs,
  namely that no other action takes them off the device, and that a run that throws
  on the way converts them but keeps their values. `CallsKept` says the same of any script: no call is held under the
  number of one that threw.
* `UpdatesAreNotLost`: `NoUpdateLost`, for any number of weights and states, moved in any order, with assertions that fail anywhere
  between two moves. `StepRunsPool` says what a step does that has come to its `k`-th move: as no name is aliased
  twice, the first `k` have one version more and nothing else has changed; no other action changes what the next program reads. For
  the weights on the host the invariant needs `WeightsStay` (once a call has returned, all parameters are on a device that optimizes
  them, so `update_host_weights` comes to all of them) and `NothingBefore` (until then there has been no step to be half-way through).
* `ModelTypeCorrect`, `BackwardsAreCoherent`, `StepsAlwaysHaveGradients`,
  `ForwardsReadLatestWeights` follow.

Graph:

* `GraphInvariant`: `TypeOK` and the three parts of `MapsAgree` together are inductive. Each needs the others: that `remove_node`
  leaves no edge behind needs both copies to agree, that it erases the right
  name needs `NamesAgree`, and that `get_edge_attributes` finds an entry needs
  every live edge to have been added.
* `TypeCorrect`, `MapsAlwaysAgree` follow; `GraphRefinesEdgeSet` proves the refinement.

Verification, for any comparisons of views of any lengths and strides, any number of threads, any sizes of grains and vectors:

* `VerifTypeCorrect`, and `ReductionsAlwaysSequential`: every kernel returns what one thread would that takes the elements one by one.
  The inductive invariant, `VerifInv`, says that the atomic is the reduction, over some order, of the results of
  exactly the threads that are done, and that a thread about to exchange has computed what it wants to store from what it expects to find.
  That the reduction of the chunks is the reduction of all elements is proved from sums, maxima and disjunctions being associative and commutative, by
  induction over the chunks.
* `AnswersAlwaysExact`: `AnswersAreExact`. For the correlation this needs that a tensor has no variance exactly if all its elements are equal.
* The last two are under `ViewsAlike`: both views of a comparison are dense, or neither is. Violation 6 shows that the hypothesis is needed.

Compilation and a training step:

* *Recursive functions.* The model's recursion (the depth-first sort, running a program, the exact values of a module) is written as
  functions, which are chosen by their equations. `TensorGraphProofs` and `AutogradProofs` show once that the equations of a
  function have exactly one solution if each element only asks for elements of lower rank (`RankedRecursion`), by
  induction over sets of numbers. What a function is, for a graph that has a ranking, is then a lemma; that every graph the
  compilation meets has one is part of the invariants.
* `TopologicalSortSorts`: the depth-first sort of an acyclic graph lists every node once, after its operands.
* `ProgramsAreWhole`: the invariant of the stages from tracing to splitting, `SplitInv`. A node's name says what
  kind it is, of which epoch, with how many operands and which it may read (`Whole`); the graph is acyclic as operands have
  names of lower rank; each loop's `todo` lists what it has still to visit, and everything visited is as
  the loop leaves it (`IsTracing`, `IsDifferentiating` …). The programs are what the graph says of their epoch: the inputs, the operations,
  a saved value for each forward node that is read backward, and clones where recomputation is on (`IsForward`,
  `IsBackward`, `IsOptimizer`). Each of these is needed for the next: that `ExtractBackward` finds a program input for every operand
  needs every gradient to be there already, which needs autograd to have visited users before producers.
* `StepIsWhole`: with `RunsInv`, the same of the calls. Every operand of an operation that a program runs is a
  value the program has computed, or one of its inputs; results have the places the callers look them up at. `TypeCorrect` follows.
* `ForwardAlwaysReturns`: `ForwardReturnsTheOutputs`, for all modules, those the runs exclude too. The
  invariant `ReturnsInv` says that each forward node reads the nodes of the tensors its operation reads in the module
  (`Follows`), up to the nops that have been removed so far. The trace makes it so; autograd only adds nodes of other
  epochs; removing a nop passes its source on. So what a run of the forward program computes at a node is the exact value of
  the node's tensor, by induction along the ranks, and the lists of outputs correspond place by place.
* `GradientsAlwaysComplete`: `GradientsAreComplete`, for all modules. The property speaks of the end of autograd
  only; the invariant, `FlowInv`, says at every turn where the loss's derivative is, by a run of the graph as it is then
  (`Computed`). While the outputs have their turns, the gradients a node has been handed add up to what the
  outputs seen so far send it (`AllSentIn`). While the nodes have theirs, last first, for each trained leaf the
  gradients of the nodes not yet visited, each times the slope of that node along the leaf, and what the leaf
  has already, add up to its gradient (`AllChained`). A turn keeps this: the Adds compute what the node was handed, and
  each backward op hands its operand what the node's slope owes it, by the chain rule, op by op (`AddBack`,
  `MultiplyBack`, `ExpBack`; sums are finite sums of integers, equal modulo `Modulus`). When the last turn is over
  nothing is owed. That there is a gradient at all needs another invariant, `Reaches` and then `ReachesBack`: whoever needs a gradient has one
  or is read by a node whose turn is to come. Afterwards the optimizer, the clones and
  the removal of Nops change no operand's element, so the gradients stay what they are (`Completed`). The sum over all
  paths the property compares with is the forward-mode derivative; nothing in autograd computes it.
* `BackwardAlwaysReturns`: `BackwardReturnsTheGradients`, for all modules that return no result twice (`ResultsDiffer`). It joins the
  two before: the forward program's results are the exact values, and the gradients in the graph are right, so it is left to show that a
  run of the backward program computes what a run of the whole graph does. The arguments of that program are told apart by position
  only. `Ordered` says in which order each stage has made its lists: the gradient inputs follow the outputs, the saved
  values the forward program's results, and the places a caller looks the gradients up at follow the order they were created in. The
  invariant `BackInv` adds what the programs have left each other (`Shared`): results that are what the outputs
  show, and gradients in their places once the loss has been differentiated. Then each input of the backward program has the
  element of the node it stands for, each operation the operands it has in the graph (`OperandsAlwaysKept`, for which the
  hypothesis is needed), and induction along the ranks does the rest.
* `GradientsAlwaysHaveSlots`: without modules with an output that needs no gradient (`NoConstants`), every gradient
  the hooks bring has a place: the places are the gradient inputs of the backward graph, one for each output.
  Violation 3 shows that the hypothesis is needed.
* `OperandsAlwaysKept`: unless one result is returned twice (`ResultsDiffer`), every operation in a program has exactly the operands it
  has in the graph: a saved value is shown by one output, so the backward program reads it once. Section 3 names what happens otherwise.

The constants' assumptions are named (`LayoutAssumption`, `LostAssumption`,
`RuntimeAssumption`, `DeviceLayoutAssumption`, `GraphAssumption`,
`ModelAssumption`, `TensorAssumption`, `AutogradAssumption`, `StepAssumption`,
`VerifAssumption`, `LowestAssumption`); TLC evaluates each in a passing run.

Only model-checked:

* `StepDescends`: what the backward program returns is proved; that the optimizer program is handed it in the order of its own
  inputs, and moves each weight by it, is not.
* `CallsAreAccepted`, whose proof has to count: as many saved values are passed as the backward program has inputs with a user.
* `OpCompiler` and the modules under it, whose operators are `RECURSIVE` over terms and tensors.
* The three liveness properties, as `ENABLED` and fairness are out of the prover's reach.

## 7. Abstractions

* Values are versions; shapes, strides and types only appear as "the run is
  refused", which may happen at any input.
* tt-mlir's runtime (`submit`, `toLayout`, device memory) is external: a
  submission returns one output for each declared one or throws, and a closed device loses its
  memory.
* One device. A mesh is opened and closed as one by the code too.
* In `TrainingStep` a tensor is one element modulo a prime and has no shape, so
  broadcasts and the reductions they need are left out, as are constants, loss modules, casts,
  optimizers other than SGD (see `Optimizers`), and the passes between tracing and splitting other than
  `remove_nops`; `OpCompiler` has the first of these. Control edges (forward to backward node) order nothing that data
  edges do not, as their producers come before every backward node anyway.
* In `OpCompiler` a graph has no node ids: two nodes with one op, attributes and operands are one, which
  no pass but `ForkInput` (a clone is tagged) tells apart. The order in which a sweep visits nodes is one topological
  order of the code's. Data types are left out, but for the formats of the optimizer's graphs: a comparison gives 0 or 1, a cast does nothing to the elements. Random
  numbers are left out: dropout is its mask, from the seed. A square root is exact where a residue has one.
* In `CompiledModel` the module is one of torch, as the assertions of `step` require. A parameter is only replaced in a script with
  the optimizer on the device: with a torch optimizer there is no `step`, and the check in `__call__` refuses the calls without an effect.
  The assertions of `update_tensor` itself do not fail behind a run that has laid out every weight.
* In `CompiledModel` the optimizer's arithmetic is "the next version"; `UpdatesAreTorch` is about the arithmetic. The square
  roots of Adam are those of section 2, any function with that derivative. A gradient is the call it came from.
* In `VerifOps` elements are integers, so sums do not depend on their order and nothing overflows; means and covariances are kept
  free of denominators by multiplying them with the number of elements. The maximum of no elements is the lowest number of the type, as in the code. Views of stride 0 are left out.
  `VerifAssumption` is what callers ensure: `forge/verify/compare.py` calls `max_abs_diff` and `calculate_tensor_pcc` only for tensors
  of one shape without NaNs and infinities. The division by a variance of 0 gives "nan", which `compare.py` takes for 1 if the tensors are close.
* Torch is external (`TorchStep`, `ZeroGrad`, the hooks called by `LossBackward`), and so is `at::parallel_for`.

## 8. Not modelled

* The optimization passes: the loop over erasing inverse ops, inserting inverses on inputs and outputs, fusing per-channel ops and
  folding constants, with the decompositions after it. It
  runs only with `enable_optimization_passes`, which is off by default and marked for removal
  (`config.py`). No property says that the loop ends.
* Data formats and mixed precision: rules for the types of values, which the tensors here do not have (the casts of the
  optimizer's graphs are in `Optimizers`). Types and locations of
  the lowered function, and what tt-mlir does with it, which lives in another project.
* Import through TVM: a submodule that is not in the tree, and code generation.
* Fracturing: not on the default path of the pipeline; `insert_node_on_edge`, `swap` and `cascade` of
  `graph_lib/utils.cpp`, which only it and the optimization passes use.
* The attached loss module and chained backward passes of `CompiledModel`; save and export.
* Reports and the Python side of verification: files, thresholds and messages.

## 9. Plan

Built in this order: the runtime and its abstract store, `CompiledModel`
over it, the graph and its abstract edge set, the way from a module to a training
step, the ops with the passes over them, the comparison of tensors, and the proofs about runtime, graph,
training, the training step and the comparison. What would come next:

1. The attached loss module and chained backward passes, in `CompiledModel` and
   in `TrainingStep` (loss outputs bring a constant gradient).
2. The optimization loop over the terms of `OpCompiler`, if it stays: `OutputsKept` and
   `Compiles` are the properties for it.
3. The tensors of constant evaluation in the pool, under names that two programs share.
4. Proofs: `CallsAreAccepted` for modules that return no input an operation reads, from an invariant that every saved value has a
   reader in the backward program; then `StepDescends`, from `BackwardAlwaysReturns` and the order of the gradients.
5. The helpers that rewrite a graph (`insert_node_on_edge`, the control edges of a removed node, `clone`) and the ordered lists of inputs and
   outputs, in `GraphLib`, where `MapsAgree` is what they could break.
