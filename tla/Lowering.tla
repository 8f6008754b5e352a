------------------------------ MODULE Lowering ------------------------------
(***************************************************************************)
(* The function a graph of ops is lowered to, in the dialect of tt-mlir    *)
(* (forge/csrc/passes/lower_to_mlir.cpp).  A value of the function is a    *)
(* number: its arguments come first, then the results of its instructions. *)
(* Types and locations are left out.                                       *)
(***************************************************************************)
EXTENDS ConstEval

\* The inputs of a graph: those of the module, then the constants and the parameters.
FunctionArguments(ts, parameters) ==
    LET inputs == SelectSeq(TopologicalSort(ts), IsLeaf)
    IN  SelectSeq(inputs, LAMBDA x : ~IsConstant(x, parameters))
        \o SelectSeq(inputs, LAMBDA x : IsConstant(x, parameters))

\* emit_mlir refuses a graph with ops that have no handler, and names each once, with its
\* attributes, for all the shapes of operands it has (extract_unique_op_configuration).
Configuration(t) ==
    [op |-> t.op, attrs |-> t.attrs, shapes |-> [i \in DOMAIN t.ins |-> Producer(t.ins[i]).shape]]
UnsupportedOps(ts, supported) ==
    {Configuration(t) : t \in {t \in ToSet(OpNodes(ts)) : t.op \notin supported}}

\* AttributeMapper: attributes that have another name there.
MappedName(op, name) ==
    CASE op = "softmax" /\ name = "dim" -> "dimension"
      [] op = "index" /\ name = "start" -> "begin"
      [] op = "index" /\ name = "stop" -> "end"
      [] op = "index" /\ name = "stride" -> "step"
      [] op = "repeat" /\ name = "repeats" -> "repeat_dimensions"
      [] OTHER -> name

\* convert_to_mlir_attribute: the attributes read as lists of integers and as integers.
NumberLists(op) ==
    CASE op \in {"avg_pool2d", "max_pool2d"} -> {"kernel", "stride", "padding", "dilation"}
      [] op = "conv2d" -> {"stride", "padding", "dilation"}
      [] op = "conv2d_transpose" -> {"stride", "padding", "output_padding", "dilation"}
      [] op = "repeat" -> {"repeats"}
      [] op = "constant_pad" -> {"padding"}
      [] op = "upsample2d" -> {"scale_factor"}
      [] OTHER -> {}
Numbers(op) ==
    CASE op \in {"conv2d", "conv2d_transpose"} -> {"groups"}
      [] op = "cumsum" -> {"dim"}
      [] op = "index" -> {"dim", "start", "stop", "stride"}
      [] op = "repeat_interleave" -> {"repeats"}
      [] op \in {"update_cache", "fill_cache"} -> {"batch_offset"}
      [] OTHER -> {}
Converts(op, attrs) ==
    /\ \A name \in NumberLists(op) \cap DOMAIN attrs : attrs[name] \in Seq(Int)
    /\ \A name \in Numbers(op) \cap DOMAIN attrs : attrs[name] \in Int
    /\ op = "repeat_interleave" => attrs.repeats >= 0

MappedAttributes(op, attrs) ==
    [to \in {MappedName(op, name) : name \in DOMAIN attrs} |->
        attrs[CHOOSE name \in DOMAIN attrs : MappedName(op, name) = to]]

\* symbolTable_: the nodes declared so far, each with its value.
Declare(symbols, node, value) == Append(symbols, <<node, value>>)
ValueOf(symbols, node) ==
    symbols[CHOOSE i \in DOMAIN symbols : symbols[i][1] = node][2]

\* The ops that write to their first operand, which is their result, too.
InPlaceOps == {"fill_cache", "update_cache"}

\* emit_mlir_tt_forge_operation: an instruction and the value it writes to, the next one if it
\* is not in place.  The broadcasts on the edges are not lowered: the operands are the nodes at
\* their other ends.
EmitOperation(f, node, next) ==
    LET operands == [i \in DOMAIN node.ins |-> ValueOf(f.symbols, Producer(node.ins[i]))]
        to == IF node.op \in InPlaceOps THEN operands[1] ELSE next
    IN  [code |-> Append(f.code, [op |-> node.op, attrs |-> MappedAttributes(node.op, node.attrs),
                                  operands |-> operands, to |-> to]),
         symbols |-> Declare(f.symbols, node, to)]

\* emit_mlir_function: the ops in topological order, then the values of the outputs ts.
EmitFunction(ts, parameters) ==
    LET arguments == FunctionArguments(ts, parameters)
        n == Len(arguments)
        start == [code |-> <<>>, symbols |-> [i \in 1..n |-> <<arguments[i], i>>]]
        f == FoldLeft(LAMBDA g, node : EmitOperation(g, node, n + Len(g.code) + 1), start, OpNodes(ts))
    IN  [arguments |-> arguments, code |-> f.code,
         returns |-> [i \in DOMAIN ts |-> ValueOf(f.symbols, Producer(ts[i].ins[1]))]]

-----------------------------------------------------------------------------
\* The ops of tt-mlir, which read their attributes by its names.
ReadAttributes(op, a) ==
    CASE op = "softmax" -> [dim |-> a.dimension]
      [] op = "index" -> [dim |-> a.dim, start |-> a.begin, stop |-> a.end, stride |-> a.step]
      [] op = "repeat" -> [repeats |-> a.repeat_dimensions]
      [] OTHER -> a

\* What the function f returns, each value as the graph that computes it: memory has the graph
\* of what is in each value, and the instructions are executed one after the other.
Executed(memory, c) ==
    [memory EXCEPT ![c.to] =
        Node(c.op, ReadAttributes(c.op, c.attrs),
             [i \in DOMAIN c.operands |-> memory[c.operands[i]]], NoShape)]

Returned(f) ==
    LET n == Len(f.arguments)
        loaded == [k \in 1..(n + Len(f.code)) |-> IF k <= n THEN f.arguments[k] ELSE NoTerm]
        memory == FoldLeft(Executed, loaded, f.code)
    IN  [i \in DOMAIN f.returns |-> memory[f.returns[i]]]

=============================================================================
