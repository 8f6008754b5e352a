------------------------- MODULE TrainingStepProofs -------------------------
(***************************************************************************)
(* What holds of a training step: its programs can be run on what          *)
(* CompiledModel gives them, and return what it picks.                     *)
(***************************************************************************)
EXTENDS TrainingStep, SplitGraphProofs

-----------------------------------------------------------------------------
\* What a run of a program computes.

Residues == 0..(Modulus - 1)

\* The elements a run needs are there, and every node has its operands.
Runnable(g, env) ==
    \A n \in DOMAIN g.node :
        /\ g.node[n].type = "input" /\ Read(g, n) => env[n] \in Residues
        /\ g.node[n].type = "op" => /\ g.node[n].role \in DOMAIN OpArity
                                    /\ Len(g.node[n].ins) >= OpArity[g.node[n].role]
        /\ g.node[n].type \in {"output", "queue"} => Len(g.node[n].ins) >= 1

\* An op computes a residue from residues.
LEMMA ApplyIs ==
    ASSUME NEW op \in DOMAIN OpArity, NEW args, 1 \in DOMAIN args, args[1] \in Residues,
           OpArity[op] = 2 => 2 \in DOMAIN args /\ args[2] \in Residues
    PROVE  Apply(op, args) \in Residues
  <1>1. Modulus \in Nat \ {0} /\ ExpAt \in [Residues -> Residues]
    BY TensorAssumption DEF Residues
  <1>2. op \in {"Add", "Multiply", "Subtract", "Exp", "Nop"}
    BY DEF OpArity
  <1>3. CASE op \in {"Exp", "Nop"}
    <2>1. CASE op = "Exp"
      <3>1. Apply(op, args) = ExpAt[args[1]]
        BY <2>1 DEF Apply
      <3> QED
        BY <3>1, <1>1
    <2>2. CASE op = "Nop"
      <3>1. Apply(op, args) = args[1]
        BY <2>2 DEF Apply
      <3> QED
        BY <3>1
    <2> QED
      BY <2>1, <2>2, <1>3
  <1>4. CASE op \in {"Add", "Multiply", "Subtract"}
    <2>1. args[1] \in Int /\ args[2] \in Int
      <3>1. OpArity[op] = 2
        BY <1>4 DEF OpArity
      <3> QED
        BY <3>1, <1>1 DEF Residues
    <2>5. \A x \in Int : x % Modulus \in Residues
      BY <1>1 DEF Residues
    <2>2. CASE op = "Add"
      <3>1. Apply(op, args) = (args[1] + args[2]) % Modulus
        BY <2>2 DEF Apply
      <3>2. args[1] + args[2] \in Int
        BY <2>1
      <3> QED
        BY <3>1, <3>2, <2>5
    <2>3. CASE op = "Subtract"
      <3>1. Apply(op, args) = (args[1] - args[2]) % Modulus
        BY <2>3 DEF Apply
      <3>2. args[1] - args[2] \in Int
        BY <2>1
      <3> QED
        BY <3>1, <3>2, <2>5
    <2>4. CASE op = "Multiply"
      <3>1. Apply(op, args) = (args[1] * args[2]) % Modulus
        BY <2>4 DEF Apply
      <3>2. args[1] * args[2] \in Int
        BY <2>1
      <3> QED
        BY <3>1, <3>2, <2>5
    <2> QED
      BY <2>2, <2>3, <2>4, <1>4
  <1> QED
    BY <1>2, <1>3, <1>4

\* What the elements of a node's operands make it.
Body(g, env, f, n) ==
    IF g.node[n].type = "input" THEN env[n]
    ELSE IF g.node[n].type = "op"
    THEN Apply(g.node[n].role, [i \in DOMAIN g.node[n].ins |-> f[g.node[n].ins[i]]])
    ELSE f[g.node[n].ins[1]]

ValuesStep(g, env, f) == f = [n \in DOMAIN g.node |-> Body(g, env, f, n)]

\* Only the operands matter.
LEMMA BodySame ==
    ASSUME NEW g, NEW env, NEW f, NEW h, NEW n, g.node[n].type \in Types,
           g.node[n].type \in {"output", "queue"} => 1 \in DOMAIN g.node[n].ins,
           \A i \in DOMAIN g.node[n].ins : f[g.node[n].ins[i]] = h[g.node[n].ins[i]]
    PROVE  Body(g, env, f, n) = Body(g, env, h, n)
  <1>1. [i \in DOMAIN g.node[n].ins |-> f[g.node[n].ins[i]]]
        = [i \in DOMAIN g.node[n].ins |-> h[g.node[n].ins[i]]]
    OBVIOUS
  <1>2. CASE g.node[n].type = "input"
    BY <1>2 DEF Body
  <1>3. CASE g.node[n].type \in {"output", "queue"}
    BY <1>3 DEF Body
  <1>4. CASE g.node[n].type = "op"
    BY <1>4, <1>1 DEF Body
  <1> QED
    BY <1>2, <1>3, <1>4 DEF Types

\* From residues comes a residue.
LEMMA BodyIs ==
    ASSUME NEW g, IsGraph(g), NEW env, Runnable(g, env), NEW f, NEW n \in DOMAIN g.node,
           g.node[n].type # "input",
           \A i \in DOMAIN g.node[n].ins : f[g.node[n].ins[i]] \in Residues
    PROVE  Body(g, env, f, n) \in Residues
  <1>1. g.node[n] \in Records(DOMAIN g.node)
    BY DEF IsGraph
  <1>2. g.node[n].type \in Types /\ g.node[n].ins \in Seq(DOMAIN g.node)
        /\ DOMAIN g.node[n].ins = 1..Len(g.node[n].ins) /\ Len(g.node[n].ins) \in Nat
    BY <1>1 DEF Records
  <1>3. CASE g.node[n].type \in {"output", "queue"}
    <2>1. 1 \in DOMAIN g.node[n].ins
      BY <1>2, <1>3 DEF Runnable
    <2> QED
      BY <2>1, <1>3 DEF Body
  <1>4. CASE g.node[n].type = "op"
    <2> DEFINE args == [i \in DOMAIN g.node[n].ins |-> f[g.node[n].ins[i]]]
               role == g.node[n].role
    <2>1. role \in DOMAIN OpArity /\ Len(g.node[n].ins) >= OpArity[role]
      BY <1>4 DEF Runnable
    <2>2. OpArity[role] \in {1, 2}
      BY <2>1 DEF OpArity
    <2>3. DOMAIN args = 1..Len(g.node[n].ins) /\ \A i \in DOMAIN args : args[i] \in Residues
      BY <1>2
    <2>4. 1 \in DOMAIN args /\ (OpArity[role] = 2 => 2 \in DOMAIN args)
      BY <2>1, <2>2, <2>3, <1>2
    <2>5. Body(g, env, f, n) = Apply(role, args)
      BY <1>4 DEF Body
    <2> HIDE DEF args, role
    <2>6. Apply(role, args) \in Residues
      BY <2>1, <2>3, <2>4, ApplyIs
    <2> QED
      BY <2>5, <2>6
  <1> QED
    BY <1>2, <1>3, <1>4 DEF Types

\* There is but one such run.
LEMMA ValuesSame ==
    ASSUME NEW g, IsGraph(g), Acyclic(g), NEW env, Runnable(g, env),
           NEW f, ValuesStep(g, env, f), NEW h, ValuesStep(g, env, h)
    PROVE  f = h
  <1> DEFINE D == DOMAIN g.node
  <1>1. PICK r \in Ranks(g) : TRUE
    BY DEF Acyclic
  <1>2. r \in [D -> Nat] /\ \A n \in D : \A x \in ToSet(g.node[n].ins) : r[x] < r[n]
    BY DEF Ranks
  <1>3. PICK k \in Nat : \A n \in D : r[n] < k
    BY RanksBounded
  <1>4. \A n \in D : /\ g.node[n].ins \in Seq(D) /\ g.node[n].type \in Types
                     /\ g.node[n].type \in {"output", "queue"} => 1 \in DOMAIN g.node[n].ins
    <2>1. \A n \in D : g.node[n].ins \in Seq(D) /\ g.node[n].type \in Types
      BY DEF IsGraph, Records
    <2> QED
      BY <2>1 DEF Runnable
  <1>5. \A n \in D : \A i \in DOMAIN g.node[n].ins :
           g.node[n].ins[i] \in D /\ r[g.node[n].ins[i]] < r[n]
    <2>1. \A n \in D : \A i \in DOMAIN g.node[n].ins : g.node[n].ins[i] \in ToSet(g.node[n].ins)
      BY DEF ToSet
    <2> QED
      BY <2>1, <1>2, <1>4
  <1>6. \A n \in D : f[n] = Body(g, env, f, n) /\ h[n] = Body(g, env, h, n)
    BY DEF ValuesStep
  <1> DEFINE Same == {j \in Nat : \A n \in D : r[n] < j => f[n] = h[n]}
  <1>7. 0 \in Same
    BY <1>2
  <1>8. ASSUME NEW j \in Nat, j \in Same PROVE j + 1 \in Same
    <2>1. ASSUME NEW n \in D, r[n] < j + 1 PROVE f[n] = h[n]
      <3>1. \A i \in DOMAIN g.node[n].ins : f[g.node[n].ins[i]] = h[g.node[n].ins[i]]
        <4> SUFFICES ASSUME NEW i \in DOMAIN g.node[n].ins
                     PROVE  f[g.node[n].ins[i]] = h[g.node[n].ins[i]]
          OBVIOUS
        <4>1. g.node[n].ins[i] \in D /\ r[g.node[n].ins[i]] < r[n]
          BY <1>5
        <4>2. r[g.node[n].ins[i]] \in Nat /\ r[n] \in Nat
          BY <4>1, <1>2
        <4>3. r[g.node[n].ins[i]] < j
          BY <4>1, <4>2, <2>1
        <4> QED
          BY <4>1, <4>3, <1>8
      <3>2. Body(g, env, f, n) = Body(g, env, h, n)
        BY <3>1, <1>4, BodySame
      <3> QED
        BY <3>2, <1>6
    <2> QED
      BY <2>1
  <1>9. k \in Same
    <2> HIDE DEF Same
    <2> QED
      BY <1>7, <1>8, SetInduction
  <1>10. \A n \in D : f[n] = h[n]
    BY <1>3, <1>9
  <1>11. f = [n \in D |-> f[n]] /\ h = [n \in D |-> h[n]]
    <2>1. f = [n \in D |-> Body(g, env, f, n)] /\ h = [n \in D |-> Body(g, env, h, n)]
      BY DEF ValuesStep
    <2> HIDE DEF D
    <2> QED
      BY <2>1
  <1> QED
    BY <1>10, <1>11

\* A run of a program without cycles gives each node what its operands make it, and
\* each node that is no input a residue.
LEMMA ValuesAre ==
    ASSUME NEW g, IsGraph(g), Acyclic(g), NEW env, Runnable(g, env)
    PROVE  /\ ValuesStep(g, env, Values(g, env))
           /\ \A n \in DOMAIN g.node : g.node[n].type # "input" \/ Read(g, n) =>
                 Values(g, env)[n] \in Residues
  <1> DEFINE D == DOMAIN g.node
             W == Residues \cup {env[n] : n \in D}
             Fine(f, n) == \A i \in DOMAIN g.node[n].ins : f[g.node[n].ins[i]] \in Residues
             Guarded(f, n) == IF g.node[n].type = "input" \/ Fine(f, n)
                              THEN Body(g, env, f, n) ELSE 0
             step == [n \in D |-> [f \in [D -> W] |-> Guarded(f, n)]]
  <1>1. PICK r \in Ranks(g) : TRUE
    BY DEF Acyclic
  <1>2. r \in [D -> Nat] /\ \A n \in D : \A x \in ToSet(g.node[n].ins) : r[x] < r[n]
    BY DEF Ranks
  <1>3. PICK k \in Nat : \A n \in D : r[n] < k
    BY RanksBounded
  <1>4. \A n \in D : /\ g.node[n].ins \in Seq(D) /\ g.node[n].type \in Types
                     /\ g.node[n].type \in {"output", "queue"} => 1 \in DOMAIN g.node[n].ins
    <2>1. \A n \in D : g.node[n].ins \in Seq(D) /\ g.node[n].type \in Types
      BY DEF IsGraph, Records
    <2> QED
      BY <2>1 DEF Runnable
  <1>5. \A n \in D : \A i \in DOMAIN g.node[n].ins :
           g.node[n].ins[i] \in D /\ r[g.node[n].ins[i]] < r[n] /\ Read(g, g.node[n].ins[i])
    <2>1. \A n \in D : \A i \in DOMAIN g.node[n].ins : g.node[n].ins[i] \in ToSet(g.node[n].ins)
      BY DEF ToSet
    <2> QED
      BY <2>1, <1>2, <1>4 DEF Read
  <1>6. 0 \in Residues /\ 0 \in W
    BY TensorAssumption DEF Residues
  <1>7. \A n \in D, f \in [D -> W] : step[n][f] = Guarded(f, n)
    OBVIOUS
  <1>8. \A n \in D : \A f : g.node[n].type # "input" => Guarded(f, n) \in Residues
    <2> SUFFICES ASSUME NEW n \in D, NEW f, g.node[n].type # "input"
                 PROVE  Guarded(f, n) \in Residues
      OBVIOUS
    <2>1. CASE Fine(f, n)
      <3>1. Body(g, env, f, n) \in Residues
        BY <2>1, BodyIs
      <3> QED
        BY <3>1, <2>1
    <2>2. CASE ~Fine(f, n)
      BY <2>2, <1>6
    <2> QED
      BY <2>1, <2>2
  <1>9. \A n \in D : \A f : g.node[n].type = "input" => Guarded(f, n) = env[n]
    BY DEF Body
  <1>10. \A n \in D, f \in [D -> W] : step[n][f] \in W
    <2> HIDE DEF Guarded, step
    <2> QED
      BY <1>7, <1>8, <1>9
  <1>11. ASSUME NEW n \in D, NEW f \in [D -> W], NEW h \in [D -> W],
                \A y \in D : r[y] < r[n] => f[y] = h[y]
         PROVE  step[n][f] = step[n][h]
    <2>1. \A i \in DOMAIN g.node[n].ins : f[g.node[n].ins[i]] = h[g.node[n].ins[i]]
      BY <1>5, <1>11
    <2>2. Body(g, env, f, n) = Body(g, env, h, n)
      BY <2>1, <1>4, BodySame
    <2>3. Fine(f, n) <=> Fine(h, n)
      BY <2>1
    <2>4. Guarded(f, n) = Guarded(h, n)
      BY <2>2, <2>3
    <2> HIDE DEF Guarded, step
    <2> QED
      BY <2>4, <1>7
  <1> HIDE DEF step
  <1>12. Ranked(D, W, r, step)
    <2> HIDE DEF W
    <2> QED
      BY <1>2, <1>3, <1>10, <1>11 DEF Ranked
  <1>13. PICK f \in [D -> W] : \A n \in D : f[n] = step[n][f]
    <2> HIDE DEF D, W
    <2>1. Computes(D, W, step)
      BY <1>6, <1>12, RankedRecursion
    <2> QED
      BY <2>1 DEF Computes
  <1> HIDE DEF Guarded
  <1>14. \A n \in D : f[n] = Guarded(f, n)
    BY <1>7, <1>13
  <1>15. \A n \in D : g.node[n].type # "input" \/ Read(g, n) => f[n] \in Residues
    BY <1>14, <1>8, <1>9 DEF Runnable
  <1>16. ASSUME NEW n \in D PROVE f[n] = Body(g, env, f, n)
    <2>1. Fine(f, n)
      BY <1>5, <1>15
    <2> QED
      BY <2>1, <1>14 DEF Guarded
  <1>17. ValuesStep(g, env, f)
    <2>1. f = [n \in D |-> f[n]]
      OBVIOUS
    <2> QED
      BY <2>1, <1>16 DEF ValuesStep
  <1> DEFINE val == CHOOSE h : ValuesStep(g, env, h)
  <1>18. ValuesStep(g, env, val)
    BY <1>17
  <1>19. Values(g, env) = val
    BY DEF Values, ValuesStep, Body
  <1> HIDE DEF val
  <1>20. val = f
    BY <1>17, <1>18, ValuesSame
  <1> QED
    BY <1>15, <1>18, <1>19, <1>20

-----------------------------------------------------------------------------
\* A program that can be run: its nodes have their operands, and every input that is
\* read is among its formals.

Fed(g) ==
    \A n \in DOMAIN g.node : g.node[n].type = "input" /\ Read(g, n) => n \in ToSet(Formals(g))

Equipped(nd) ==
    /\ nd.type = "op" => nd.role \in DOMAIN OpArity /\ Len(nd.ins) >= OpArity[nd.role]
    /\ nd.type \in {"output", "queue"} => Len(nd.ins) >= 1

Wired(g) ==
    /\ IsGraph(g) /\ Acyclic(g) /\ Fed(g)
    /\ \A n \in DOMAIN g.node : Equipped(g.node[n])
    /\ \A o \in ToSet(g.outputs) : g.node[o].type = "output"

\* The persistent tensors of a program, and all it is called with.
LEMMA FormalsAre ==
    ASSUME NEW g, IsGraph(g)
    PROVE  /\ Persistent(g) \in Seq(DOMAIN g.node) /\ Formals(g) \in Seq(DOMAIN g.node)
           /\ ToSet(Persistent(g)) = {n \in DOMAIN g.node :
                                         g.node[n].role \in {"parameter", "optimizer_parameter"}}
           /\ ToSet(Formals(g)) = {n \in ToSet(g.inputs) : Read(g, n)} \cup ToSet(Persistent(g))
           /\ Formals(g) = OrderedModuleInputs(g) \o Persistent(g)
  <1>1. /\ OfRole(g, "parameter") \in Seq(DOMAIN g.node)
        /\ ToSet(OfRole(g, "parameter")) = {n \in DOMAIN g.node : g.node[n].role = "parameter"}
    BY OfRoleIs
  <1>2. /\ OfRole(g, "optimizer_parameter") \in Seq(DOMAIN g.node)
        /\ ToSet(OfRole(g, "optimizer_parameter")) =
              {n \in DOMAIN g.node : g.node[n].role = "optimizer_parameter"}
    BY OfRoleIs
  <1>3. /\ Persistent(g) \in Seq(DOMAIN g.node)
        /\ ToSet(Persistent(g)) = ToSet(OfRole(g, "parameter"))
                                  \cup ToSet(OfRole(g, "optimizer_parameter"))
    BY <1>1, <1>2, Joined DEF Persistent
  <1>4. /\ OrderedModuleInputs(g) \in Seq(DOMAIN g.node)
        /\ ToSet(OrderedModuleInputs(g)) = {n \in ToSet(g.inputs) : Read(g, n)}
    BY OrderedInputsAre
  <1>5. /\ Formals(g) \in Seq(DOMAIN g.node)
        /\ ToSet(Formals(g)) = ToSet(OrderedModuleInputs(g)) \cup ToSet(Persistent(g))
    BY <1>3, <1>4, Joined DEF Formals
  <1> QED
    BY <1>1, <1>2, <1>3, <1>4, <1>5 DEF Formals

\* Given as many elements as it declares arguments, a program has one for each input.
LEMMA BoundRuns ==
    ASSUME NEW g, Wired(g), NEW actuals \in Seq(Residues), Len(actuals) = Len(Formals(g))
    PROVE  Runnable(g, Bound(g, actuals))
  <1> DEFINE env == Bound(g, actuals)
             formals == Formals(g)
  <1>1. IsGraph(g) /\ Acyclic(g) /\ formals \in Seq(DOMAIN g.node)
    BY FormalsAre DEF Wired
  <1>2. \A n \in ToSet(formals) : env[n] \in Residues
    <2> SUFFICES ASSUME NEW n \in ToSet(formals) PROVE env[n] \in Residues
      OBVIOUS
    <2>1. env[n] = actuals[CHOOSE i \in DOMAIN formals : formals[i] = n]
      BY DEF Bound
    <2>2. \E i \in DOMAIN formals : formals[i] = n
      BY DEF ToSet
    <2> HIDE DEF env, formals
    <2>3. PICK i \in DOMAIN formals : i = CHOOSE j \in DOMAIN formals : formals[j] = n
      BY <2>2
    <2>4. DOMAIN formals = 1..Len(formals)
      BY <1>1
    <2>5. i \in 1..Len(actuals)
      BY <2>4 DEF formals
    <2> QED
      BY <2>1, <2>3, <2>5
  <1> HIDE DEF env, formals
  <1>3. Runnable(g, env)
    BY <1>2 DEF Runnable, Wired, Fed, Equipped, formals
  <1> QED
    BY <1>3 DEF env

\* A program that is given a residue for each of its formals returns one for each of
\* its outputs.
LEMMA OutputsOfAre ==
    ASSUME NEW g, Wired(g), NEW actuals \in Seq(Residues), Len(actuals) = Len(Formals(g))
    PROVE  OutputsOf(g, actuals) \in [DOMAIN g.outputs -> Residues]
  <1> DEFINE env == Bound(g, actuals)
  <1>1. IsGraph(g) /\ Acyclic(g)
    BY DEF Wired
  <1>3. Runnable(g, env)
    BY BoundRuns
  <1> HIDE DEF env
  <1>4. \A n \in DOMAIN g.node : g.node[n].type # "input" => Values(g, env)[n] \in Residues
    BY <1>1, <1>3, ValuesAre
  <1>5. \A i \in DOMAIN g.outputs : g.outputs[i] \in DOMAIN g.node
                                    /\ g.node[g.outputs[i]].type = "output"
    <2>1. g.outputs \in Seq(DOMAIN g.node)
      BY <1>1 DEF IsGraph
    <2> QED
      BY <2>1 DEF Wired, ToSet
  <1>6. OutputsOf(g, actuals) = [i \in DOMAIN g.outputs |-> Values(g, env)[g.outputs[i]]]
    BY DEF OutputsOf, env
  <1>7. \A i \in DOMAIN g.outputs : Values(g, env)[g.outputs[i]] \in Residues
    BY <1>4, <1>5
  <1> QED
    BY <1>6, <1>7

\* What a run adds of the pool.
LEMMA ActualsAre ==
    ASSUME NEW g, IsGraph(g), pool \in [Leaves -> Residues], NEW activations \in Seq(Residues)
    PROVE  /\ Actuals(g, activations) \in Seq(Residues)
           /\ Len(Actuals(g, activations)) = Len(activations) + Len(Persistent(g))
  <1> DEFINE held == [i \in DOMAIN Persistent(g) |-> Element(Persistent(g)[i])]
  <1>1. \A n : Element(n) \in Residues
    BY StepAssumption DEF Element, Residues
  <1>2. Persistent(g) \in Seq(DOMAIN g.node)
    BY FormalsAre
  <1>3. DOMAIN Persistent(g) = 1..Len(Persistent(g)) /\ Len(Persistent(g)) \in Nat
    BY <1>2
  <1>4. held \in [1..Len(Persistent(g)) -> Residues]
    BY <1>1, <1>3
  <1>5. held \in Seq(Residues) /\ Len(held) = Len(Persistent(g))
    BY <1>3, <1>4
  <1>6. Actuals(g, activations) = activations \o held
    BY DEF Actuals
  <1> HIDE DEF held
  <1>7. Actuals(g, activations) \in Seq(Residues)
    BY <1>5, <1>6, Joined
  <1>8. Len(activations \o held) = Len(activations) + Len(held)
    BY <1>5
  <1> QED
    BY <1>5, <1>6, <1>7, <1>8

\* A node of a whole graph has its operands.
LEMMA WholeIsEquipped ==
    ASSUME NEW n, NEW nd, Whole(n, nd)
    PROVE  /\ Equipped(nd)
           /\ nd.type = "op" => nd.role \in DOMAIN OpArity /\ Len(nd.ins) = OpArity[nd.role]
           /\ nd.type \in {"output", "queue"} => Len(nd.ins) = 1
  <1>1. nd.type = TypeOf(n) /\ nd.role \in RolesOf(n) /\ Len(nd.ins) = Ports(nd)
    BY DEF Whole, Fits
  <1>2. CASE nd.type = "op"
    <2>1. n \notin Leaves /\ n[1] \notin {"gradient", "lr", "output", "output_grad", "grad_acc"}
      BY <1>1, <1>2 DEF TypeOf
    <2>2. n \notin Weights
      BY <2>1 DEF Leaves
    <2>3. RolesOf(n) \subseteq DOMAIN OpArity
      BY <2>1, <2>2 DEF RolesOf, OpArity
    <2>4. nd.role \in DOMAIN OpArity /\ Len(nd.ins) = OpArity[nd.role]
      BY <1>1, <1>2, <2>3 DEF Ports
    <2>5. OpArity[nd.role] \in {1, 2}
      BY <2>4 DEF OpArity
    <2> QED
      BY <2>4, <2>5, <1>2 DEF Equipped
  <1>3. CASE nd.type # "op"
    BY <1>1, <1>3 DEF Ports, Equipped
  <1> QED
    BY <1>2, <1>3

\* The forward program can be run.
LEMMA ForwardIsWired ==
    ASSUME NEW m, NEW g, Well(g), Listed(m, g), NEW h, IsForward(g, h)
    PROVE  Wired(h)
  <1> DEFINE F == Forwards(g)
  <1>1. IsGraph(h) /\ Acyclic(h)
    BY ForwardAcyclic DEF IsForward
  <1>2. DOMAIN h.node = F \cup Intermediates(g)
    BY DEF IsForward
  <1>3. \A n \in F : n \in DOMAIN g.node /\ EpochOf(n) = "fwd" /\ Whole(n, g.node[n])
    BY DEF Forwards, Well
  <1>4. \A n \in F : Equipped(h.node[n])
    <2> SUFFICES ASSUME NEW n \in F PROVE Equipped(h.node[n])
      OBVIOUS
    <2>1. Equipped(g.node[n]) /\ g.node[n].type = TypeOf(n)
      BY <1>3, WholeIsEquipped DEF Whole, Fits
    <2>2. /\ h.node[n].type = TypeOf(n) /\ h.node[n].ins = g.node[n].ins
          /\ TypeOf(n) = "op" => h.node[n].role = g.node[n].role
      BY DEF IsForward
    <2> QED
      BY <2>1, <2>2 DEF Equipped
  <1>5. \A n \in Intermediates(g) : h.node[n].type = "output" /\ Len(h.node[n].ins) = 1
                                    /\ ToSet(h.node[n].ins) \subseteq Saves(g)
    <2> SUFFICES ASSUME NEW x \in Saves(g)
                 PROVE  /\ h.node[<<"intermediate", x>>].type = "output"
                        /\ Len(h.node[<<"intermediate", x>>].ins) = 1
                        /\ ToSet(h.node[<<"intermediate", x>>].ins) \subseteq Saves(g)
      BY DEF Intermediates
    <2>1. h.node[<<"intermediate", x>>].type = "output" /\ h.node[<<"intermediate", x>>].ins = <<x>>
      BY DEF IsForward
    <2> QED
      BY <2>1, OneIs
  <1>6. \A n \in DOMAIN h.node : Equipped(h.node[n])
    BY <1>2, <1>4, <1>5 DEF Equipped
  <1>7. \A o \in ToSet(h.outputs) : h.node[o].type = "output"
    <2>1. PICK names \in Seq(Intermediates(g)) : h.outputs = g.outputs \o names /\ Distinct(names)
                                                 /\ ToSet(names) = Intermediates(g)
      BY DEF IsForward
    <2>2. g.outputs \in Seq(DOMAIN g.node) /\ names \in Seq(Intermediates(g))
      BY <2>1 DEF Well, IsGraph
    <2>3. ToSet(h.outputs) = ToSet(g.outputs) \cup Intermediates(g)
      <3>1. g.outputs \in Seq(DOMAIN g.node \cup Intermediates(g))
            /\ names \in Seq(DOMAIN g.node \cup Intermediates(g))
        BY <2>2, Retyped, Entries
      <3>2. ToSet(g.outputs \o names) = ToSet(g.outputs) \cup ToSet(names)
        BY <3>1, Joined
      <3> QED
        BY <3>2, <2>1
    <2>4. \A o \in ToSet(g.outputs) : o \in F /\ TypeOf(o) = "output"
      <3> SUFFICES ASSUME NEW o \in ToSet(g.outputs) PROVE o \in F /\ TypeOf(o) = "output"
        OBVIOUS
      <3>1. PICK i \in DOMAIN m.outs : o = Output(m.outs[i])
        BY DEF Listed, ModuleOutputs, ToSet
      <3>2. o \in DOMAIN g.node
        BY <2>2, Entries
      <3> QED
        BY <3>1, <3>2, NamesAre DEF Output, Forwards
    <2> QED
      BY <2>3, <2>4, <1>5 DEF IsForward
  <1>8. Fed(h)
    <2> SUFFICES ASSUME NEW n \in DOMAIN h.node, h.node[n].type = "input", Read(h, n)
                 PROVE  n \in ToSet(Formals(h))
      BY DEF Fed
    <2>1. n \in F
      BY <1>2, <1>5
    <2>2. TypeOf(n) = "input" /\ h.node[n].role = g.node[n].role
      BY <2>1 DEF IsForward
    <2>3. n \in Leaves
      BY <2>1, <2>2, <1>3 DEF TypeOf, EpochOf, FwdKinds
    <2>4. ToSet(Formals(h)) = {x \in ToSet(h.inputs) : Read(h, x)}
             \cup {x \in DOMAIN h.node : h.node[x].role \in {"parameter", "optimizer_parameter"}}
      BY <1>1, FormalsAre
    <2>5. CASE n \in Weights
      <3>1. g.node[n].role = "parameter"
        BY <2>1, <2>5, <1>3 DEF Whole, Fits, RolesOf
      <3> QED
        BY <3>1, <2>2, <2>4
    <2>6. CASE n \notin Weights
      <3>1. n \in ToSet(Activations) /\ n \in ToSet(g.inputs)
        BY <2>1, <2>3, <2>6, <1>3 DEF Leaves, Listed
      <3>2. PICK u \in DOMAIN h.node : n \in ToSet(h.node[u].ins)
        BY DEF Read
      <3>3. u \in F
        <4>1. n \notin Saves(g)
          BY <2>2 DEF Saves, ForwardOps
        <4> QED
          BY <4>1, <3>2, <1>2, <1>5
      <3>4. Read(g, n)
        BY <3>2, <3>3, <1>3 DEF Read, IsForward
      <3>5. n \in ToSet(OrderedModuleInputs(g)) /\ OrderedModuleInputs(g) \in Seq(DOMAIN g.node)
        BY <3>1, <3>4, OrderedInputsAre DEF Well
      <3>6. n \in ToSet(h.inputs)
        BY <3>5, <1>3, <2>1, OfEpochIs DEF IsForward
      <3> QED
        BY <3>6, <2>4
    <2> QED
      BY <2>5, <2>6
  <1> QED
    BY <1>1, <1>6, <1>7, <1>8 DEF Wired

\* The outputs of the forward program: the module's, then the values saved.
LEMMA ForwardOutputsAre ==
    ASSUME NEW m, NEW g, Well(g), Listed(m, g), NEW fwd, IsForward(g, fwd)
    PROVE  /\ fwd.outputs \in Seq(DOMAIN fwd.node)
           /\ ToSet(fwd.outputs) = OutputNodes(m) \cup Intermediates(g)
           /\ SavedBy(g) \subseteq ToSet(fwd.outputs)
           /\ Len(g.outputs) <= Len(fwd.outputs)
           /\ \A i \in DOMAIN g.outputs : fwd.outputs[i] = g.outputs[i]
           /\ \A i \in DOMAIN fwd.outputs : i \notin DOMAIN g.outputs =>
                 fwd.outputs[i] \in Intermediates(g)
  <1>1. PICK names \in Seq(Intermediates(g)) : fwd.outputs = g.outputs \o names
                                               /\ ToSet(names) = Intermediates(g)
    BY DEF IsForward
  <1> DEFINE N == DOMAIN g.node \cup Intermediates(g)
  <1>2. g.outputs \in Seq(N) /\ names \in Seq(N) /\ g.outputs \in Seq(DOMAIN g.node)
    <2>1. g.outputs \in Seq(DOMAIN g.node)
      BY DEF Well, IsGraph
    <2> QED
      BY <2>1, Retyped, Entries
  <1>3. ToSet(g.outputs) = OutputNodes(m)
    BY DEF Listed, OutputNodes
  <1>4. ToSet(fwd.outputs) = OutputNodes(m) \cup Intermediates(g)
    <2>1. ToSet(g.outputs \o names) = ToSet(g.outputs) \cup ToSet(names)
      BY <1>2, Joined
    <2> QED
      BY <2>1, <1>1, <1>3
  <1>5. fwd.outputs \in Seq(DOMAIN fwd.node)
    BY DEF IsForward, IsGraph
  <1>6. SavedBy(g) \subseteq ToSet(fwd.outputs)
    <2> SUFFICES ASSUME NEW o \in Forwards(g), TypeOf(o) = "output"
                 PROVE  o \in OutputNodes(m)
      BY <1>4 DEF SavedBy
    <2>1. o \in DOMAIN g.node /\ EpochOf(o) = "fwd"
      BY DEF Forwards
    <2>2. OneOf(o, {"output"})
      BY <2>1 DEF TypeOf, EpochOf, FwdKinds, OneOf
    <2> QED
      BY <2>1, <2>2 DEF Listed
  <1>7. /\ Len(g.outputs) <= Len(fwd.outputs)
        /\ \A i \in DOMAIN g.outputs : fwd.outputs[i] = g.outputs[i]
    BY <1>1, <1>2
  <1>8. ASSUME NEW i \in DOMAIN fwd.outputs, i \notin DOMAIN g.outputs
        PROVE  fwd.outputs[i] \in Intermediates(g)
    <2>1. fwd.outputs[i] = names[i - Len(g.outputs)] /\ i - Len(g.outputs) \in DOMAIN names
      BY <1>1, <1>2, <1>8
    <2> QED
      BY <2>1
  <1> QED
    BY <1>4, <1>5, <1>6, <1>7, <1>8

\* The inputs of the backward program, in their three parts.
LEMMA BackwardInputsAre ==
    ASSUME NEW m, NEW g, Well(g), Listed(m, g), NEW fwd, IsForward(g, fwd),
           NEW h, IsBackward(g, fwd, h)
    PROVE  LET ordered == OrderedModuleInputs(g)
               own == OfEpoch(g, ordered, "bwd")
               saved == Named(h, fwd.outputs)
               again == Named(h, OfEpoch(g, ordered, "fwd"))
           IN  /\ h.inputs = own \o saved \o again
               /\ own \in Seq(DOMAIN h.node) /\ saved \in Seq(DOMAIN h.node)
               /\ again \in Seq(DOMAIN h.node)
               /\ Distinct(own) /\ Distinct(again)
               /\ ToSet(own) = {n \in ToSet(g.inputs) : Read(g, n) /\ EpochOf(n) = "bwd"}
               /\ ToSet(saved) = ToSet(fwd.outputs) \cap DOMAIN h.node
               /\ ToSet(again) = {n \in ToSet(g.inputs) : Read(g, n) /\ EpochOf(n) = "fwd"}
                                 \cap DOMAIN h.node
  <1> DEFINE ordered == OrderedModuleInputs(g)
             own == OfEpoch(g, ordered, "bwd")
             first == OfEpoch(g, ordered, "fwd")
             saved == Named(h, fwd.outputs)
             again == Named(h, first)
  <1>1. IsGraph(g) /\ Distinct(g.inputs)
    BY DEF Well, Listed
  <1>2. /\ ordered \in Seq(DOMAIN g.node) /\ Distinct(ordered)
        /\ ToSet(ordered) = {n \in ToSet(g.inputs) : Read(g, n)}
    BY <1>1, OrderedInputsAre
  <1>3. /\ own \in Seq(DOMAIN g.node) /\ Distinct(own)
        /\ ToSet(own) = {n \in ToSet(ordered) : EpochOf(n) = "bwd"}
    BY <1>2, OfEpochIs
  <1>4. /\ first \in Seq(DOMAIN g.node) /\ Distinct(first)
        /\ ToSet(first) = {n \in ToSet(ordered) : EpochOf(n) = "fwd"}
    BY <1>2, OfEpochIs
  <1>5. fwd.outputs \in Seq(DOMAIN fwd.node)
    BY DEF IsForward, IsGraph
  <1>6. saved \in Seq(DOMAIN fwd.node) /\ ToSet(saved) = ToSet(fwd.outputs) \cap DOMAIN h.node
    BY <1>5, OnlyMembers DEF Named
  <1>7. again \in Seq(DOMAIN g.node) /\ ToSet(again) = ToSet(first) \cap DOMAIN h.node
    BY <1>4, OnlyMembers DEF Named
  <1>8. Distinct(again)
    BY <1>4, OnlyDistinct DEF Named
  <1>9. h.inputs = own \o saved \o again
    BY DEF IsBackward, BackwardInputs
  <1>10. ToSet(own) \subseteq DOMAIN h.node
    <2> SUFFICES ASSUME NEW n \in ToSet(own) PROVE n \in DOMAIN h.node
      OBVIOUS
    <2>1. n \in Backwards(g) /\ n \in ToSet(g.inputs)
      BY <1>2, <1>3, Entries DEF Backwards
    <2>2. n \in ToSet(Activations) \/ OneOf(n, {"gradient"})
      BY <2>1 DEF Listed
    <2>3. TypeOf(n) = "input"
      BY <2>2 DEF TypeOf, OneOf, Leaves
    <2>4. BackwardName(n) = n
      BY <2>3 DEF BackwardName
    <2> QED
      BY <2>1, <2>4 DEF IsBackward, IsBackwardOf
  <1> HIDE DEF ordered, own, first, saved, again
  <1>11. own \in Seq(DOMAIN h.node) /\ saved \in Seq(DOMAIN h.node) /\ again \in Seq(DOMAIN h.node)
    BY <1>3, <1>6, <1>7, <1>10, Retyped
  <1> QED
    BY <1>2, <1>3, <1>4, <1>6, <1>7, <1>8, <1>9, <1>11
       DEF ordered, own, first, saved, again

\* What an input of the backward program is.
LEMMA BackwardInputKinds ==
    ASSUME NEW m, NEW g, Well(g), Listed(m, g), NEW fwd, IsForward(g, fwd),
           NEW h, IsBackward(g, fwd, h), NEW n \in DOMAIN h.node, h.node[n].type = "input"
    PROVE  \/ n \in SavedBy(g)
           \/ n \in ReadAgain(g) /\ n \in Leaves
           \/ /\ n \in Backwards(g) /\ OneOf(n, {"gradient"}) /\ n \in ToSet(g.inputs)
              /\ h.node[n].role = "gradient"
  <1>1. IsBackwardOf(g, fwd, Backwards(g), h)
    BY DEF IsBackward
  <1>2. CASE n \in ReadAgain(g)
    BY <1>2 DEF ReadAgain, Forwards, TypeOf, EpochOf, FwdKinds
  <1>3. ASSUME NEW b \in Backwards(g), n = BackwardName(b)
        PROVE  /\ n \in Backwards(g) /\ OneOf(n, {"gradient"}) /\ n \in ToSet(g.inputs)
               /\ h.node[n].role = "gradient"
    <2>1. IsBackwardNode(g, fwd, b, h.node[n])
      BY <1>1, <1>3 DEF IsBackwardOf
    <2>2. TypeOf(b) = "input" /\ n = b /\ h.node[n].role = g.node[b].role
      BY <2>1, <1>3 DEF IsBackwardNode, BackwardName
    <2>3. b \in DOMAIN g.node /\ EpochOf(b) = "bwd" /\ Whole(b, g.node[b])
      BY DEF Backwards, Well
    <2>4. OneOf(b, {"gradient"})
      BY <2>2, <2>3 DEF TypeOf, EpochOf, OneOf, OptKinds
    <2>5. g.node[b].role = "gradient"
      <3>1. b \notin Leaves /\ b[1] = "gradient"
        BY <2>4 DEF OneOf
      <3>2. RolesOf(b) = {"gradient"}
        BY <3>1 DEF RolesOf, Leaves
      <3> QED
        BY <3>2, <2>3 DEF Whole, Fits
    <2> QED
      BY <2>2, <2>3, <2>4, <2>5 DEF Listed
  <1> QED
    BY <1>1, <1>2, <1>3 DEF IsBackwardOf

\* A gradient the backward program reads is one the graph reads.
LEMMA BackwardReadsOwn ==
    ASSUME NEW g, Well(g), NEW fwd, IsForward(g, fwd), NEW h, IsBackward(g, fwd, h),
           NEW n \in Backwards(g), Read(h, n)
    PROVE  Read(g, n)
  <1>1. IsBackwardOf(g, fwd, Backwards(g), h)
    BY DEF IsBackward
  <1>2. PICK u \in DOMAIN h.node : n \in ToSet(h.node[u].ins)
    BY DEF Read
  <1>3. CASE u \in SavedBy(g)
    <2>1. h.node[u].ins = <<>>
      BY <1>1, <1>3 DEF IsBackwardOf, Saved, Node
    <2>2. ToSet(<<>>) = {}
      BY DEF ToSet
    <2> QED
      BY <2>1, <2>2, <1>2
  <1>4. CASE u \in ReadAgain(g)
    BY <1>1, <1>2, <1>4 DEF IsBackwardOf, ReadAgain, Forwards, Read
  <1>5. ASSUME NEW b \in Backwards(g), u = BackwardName(b) PROVE Read(g, n)
    <2>1. IsBackwardNode(g, fwd, b, h.node[u]) /\ b \in DOMAIN g.node
      BY <1>1, <1>5 DEF IsBackwardOf, Backwards
    <2>2. n \notin DOMAIN fwd.node
      <3>1. EpochOf(n) = "bwd" /\ n \in DOMAIN g.node
        BY DEF Backwards
      <3>2. n \notin Intermediates(g)
        BY <3>1, IntermediatesAreNew DEF Intermediates
      <3> QED
        BY <3>1, <3>2 DEF IsForward, Forwards
    <2>3. n \in ToSet(g.node[b].ins)
      BY <2>1, <2>2, <1>2 DEF IsBackwardNode, IsBackwardOperands, Showing
    <2> QED
      BY <2>1, <2>3 DEF Read
  <1> QED
    BY <1>1, <1>2, <1>3, <1>4, <1>5 DEF IsBackwardOf

\* The backward program can be run.
LEMMA BackwardIsWired ==
    ASSUME NEW m, NEW g, Well(g), Listed(m, g), NEW fwd, IsForward(g, fwd),
           NEW h, IsBackward(g, fwd, h)
    PROVE  Wired(h)
  <1>1. IsBackwardOf(g, fwd, Backwards(g), h) /\ IsGraph(h) /\ Acyclic(h)
    BY DEF IsBackward, IsBackwardOf
  <1>2. ASSUME NEW n \in DOMAIN h.node PROVE Equipped(h.node[n])
    <2>1. CASE n \in SavedBy(g)
      BY <1>1, <2>1 DEF IsBackwardOf, Saved, Node, Equipped
    <2>2. CASE n \in ReadAgain(g)
      <3>1. h.node[n].type = "input"
        BY <1>1, <2>2 DEF IsBackwardOf, ReadAgain, Forwards, Well, Whole, Fits
      <3> QED
        BY <3>1 DEF Equipped
    <2>3. ASSUME NEW b \in Backwards(g), n = BackwardName(b) PROVE Equipped(h.node[n])
      <3>1. IsBackwardNode(g, fwd, b, h.node[n]) /\ b \in DOMAIN g.node
        BY <1>1, <2>3 DEF IsBackwardOf, Backwards
      <3>2. /\ g.node[b].type = TypeOf(b)
            /\ g.node[b].type = "op" => g.node[b].role \in DOMAIN OpArity
                                        /\ Len(g.node[b].ins) = OpArity[g.node[b].role]
            /\ g.node[b].type \in {"output", "queue"} => Len(g.node[b].ins) = 1
        BY <3>1, WholeIsEquipped DEF Well, Whole, Fits
      <3>3. OpArity \in [DOMAIN OpArity -> Int]
        BY DEF OpArity
      <3>4. CASE TypeOf(b) = "queue"
        <4>1. h.node[n].type = "output" /\ h.node[n].ins = g.node[b].ins
          BY <3>1, <3>4 DEF IsBackwardNode
        <4>2. Len(h.node[n].ins) = 1
          BY <4>1, <3>2, <3>4
        <4> QED
          BY <4>1, <4>2 DEF Equipped
      <3>5. CASE TypeOf(b) # "queue"
        <4>1. /\ h.node[n].type = g.node[b].type /\ h.node[n].role = g.node[b].role
              /\ Len(h.node[n].ins) >= Len(g.node[b].ins)
          BY <3>1, <3>2, <3>5 DEF IsBackwardNode, IsBackwardOperands
        <4>2. h.node[n] \in Records(DOMAIN h.node) /\ g.node[b] \in Records(DOMAIN g.node)
          BY <1>1, <3>1 DEF IsGraph, Well
        <4>3. Len(h.node[n].ins) \in Nat /\ Len(g.node[b].ins) \in Nat
          BY <4>2 DEF Records
        <4>4. g.node[b].type = "op" => Len(h.node[n].ins) >= OpArity[g.node[b].role]
          BY <4>1, <4>3, <3>2, <3>3
        <4>5. g.node[b].type \in {"output", "queue"} => Len(h.node[n].ins) >= 1
          BY <4>1, <4>3, <3>2
        <4> QED
          BY <4>1, <4>4, <4>5, <3>2, <3>5 DEF Equipped
      <3> QED
        BY <3>4, <3>5
    <2> QED
      BY <1>1, <2>1, <2>2, <2>3 DEF IsBackwardOf
  <1>3. \A o \in ToSet(h.outputs) : h.node[o].type = "output"
    BY <1>1, OfTypeIs DEF IsBackward
  <1>4. Fed(h)
    <2> SUFFICES ASSUME NEW n \in DOMAIN h.node, h.node[n].type = "input", Read(h, n)
                 PROVE  n \in ToSet(Formals(h))
      BY DEF Fed
    <2>1. ToSet(Formals(h)) = {x \in ToSet(h.inputs) : Read(h, x)}
             \cup {x \in DOMAIN h.node : h.node[x].role \in {"parameter", "optimizer_parameter"}}
      BY <1>1, FormalsAre
    <2> DEFINE own == OfEpoch(g, OrderedModuleInputs(g), "bwd")
               saved == Named(h, fwd.outputs)
               again == Named(h, OfEpoch(g, OrderedModuleInputs(g), "fwd"))
               both == own \o saved
    <2>2. /\ h.inputs = both \o again
          /\ own \in Seq(DOMAIN h.node) /\ saved \in Seq(DOMAIN h.node)
          /\ again \in Seq(DOMAIN h.node)
          /\ ToSet(own) = {x \in ToSet(g.inputs) : Read(g, x) /\ EpochOf(x) = "bwd"}
          /\ ToSet(saved) = ToSet(fwd.outputs) \cap DOMAIN h.node
          /\ ToSet(again) = {x \in ToSet(g.inputs) : Read(g, x) /\ EpochOf(x) = "fwd"}
                            \cap DOMAIN h.node
      BY BackwardInputsAre
    <2> HIDE DEF own, saved, again
    <2>3. ToSet(h.inputs) = ToSet(own) \cup ToSet(saved) \cup ToSet(again)
      <3>1. both \in Seq(DOMAIN h.node) /\ ToSet(both) = ToSet(own) \cup ToSet(saved)
        BY <2>2, Joined
      <3> HIDE DEF both
      <3>2. ToSet(both \o again) = ToSet(both) \cup ToSet(again)
        BY <2>2, <3>1, Joined
      <3> QED
        BY <3>1, <3>2, <2>2
    <2> HIDE DEF both
    <2>4. CASE n \in SavedBy(g)
      BY <2>4, <2>1, <2>2, <2>3, ForwardOutputsAre
    <2>5. CASE n \in ReadAgain(g) /\ n \in Leaves
      <3>1. /\ n \in DOMAIN g.node /\ Read(g, n) /\ EpochOf(n) = "fwd"
            /\ h.node[n] = g.node[n] /\ Whole(n, g.node[n])
        BY <1>1, <2>5 DEF ReadAgain, Forwards, ReadIn, Read, IsBackwardOf, Well
      <3>2. CASE n \in Weights
        BY <2>1, <3>1, <3>2 DEF Whole, Fits, RolesOf
      <3>3. CASE n \notin Weights
        BY <2>1, <2>2, <2>3, <2>5, <3>1, <3>3 DEF Listed, Leaves
      <3> QED
        BY <3>2, <3>3
    <2>6. CASE n \in Backwards(g) /\ n \in ToSet(g.inputs)
      <3>1. Read(g, n) /\ EpochOf(n) = "bwd"
        BY <2>6, BackwardReadsOwn DEF Backwards
      <3> QED
        BY <2>1, <2>2, <2>3, <2>6, <3>1
    <2> QED
      BY <2>4, <2>5, <2>6, BackwardInputKinds
  <1> QED
    BY <1>1, <1>2, <1>3, <1>4 DEF Wired

\* The optimizer program can be run.
LEMMA OptimizerIsWired ==
    ASSUME NEW m, NEW g, Well(g), NEW lb, Updates(m, g, lb), NEW h, IsOptimizer(g, lb, h)
    PROVE  Wired(h)
  <1>1. IsOptimizerOf(g, lb, Opts(g), h) /\ IsGraph(h) /\ Acyclic(h)
    BY DEF IsOptimizer, IsOptimizerOf
  <1>2. /\ DOMAIN lb \subseteq DOMAIN g.node /\ \A w \in DOMAIN lb : lb[w] \in Opts(g)
        /\ DOMAIN lb \subseteq Weights
    BY OptimizerNamesDiffer DEF Updates
  <1>3. \A w \in DOMAIN lb : h.node[w].type = "input" /\ h.node[w].role = "parameter"
    <2> SUFFICES ASSUME NEW w \in DOMAIN lb
                 PROVE  h.node[w].type = "input" /\ h.node[w].role = "parameter"
      OBVIOUS
    <2>1. Whole(w, g.node[w]) /\ w \in Leaves /\ w \in Weights /\ h.node[w] = g.node[w]
      BY <1>1, <1>2 DEF Well, Leaves, IsOptimizerOf
    <2> QED
      BY <2>1, LeavesAre DEF Whole, Fits
  <1>4. \A w \in DOMAIN lb : h.node[Updated(w)].type = "output"
                             /\ Len(h.node[Updated(w)].ins) = 1
    <2> SUFFICES ASSUME NEW w \in DOMAIN lb
                 PROVE  h.node[Updated(w)].type = "output" /\ Len(h.node[Updated(w)].ins) = 1
      OBVIOUS
    <2>1. h.node[Updated(w)].type = "output" /\ h.node[Updated(w)].ins = <<lb[w]>>
      BY <1>1, <1>2 DEF IsOptimizerOf
    <2> QED
      BY <2>1, OneIs
  <1>5. \A q \in Accs(lb) : h.node[q].type = "input" /\ q \in ToSet(h.inputs)
    BY <1>1, AccumulatorsAre DEF IsOptimizer, IsOptimizerOf
  <1>6. \A n \in Opts(g) : /\ h.node[n] = g.node[n] /\ Equipped(g.node[n])
                           /\ h.node[n].type = "input" => h.node[n].role = "optimizer_parameter"
    <2> SUFFICES ASSUME NEW n \in Opts(g)
                 PROVE  /\ h.node[n] = g.node[n] /\ Equipped(g.node[n])
                        /\ h.node[n].type = "input" => h.node[n].role = "optimizer_parameter"
      OBVIOUS
    <2>1. h.node[n] = g.node[n] /\ Whole(n, g.node[n]) /\ EpochOf(n) = "opt"
      BY <1>1 DEF IsOptimizerOf, Opts, Well
    <2>2. n \notin Leaves /\ n[1] \in OptKinds
      BY <2>1 DEF EpochOf
    <2>3. TypeOf(n) = "input" => n[1] = "lr"
      BY <2>2 DEF TypeOf, OptKinds
    <2>4. n[1] = "lr" => RolesOf(n) = {"optimizer_parameter"}
      BY <2>2 DEF RolesOf, Leaves
    <2> QED
      BY <2>1, <2>3, <2>4, WholeIsEquipped DEF Whole, Fits
  <1>7. \A n \in DOMAIN h.node : Equipped(h.node[n])
    BY <1>1, <1>3, <1>4, <1>5, <1>6 DEF IsOptimizerOf, Aliases, Equipped
  <1>8. \A o \in ToSet(h.outputs) : h.node[o].type = "output"
    BY <1>4 DEF IsOptimizer, Aliases
  <1>9. Fed(h)
    <2>1. ToSet(Formals(h)) = {x \in ToSet(h.inputs) : Read(h, x)}
             \cup {x \in DOMAIN h.node : h.node[x].role \in {"parameter", "optimizer_parameter"}}
      BY <1>1, FormalsAre
    <2> QED
      BY <2>1, <1>1, <1>3, <1>4, <1>5, <1>6 DEF IsOptimizerOf, Aliases, Fed
  <1> QED
    BY <1>1, <1>7, <1>8, <1>9 DEF Wired

\* When what is looked for are the first k entries, they are what is kept.
LEMMA OnlyFront ==
    ASSUME NEW T, NEW s \in Seq(T), NEW S, NEW k \in 0..Len(s),
           \A i \in DOMAIN s : s[i] \in S <=> i <= k
    PROVE  /\ Only(s, S) \in Seq(T) /\ Len(Only(s, S)) = k
           /\ \A i \in 1..k : Only(s, S)[i] = s[i]
  <1>1. PICK kept : KeptUpTo(s, S, Len(s), kept) /\ Only(s, S) = kept[Len(s)]
    BY OnlyDefined
  <1>2. DOMAIN s = 1..Len(s) /\ Len(s) \in Nat /\ \A i \in DOMAIN s : s[i] \in T
    BY Entries
  <1>3. /\ kept[0] = <<>>
        /\ \A i \in 1..Len(s) : kept[i] = IF s[i] \in S THEN Append(kept[i - 1], s[i])
                                          ELSE kept[i - 1]
    <2>1. kept = [i \in 0..Len(s) |-> IF i = 0 THEN <<>>
                   ELSE IF s[i] \in S THEN Append(kept[i - 1], s[i]) ELSE kept[i - 1]]
      BY <1>1 DEF KeptUpTo
    <2>2. 0 \in 0..Len(s) /\ \A i \in 1..Len(s) : i \in 0..Len(s) /\ i # 0
      BY <1>2
    <2> QED
      BY <2>1, <2>2
  <1> DEFINE Done(n) == /\ kept[n] \in Seq(T) /\ Len(kept[n]) = IF n <= k THEN n ELSE k
                        /\ \A i \in 1..Len(kept[n]) : kept[n][i] = s[i]
             Good == {n \in Nat : n <= Len(s) => Done(n)}
  <1>4. 0 \in Good
    <2>1. <<>> \in Seq(T) /\ Len(<<>>) = 0
      OBVIOUS
    <2>2. Done(0)
      BY <2>1, <1>3
    <2> HIDE DEF Done
    <2> QED
      BY <2>2
  <1>5. ASSUME NEW n \in Nat, n \in Good PROVE n + 1 \in Good
    <2> SUFFICES ASSUME n + 1 <= Len(s) PROVE Done(n + 1)
      OBVIOUS
    <2>1. Done(n) /\ n + 1 \in 1..Len(s) /\ (n + 1) - 1 = n
      BY <1>2, <1>5
    <2>2. kept[n + 1] = IF s[n + 1] \in S THEN Append(kept[n], s[n + 1]) ELSE kept[n]
      BY <2>1, <1>3
    <2>3. s[n + 1] \in T /\ (s[n + 1] \in S <=> n + 1 <= k)
      BY <2>1, <1>2
    <2>4. CASE n + 1 <= k
      <3>1. kept[n + 1] = Append(kept[n], s[n + 1]) /\ Len(kept[n]) = n
        BY <2>1, <2>2, <2>3, <2>4
      <3>2. /\ Append(kept[n], s[n + 1]) \in Seq(T)
            /\ DOMAIN Append(kept[n], s[n + 1]) = 1..(n + 1)
            /\ \A i \in 1..n : Append(kept[n], s[n + 1])[i] = kept[n][i]
            /\ Append(kept[n], s[n + 1])[n + 1] = s[n + 1]
        BY <2>1, <2>3, <3>1, AppendMembers
      <3>3. Len(kept[n + 1]) = n + 1
        BY <3>1, <3>2
      <3> QED
        BY <2>1, <2>4, <3>1, <3>2, <3>3
    <2>5. CASE n + 1 > k
      <3>1. kept[n + 1] = kept[n]
        BY <2>2, <2>3, <2>5
      <3>2. Len(kept[n]) = k
        BY <2>1, <2>5
      <3> QED
        BY <2>1, <2>5, <3>1, <3>2
    <2> QED
      BY <2>4, <2>5
  <1>6. Done(Len(s))
    <2>1. Len(s) \in Good
      <3> HIDE DEF Good
      <3> QED
        BY <1>2, <1>4, <1>5, SetInduction
    <2> QED
      BY <2>1, <1>2
  <1>7. Len(kept[Len(s)]) = k
    BY <1>2, <1>6
  <1> QED
    BY <1>1, <1>6, <1>7

\* Of the forward program's outputs the user is given the module's.
LEMMA ShownAre ==
    ASSUME NEW m, NEW g, Well(g), Listed(m, g), NEW fwd, IsForward(g, fwd)
    PROVE  /\ \A o \in OutputNodes(m) : o \in DOMAIN fwd.node /\ IsExternal(fwd, o)
           /\ \A o \in Intermediates(g) : ~IsExternal(fwd, o)
           /\ Len(g.outputs) \in 0..Len(fwd.outputs)
           /\ \A i \in DOMAIN fwd.outputs :
                 fwd.outputs[i] \in {o \in DOMAIN fwd.node : IsExternal(fwd, o)}
                    <=> i <= Len(g.outputs)
  <1>1. ASSUME NEW o \in OutputNodes(m) PROVE o \in DOMAIN fwd.node /\ IsExternal(fwd, o)
    <2>1. g.outputs \in Seq(DOMAIN g.node) /\ ToSet(g.outputs) = OutputNodes(m)
      BY DEF Well, IsGraph, Listed, OutputNodes
    <2>2. o \in DOMAIN g.node
      BY <2>1, Entries
    <2>3. PICK i \in DOMAIN m.outs : o = Output(m.outs[i])
      BY DEF OutputNodes, ModuleOutputs, ToSet
    <2>4. EpochOf(o) = "fwd" /\ RolesOf(o) = {"external"}
      BY <2>3, NamesAre DEF Output
    <2>5. o \in Forwards(g) /\ g.node[o].role = "external"
      BY <2>2, <2>4 DEF Forwards, Well, Whole, Fits
    <2>6. fwd.node[o].role \in {"shared", "external"}
      BY <2>5 DEF IsForward
    <2> QED
      BY <2>5, <2>6 DEF IsForward, IsExternal
  <1>2. \A o \in Intermediates(g) : ~IsExternal(fwd, o)
    BY DEF IsForward, Intermediates, IsExternal
  <1>3. /\ fwd.outputs \in Seq(DOMAIN fwd.node) /\ Len(g.outputs) <= Len(fwd.outputs)
        /\ \A i \in DOMAIN g.outputs : fwd.outputs[i] = g.outputs[i]
        /\ \A i \in DOMAIN fwd.outputs : i \notin DOMAIN g.outputs =>
              fwd.outputs[i] \in Intermediates(g)
    BY ForwardOutputsAre
  <1>4. g.outputs \in Seq(DOMAIN g.node) /\ ToSet(g.outputs) = OutputNodes(m)
    BY DEF Well, IsGraph, Listed, OutputNodes
  <1>5. /\ DOMAIN g.outputs = 1..Len(g.outputs) /\ Len(g.outputs) \in Nat
        /\ DOMAIN fwd.outputs = 1..Len(fwd.outputs) /\ Len(fwd.outputs) \in Nat
        /\ \A i \in DOMAIN g.outputs : g.outputs[i] \in OutputNodes(m)
    BY <1>3, <1>4, Entries
  <1>6. ASSUME NEW i \in DOMAIN fwd.outputs
        PROVE  fwd.outputs[i] \in {o \in DOMAIN fwd.node : IsExternal(fwd, o)}
                  <=> i <= Len(g.outputs)
    <2>1. i \in DOMAIN g.outputs <=> i <= Len(g.outputs)
      BY <1>5
    <2> QED
      BY <2>1, <1>1, <1>2, <1>3, <1>5
  <1>7. Len(g.outputs) \in 0..Len(fwd.outputs)
    BY <1>3, <1>5
  <1> QED
    BY <1>1, <1>2, <1>6, <1>7

\* The outputs the user is given are the module's, in its order.
LEMMA ExternalsAre ==
    ASSUME IsTraced(model), NEW g, Well(g), Listed(model, g), IsForward(g, Forward)
    PROVE  /\ Externals \in Seq(DOMAIN Forward.node) /\ Len(Externals) = Len(model.outs)
           /\ \A i \in DOMAIN model.outs : Externals[i] = Output(model.outs[i])
  <1>1. /\ Len(g.outputs) \in 0..Len(Forward.outputs)
        /\ \A i \in DOMAIN Forward.outputs :
              Forward.outputs[i] \in {o \in DOMAIN Forward.node : IsExternal(Forward, o)}
                 <=> i <= Len(g.outputs)
    BY ShownAre
  <1>2. /\ Forward.outputs \in Seq(DOMAIN Forward.node)
        /\ \A i \in DOMAIN g.outputs : Forward.outputs[i] = g.outputs[i]
    BY ForwardOutputsAre
  <1>3. /\ Externals \in Seq(DOMAIN Forward.node) /\ Len(Externals) = Len(g.outputs)
        /\ \A i \in 1..Len(g.outputs) : Externals[i] = Forward.outputs[i]
    <2> DEFINE S == {o \in DOMAIN Forward.node : IsExternal(Forward, o)}
               outs == Forward.outputs
               k == Len(g.outputs)
    <2>1. Externals = Only(outs, S)
      BY DEF Externals, Shown
    <2>2. /\ k \in 0..Len(outs) /\ outs \in Seq(DOMAIN Forward.node)
          /\ \A i \in DOMAIN outs : outs[i] \in S <=> i <= k
      BY <1>1, <1>2
    <2> HIDE DEF S, outs, k
    <2>3. /\ Only(outs, S) \in Seq(DOMAIN Forward.node) /\ Len(Only(outs, S)) = k
          /\ \A i \in 1..k : Only(outs, S)[i] = outs[i]
      BY <2>2, OnlyFront
    <2> QED
      BY <2>1, <2>3 DEF outs, k
  <1>4. /\ Len(g.outputs) = Len(model.outs) /\ DOMAIN g.outputs = DOMAIN model.outs
        /\ \A i \in DOMAIN model.outs : g.outputs[i] = Output(model.outs[i])
    BY OutputsAre DEF Listed
  <1>5. DOMAIN g.outputs = 1..Len(g.outputs)
    BY DEF Well, IsGraph
  <1> QED
    BY <1>2, <1>3, <1>4, <1>5

\* The gradients among the backward program's inputs.
Incoming(g) == {n \in Backwards(g) : OneOf(n, {"gradient"})}

\* They are its nodes of that role.
LEMMA GradientRoles ==
    ASSUME NEW m, NEW g, Well(g), NEW fwd, IsForward(g, fwd), NEW h, IsBackward(g, fwd, h)
    PROVE  {n \in DOMAIN h.node : h.node[n].role = "gradient"} = Incoming(g)
  <1>1. IsBackwardOf(g, fwd, Backwards(g), h)
    BY DEF IsBackward
  <1>2. ASSUME NEW n \in DOMAIN h.node, h.node[n].role = "gradient" PROVE n \in Incoming(g)
    <2>1. CASE n \in SavedBy(g)
      BY <1>1, <1>2, <2>1 DEF IsBackwardOf, Saved, Node
    <2>2. CASE n \in ReadAgain(g)
      <3>1. n \in Leaves
        BY <2>2 DEF ReadAgain, Forwards, TypeOf, EpochOf, FwdKinds
      <3>2. h.node[n].role \in {"parameter", "activation"}
        BY <1>1, <2>2, <3>1, LeavesAre DEF IsBackwardOf, ReadAgain, Forwards, Well, Whole, Fits
      <3> QED
        BY <3>2, <1>2
    <2>3. ASSUME NEW b \in Backwards(g), n = BackwardName(b) PROVE n \in Incoming(g)
      <3>1. IsBackwardNode(g, fwd, b, h.node[n]) /\ b \in DOMAIN g.node
            /\ EpochOf(b) = "bwd" /\ Whole(b, g.node[b])
        BY <1>1, <2>3 DEF IsBackwardOf, Backwards, Well
      <3>2. TypeOf(b) # "queue" /\ g.node[b].role = "gradient" /\ n = b
        BY <3>1, <2>3, <1>2 DEF IsBackwardNode, BackwardName
      <3>3. b \notin Leaves /\ "gradient" \in RolesOf(b)
        BY <3>1, <3>2 DEF EpochOf, Whole, Fits
      <3>4. b[1] = "gradient"
        BY <3>3 DEF RolesOf, OpArity, Leaves
      <3> QED
        BY <3>2, <3>3, <3>4 DEF Incoming, OneOf
    <2> QED
      BY <1>1, <2>1, <2>2, <2>3 DEF IsBackwardOf
  <1>3. ASSUME NEW n \in Incoming(g) PROVE n \in DOMAIN h.node /\ h.node[n].role = "gradient"
    <2>1. n \in Backwards(g) /\ n \notin Leaves /\ n[1] = "gradient" /\ Whole(n, g.node[n])
      BY DEF Incoming, OneOf, Backwards, Well
    <2>2. TypeOf(n) = "input" /\ RolesOf(n) = {"gradient"}
      BY <2>1 DEF TypeOf, RolesOf, Leaves
    <2>3. BackwardName(n) = n
      BY <2>2 DEF BackwardName
    <2>4. n \in DOMAIN h.node /\ IsBackwardNode(g, fwd, n, h.node[n])
      BY <1>1, <2>1, <2>3 DEF IsBackwardOf
    <2> QED
      BY <2>1, <2>2, <2>4 DEF IsBackwardNode, Whole, Fits
  <1> QED
    BY <1>2, <1>3

\* The backward program lists no input twice.
LEMMA BackwardInputsDiffer ==
    ASSUME NEW m, IsTraced(m), NEW g, Well(g), Listed(m, g), NEW fwd, IsForward(g, fwd),
           NEW h, IsBackward(g, fwd, h)
    PROVE  Distinct(h.inputs)
  <1> DEFINE own == OfEpoch(g, OrderedModuleInputs(g), "bwd")
             saved == Named(h, fwd.outputs)
             again == Named(h, OfEpoch(g, OrderedModuleInputs(g), "fwd"))
             both == own \o saved
  <1>1. /\ h.inputs = both \o again
        /\ own \in Seq(DOMAIN h.node) /\ saved \in Seq(DOMAIN h.node)
        /\ again \in Seq(DOMAIN h.node) /\ Distinct(own) /\ Distinct(again)
        /\ ToSet(own) = {x \in ToSet(g.inputs) : Read(g, x) /\ EpochOf(x) = "bwd"}
        /\ ToSet(saved) = ToSet(fwd.outputs) \cap DOMAIN h.node
        /\ ToSet(again) = {x \in ToSet(g.inputs) : Read(g, x) /\ EpochOf(x) = "fwd"}
                          \cap DOMAIN h.node
    BY BackwardInputsAre
  <1>2. PICK names \in Seq(Intermediates(g)) : fwd.outputs = g.outputs \o names
           /\ Distinct(names) /\ ToSet(names) = Intermediates(g)
    BY DEF IsForward
  <1>3. g.outputs \in Seq(DOMAIN g.node) /\ Distinct(g.outputs) /\ ToSet(g.outputs) = OutputNodes(m)
    BY OutputsAre DEF Well, IsGraph, Listed, OutputNodes
  <1>4. \A x \in OutputNodes(m) \cup Intermediates(g) : ~OneOf(x, {"gradient"}) /\ x \notin Leaves
    <2>1. ASSUME NEW x \in OutputNodes(m) PROVE ~OneOf(x, {"gradient"}) /\ x \notin Leaves
      <3>1. PICK i \in DOMAIN m.outs : x = <<"output", m.outs[i]>>
        BY DEF OutputNodes, ModuleOutputs, ToSet, Output
      <3> QED
        BY <3>1, NotLeaves, KindsDiffer
    <2>2. ASSUME NEW x \in Intermediates(g) PROVE ~OneOf(x, {"gradient"}) /\ x \notin Leaves
      <3>1. PICK n : x = <<"intermediate", n>>
        BY DEF Intermediates
      <3> QED
        BY <3>1, NotLeaves, KindsDiffer
    <2> QED
      BY <2>1, <2>2
  <1>5. ToSet(fwd.outputs) = OutputNodes(m) \cup Intermediates(g)
    BY ForwardOutputsAre
  <1>6. Distinct(fwd.outputs)
    <2> DEFINE N == DOMAIN g.node \cup Intermediates(g)
               outs == g.outputs
    <2>1. outs \in Seq(N) /\ names \in Seq(N)
      BY <1>2, <1>3, Retyped, Entries
    <2>2. ToSet(outs) \cap ToSet(names) = {}
      <3>1. ToSet(outs) \subseteq DOMAIN g.node
        BY <1>3, Entries
      <3>2. Intermediates(g) \cap DOMAIN g.node = {}
        BY IntermediatesAreNew DEF Intermediates
      <3> QED
        BY <3>1, <3>2, <1>2
    <2>3. Distinct(outs) /\ Distinct(names)
      BY <1>2, <1>3
    <2> HIDE DEF outs, N
    <2>4. Distinct(outs \o names)
      BY <2>1, <2>2, <2>3, Joined
    <2> QED
      BY <2>4, <1>2 DEF outs
  <1>7. Distinct(saved)
    BY <1>6, OnlyDistinct DEF Named, IsForward, IsGraph
  <1>8. \A x \in ToSet(g.inputs) : /\ x \in Leaves \/ OneOf(x, {"gradient"})
                                   /\ EpochOf(x) = "fwd" <=> x \in Leaves
                                   /\ EpochOf(x) = "bwd" <=> x \notin Leaves
    <2> SUFFICES ASSUME NEW x \in ToSet(g.inputs)
                 PROVE  /\ x \in Leaves \/ OneOf(x, {"gradient"})
                        /\ EpochOf(x) = "fwd" <=> x \in Leaves
                        /\ EpochOf(x) = "bwd" <=> x \notin Leaves
      OBVIOUS
    <2>1. x \in Leaves \/ OneOf(x, {"gradient"})
      BY DEF Listed, Leaves
    <2> QED
      BY <2>1 DEF OneOf, EpochOf, FwdKinds, OptKinds
  <1> HIDE DEF own, saved, again
  <1>9. both \in Seq(DOMAIN h.node) /\ Distinct(both)
        /\ ToSet(both) = ToSet(own) \cup ToSet(saved)
    <2>1. ToSet(own) \cap ToSet(saved) = {}
      BY <1>1, <1>4, <1>5, <1>8
    <2> QED
      BY <2>1, <1>1, <1>7, Joined
  <1>10. ToSet(both) \cap ToSet(again) = {}
    BY <1>1, <1>4, <1>5, <1>8, <1>9
  <1> HIDE DEF both
  <1> QED
    BY <1>1, <1>9, <1>10, Joined

\* The gradient inputs are the gradients that are read.
LEMMA GradientInputsAre ==
    ASSUME IsTraced(model), NEW g, Well(g), Listed(model, g), IsForward(g, Forward),
           IsBackward(g, Forward, Backward)
    PROVE  /\ GradientInputs \in Seq(DOMAIN Backward.node) /\ Distinct(GradientInputs)
           /\ ToSet(GradientInputs) = {n \in Incoming(g) : Read(g, n)}
  <1> DEFINE h == Backward
             fwd == Forward
             R == ToSet(OfRole(h, "gradient"))
             own == OfEpoch(g, OrderedModuleInputs(g), "bwd")
             saved == Named(h, fwd.outputs)
             again == Named(h, OfEpoch(g, OrderedModuleInputs(g), "fwd"))
             both == own \o saved
  <1>1. IsGraph(h) /\ h.inputs \in Seq(DOMAIN h.node)
    BY DEF IsBackward, IsBackwardOf, IsGraph
  <1>2. R = Incoming(g)
    <2>1. R = {n \in DOMAIN h.node : h.node[n].role = "gradient"}
      BY <1>1, OfRoleIs
    <2> QED
      BY <2>1, GradientRoles
  <1>3. Distinct(h.inputs)
    BY BackwardInputsDiffer
  <1>4. GradientInputs = Only(h.inputs, R)
    BY DEF GradientInputs
  <1>5. /\ h.inputs = both \o again
        /\ own \in Seq(DOMAIN h.node) /\ saved \in Seq(DOMAIN h.node)
        /\ again \in Seq(DOMAIN h.node)
        /\ ToSet(own) = {x \in ToSet(g.inputs) : Read(g, x) /\ EpochOf(x) = "bwd"}
        /\ ToSet(saved) = ToSet(fwd.outputs) \cap DOMAIN h.node
        /\ ToSet(again) = {x \in ToSet(g.inputs) : Read(g, x) /\ EpochOf(x) = "fwd"}
                          \cap DOMAIN h.node
    BY BackwardInputsAre
  <1> HIDE DEF own, saved, again, R
  <1>6. ToSet(h.inputs) = ToSet(own) \cup ToSet(saved) \cup ToSet(again)
    <2>1. both \in Seq(DOMAIN h.node) /\ ToSet(both) = ToSet(own) \cup ToSet(saved)
      BY <1>5, Joined
    <2> HIDE DEF both
    <2>2. ToSet(both \o again) = ToSet(both) \cup ToSet(again)
      BY <1>5, <2>1, Joined
    <2> QED
      BY <2>1, <2>2, <1>5
  <1>7. \A n \in Incoming(g) : /\ n \in DOMAIN g.node /\ EpochOf(n) = "bwd" /\ n \in ToSet(g.inputs)
                               /\ n \notin ToSet(fwd.outputs)
    <2> SUFFICES ASSUME NEW n \in Incoming(g)
                 PROVE  /\ n \in DOMAIN g.node /\ EpochOf(n) = "bwd" /\ n \in ToSet(g.inputs)
                        /\ n \notin ToSet(fwd.outputs)
      OBVIOUS
    <2>1. n \in DOMAIN g.node /\ EpochOf(n) = "bwd" /\ OneOf(n, {"gradient"})
      BY DEF Incoming, Backwards
    <2>2. n \notin DOMAIN fwd.node
      <3>1. n \notin Intermediates(g)
        BY <2>1, IntermediatesAreNew DEF Intermediates
      <3> QED
        BY <3>1, <2>1 DEF IsForward, Forwards
    <2>3. ToSet(fwd.outputs) \subseteq DOMAIN fwd.node
      BY Entries DEF IsForward, IsGraph
    <2> QED
      BY <2>1, <2>2, <2>3 DEF Listed
  <1>8. ToSet(h.inputs) \cap R = {n \in Incoming(g) : Read(g, n)}
    BY <1>2, <1>5, <1>6, <1>7
  <1> HIDE DEF h
  <1>9. Only(h.inputs, R) \in Seq(DOMAIN h.node) /\ ToSet(Only(h.inputs, R)) = ToSet(h.inputs) \cap R
    BY <1>1, OnlyMembers
  <1>10. Distinct(Only(h.inputs, R))
    BY <1>1, <1>3, OnlyDistinct
  <1> QED
    BY <1>4, <1>8, <1>9, <1>10 DEF h

\* There is one for each output that has a gradient.
LEMMA GradientSlots ==
    ASSUME IsTraced(model), NEW g, Well(g), Listed(model, g), IsForward(g, Forward),
           IsBackward(g, Forward, Backward)
    PROVE  /\ Len(GradientInputs) <= Len(model.outs)
           /\ AllRead(g) /\ (\A o \in OutputNodes(model) : <<"gradient", o>> \in DOMAIN g.node) =>
                 Len(GradientInputs) = Len(model.outs)
  <1> DEFINE outs == ModuleOutputs(model)
             names == [i \in DOMAIN outs |-> <<"gradient", outs[i]>>]
             G == {<<"gradient", o>> : o \in OutputNodes(model)}
             inputs == GradientInputs
  <1>1. outs \in Seq(OutputNodes(model)) /\ Distinct(outs) /\ Len(outs) = Len(model.outs)
        /\ ToSet(outs) = OutputNodes(model)
    BY OutputsAre DEF OutputNodes
  <1>2. IsNaming(outs, "gradient", names)
    BY DEF IsNaming
  <1>3. inputs \in Seq(DOMAIN Backward.node) /\ Distinct(inputs)
        /\ ToSet(inputs) = {n \in Incoming(g) : Read(g, n)}
    BY GradientInputsAre
  <1> HIDE DEF outs, names, inputs
  <1>4. names \in Seq(G) /\ Distinct(names) /\ ToSet(names) = G /\ Len(names) = Len(outs)
    BY <1>1, <1>2, NamesOf
  <1>5. Incoming(g) \subseteq G
    BY DEF Incoming, Backwards, Listed
  <1> HIDE DEF G
  <1>6. inputs \in Seq(G)
    BY <1>3, <1>5, Retyped
  <1>7. Len(inputs) <= Len(names)
    BY <1>3, <1>4, <1>5, <1>6, NoLonger
  <1>8. ASSUME AllRead(g), \A o \in OutputNodes(model) : <<"gradient", o>> \in DOMAIN g.node
        PROVE  Len(names) <= Len(inputs)
    <2>1. G \subseteq ToSet(inputs)
      <3> SUFFICES ASSUME NEW o \in OutputNodes(model) PROVE <<"gradient", o>> \in ToSet(inputs)
        BY DEF G
      <3> DEFINE n == <<"gradient", o>>
      <3>1. n \in DOMAIN g.node /\ OneOf(n, {"gradient"}) /\ OneOf(n, GradKinds)
        BY <1>8, KindsDiffer DEF GradKinds
      <3>2. EpochOf(n) = "bwd"
        BY <3>1, NamesAre
      <3> HIDE DEF n
      <3>3. n \in Incoming(g) /\ Read(g, n)
        BY <3>1, <3>2, <1>8 DEF Incoming, Backwards, AllRead
      <3> QED
        BY <3>3, <1>3 DEF n
    <2> QED
      BY <2>1, <1>4, <1>6, NoLonger
  <1>9. Len(inputs) \in Nat /\ Len(names) \in Nat
    BY <1>4, <1>6
  <1> QED
    BY <1>1, <1>4, <1>7, <1>8, <1>9 DEF inputs

-----------------------------------------------------------------------------
\* What the programs and CompiledModel leave each other.

RunsInv ==
    /\ pool \in [Leaves -> Residues]
    /\ DOMAIN results \subseteq DOMAIN programs
    /\ stage \notin Running \ {"compiled"} => DOMAIN results = {}
    /\ stage \in {"called", "tied", "differentiated", "stepped"} => "Forward" \in DOMAIN results
    /\ stage \in {"differentiated", "stepped"} => "Backward" \in DOMAIN results
    /\ "Forward" \in DOMAIN results =>
          results["Forward"] \in [DOMAIN Forward.outputs -> Residues]
    /\ "Backward" \in DOMAIN results =>
          results["Backward"] \in [DOMAIN Backward.outputs -> Residues]
    /\ stage = "called" => gradient_inputs = [i \in DOMAIN GradientInputs |-> None]
    /\ stage = "tied" => gradient_inputs \in Seq(Residues)

StepInv == SplitInv /\ RunsInv

\* The graph of a program that was extracted.
LEMMA RunningGraph ==
    ASSUME SplitInv, stage \in Running
    PROVE  /\ IsTraced(model) /\ Well(graph) /\ Listed(model, graph)
           /\ IsTrainable(model, graph, loopback)
           /\ IsForward(graph, Forward) /\ IsBackward(graph, Forward, Backward)
           /\ Wired(Forward) /\ Wired(Backward)
           /\ "Optimizer" \in DOMAIN programs => IsOptimizer(graph, loopback, Optimizer)
                                                 /\ Wired(Optimizer)
           /\ {"Forward", "Backward"} \subseteq DOMAIN programs
  <1>1. AutogradInv /\ ProgramsInv
    BY DEF SplitInv
  <1>2. stage \notin Early \cup {"optimizer"} /\ stage # "trace"
    BY DEF Running, Early
  <1>3. /\ IsTraced(model) /\ Well(graph) /\ Listed(model, graph)
        /\ IsTrainable(model, graph, loopback)
    BY <1>1, <1>2 DEF AutogradInv
  <1>4. /\ {"Forward", "Backward"} \subseteq DOMAIN programs
        /\ IsForward(graph, Forward) /\ IsBackward(graph, Forward, Backward)
        /\ "Optimizer" \in DOMAIN programs => IsOptimizer(graph, loopback, Optimizer)
    BY <1>1 DEF ProgramsInv, Forward, Backward, Optimizer
  <1>5. Wired(Forward)
    BY <1>3, <1>4, ForwardIsWired
  <1>6. Wired(Backward)
    BY <1>3, <1>4, BackwardIsWired
  <1>7. "Optimizer" \in DOMAIN programs => Wired(Optimizer)
    BY <1>3, <1>4, OptimizerIsWired DEF IsTrainable
  <1> QED
    BY <1>3, <1>4, <1>5, <1>6, <1>7

\* A call of a program returns an element for each of its outputs, or is refused.
LEMMA RunIs ==
    ASSUME NEW p, Wired(programs[p]), pool \in [Leaves -> Residues],
           NEW activations \in Seq(Residues), NEW to, RunProgram(p, activations, to)
    PROVE  \/ stage' = "refused" /\ results' = results
           \/ /\ stage' = to /\ DOMAIN results' = DOMAIN results \cup {p}
              /\ results'[p] \in [DOMAIN programs[p].outputs -> Residues]
              /\ \A q \in DOMAIN results \ {p} : results'[q] = results[q]
              /\ results'[p] = OutputsOf(programs[p], Actuals(programs[p], activations))
              /\ Len(Actuals(programs[p], activations)) = Len(Formals(programs[p]))
  <1> DEFINE actuals == Actuals(programs[p], activations)
             out == OutputsOf(programs[p], actuals)
  <1>1. IsGraph(programs[p])
    BY DEF Wired
  <1>2. actuals \in Seq(Residues)
    BY <1>1, ActualsAre
  <1>3. CASE Len(actuals) = Len(Formals(programs[p]))
    <2>1. stage' = to /\ results' = With(results, p, out)
      BY <1>3 DEF RunProgram
    <2> HIDE DEF actuals
    <2>2. out \in [DOMAIN programs[p].outputs -> Residues]
      BY <1>2, <1>3, OutputsOfAre
    <2> HIDE DEF out
    <2>3. /\ DOMAIN results' = DOMAIN results \cup {p} /\ results'[p] = out
          /\ \A q \in DOMAIN results \ {p} : results'[q] = results[q]
      BY <2>1 DEF With
    <2> QED
      BY <2>1, <2>2, <2>3, <1>3 DEF out, actuals
  <1>4. CASE Len(actuals) # Len(Formals(programs[p]))
    BY <1>4 DEF RunProgram
  <1> QED
    BY <1>3, <1>4

\* What is picked of a program's results are residues, and there is one for an output
\* that the program has.
LEMMA PickedAre ==
    ASSUME NEW g, NEW T, g.outputs \in Seq(T), NEW values \in [DOMAIN g.outputs -> Residues],
           NEW chosen
    PROVE  /\ Picked(g, values, chosen) \in Seq(Residues)
           /\ ToSet(g.outputs) \cap chosen # {} => Picked(g, values, chosen)[1] \in Residues
  <1> DEFINE ids == [i \in DOMAIN g.outputs |-> i]
             C == {i \in DOMAIN g.outputs : g.outputs[i] \in chosen}
             at == Only(ids, C)
  <1>1. /\ DOMAIN g.outputs = 1..Len(g.outputs) /\ Len(g.outputs) \in Nat
    BY Entries
  <1>2. ids \in Seq(DOMAIN g.outputs) /\ ToSet(ids) = DOMAIN g.outputs
    <2>1. ids \in [1..Len(g.outputs) -> DOMAIN g.outputs]
      BY <1>1
    <2>2. DOMAIN ids = DOMAIN g.outputs /\ \A i \in DOMAIN g.outputs : ids[i] = i
      OBVIOUS
    <2>3. ids \in Seq(DOMAIN g.outputs)
      BY <2>1, <1>1
    <2> HIDE DEF ids
    <2> QED
      BY <2>2, <2>3 DEF ToSet
  <1>3. Picked(g, values, chosen) = [i \in DOMAIN at |-> values[at[i]]]
    BY DEF Picked
  <1> HIDE DEF ids
  <1>4. at \in Seq(DOMAIN g.outputs) /\ ToSet(at) = ToSet(ids) \cap C
    BY <1>2, OnlyMembers
  <1> HIDE DEF at
  <1>5. DOMAIN at = 1..Len(at) /\ Len(at) \in Nat /\ ((at = <<>>) <=> (ToSet(at) = {}))
    BY <1>4, Entries
  <1>6. [i \in DOMAIN at |-> values[at[i]]] \in [1..Len(at) -> Residues]
    BY <1>4, <1>5
  <1>7. ToSet(g.outputs) \cap chosen # {} => 1 \in DOMAIN at
    <2> SUFFICES ASSUME ToSet(g.outputs) \cap chosen # {} PROVE 1 \in DOMAIN at
      OBVIOUS
    <2>1. C # {}
      BY DEF ToSet
    <2>2. at # <<>>
      BY <2>1, <1>2, <1>4, <1>5
    <2>3. Len(at) # 0
      BY <2>2, <1>4, <1>5
    <2> QED
      BY <2>3, <1>5
  <1>8. [i \in DOMAIN at |-> values[at[i]]] \in Seq(Residues)
    BY <1>5, <1>6
  <1> QED
    BY <1>3, <1>5, <1>6, <1>7, <1>8

\* The activations the forward program reads are those of the module.
LEMMA ForwardInputsAre ==
    ASSUME NEW m, NEW g, Well(g), Listed(m, g), NEW fwd, IsForward(g, fwd)
    PROVE  fwd.inputs \in Seq(DOMAIN fwd.node) /\ ToSet(fwd.inputs) \subseteq ToSet(Activations)
  <1>1. fwd.inputs \in Seq(DOMAIN fwd.node)
    BY DEF IsForward, IsGraph
  <1>2. OrderedModuleInputs(g) \in Seq(DOMAIN g.node)
        /\ ToSet(OrderedModuleInputs(g)) = {n \in ToSet(g.inputs) : Read(g, n)}
    BY OrderedInputsAre DEF Well
  <1>3. ToSet(fwd.inputs) = {n \in ToSet(OrderedModuleInputs(g)) : EpochOf(n) = "fwd"}
    BY <1>2, OfEpochIs DEF IsForward
  <1>4. \A n : OneOf(n, {"gradient"}) => EpochOf(n) # "fwd"
    BY DEF OneOf, EpochOf, FwdKinds
  <1> QED
    BY <1>1, <1>2, <1>3, <1>4 DEF Listed

\* The elements of module inputs.
LEMMA PointsAre ==
    ASSUME NEW T, NEW s \in Seq(T), ToSet(s) \subseteq ToSet(Activations)
    PROVE  [i \in DOMAIN s |-> Point[s[i]]] \in Seq(Residues)
  <1>1. DOMAIN s = 1..Len(s) /\ Len(s) \in Nat /\ \A i \in DOMAIN s : s[i] \in Leaves
    BY Entries DEF Leaves
  <1>2. Point \in [Leaves -> Residues]
    BY StepAssumption DEF Residues
  <1>3. [i \in DOMAIN s |-> Point[s[i]]] \in [1..Len(s) -> Residues]
    BY <1>1, <1>2
  <1> QED
    BY <1>1, <1>3

\* The stages of the compilation come before the first call.
LEMMA CompileStages ==
    SplitNext => stage \notin Running /\ stage' \notin Running \ {"compiled"}
  <1> SUFFICES ASSUME SplitNext
               PROVE  stage \notin Running /\ stage' \notin Running \ {"compiled"}
    OBVIOUS
  <1>1. CASE AutogradNext
    BY <1>1, AutogradStages DEF Building, Running
  <1>2. CASE RemoveNop
    BY <1>2 DEF RemoveNop, Running
  <1>3. CASE ExtractForward \/ ExtractBackward \/ ExtractOptimizer
    BY <1>3 DEF ExtractForward, ExtractBackward, ExtractOptimizer, Extract, Running
  <1> QED
    BY <1>1, <1>2, <1>3 DEF SplitNext

\* The start of a step.
LEMMA StepStarts == Init => StepInv
  <1> SUFFICES ASSUME Init PROVE StepInv
    OBVIOUS
  <1>1. SplitInv
    BY SplitStarts DEF Init
  <1>2. stage = "trace" /\ DOMAIN results = {} /\ pool = Point
    BY DEF Init, SplitInit, AutogradInit
  <1>3. RunsInv
    BY <1>2, StepAssumption DEF RunsInv, Residues
  <1> QED
    BY <1>1, <1>3 DEF StepInv

\* The compilation calls no program.
LEMMA CompileKeeps ==
    ASSUME StepInv, Compile
    PROVE  StepInv'
  <1>1. SplitInv /\ RunsInv /\ SplitNext /\ UNCHANGED <<results, gradient_inputs, pool>>
    BY DEF StepInv, Compile
  <1>2. SplitInv'
    BY <1>1, SplitKeeps
  <1>3. stage \notin Running /\ stage' \notin Running \ {"compiled"}
    BY <1>1, CompileStages
  <1>4. DOMAIN results = {}
    BY <1>1, <1>3 DEF RunsInv
  <1>5. RunsInv'
    BY <1>1, <1>3, <1>4 DEF RunsInv, Running
  <1> QED
    BY <1>2, <1>5 DEF StepInv

\* The call of the forward program.
LEMMA CallKeeps ==
    ASSUME StepInv, Call
    PROVE  StepInv'
  <1> DEFINE activations == [i \in DOMAIN Forward.inputs |-> Point[Forward.inputs[i]]]
  <1>1. /\ SplitInv /\ RunsInv /\ stage = "compiled" /\ RunProgram("Forward", activations, "called")
        /\ gradient_inputs' = [i \in DOMAIN GradientInputs |-> None]
        /\ UNCHANGED <<model, todo, graph, requires_grad, gradients, loopback, programs, pool>>
    BY DEF StepInv, Call
  <1>2. Well(graph) /\ Listed(model, graph) /\ IsForward(graph, Forward) /\ Wired(Forward)
        /\ "Forward" \in DOMAIN programs
    BY <1>1, RunningGraph DEF Running
  <1>3. activations \in Seq(Residues)
    BY <1>2, ForwardInputsAre, PointsAre
  <1> HIDE DEF activations
  <1>4. DOMAIN results = {}
    BY <1>1 DEF RunsInv, Running
  <1>5. pool \in [Leaves -> Residues] /\ Wired(programs["Forward"])
    BY <1>1, <1>2 DEF RunsInv, Forward
  <1>6. \/ stage' = "refused" /\ results' = results
        \/ /\ stage' = "called" /\ DOMAIN results' = DOMAIN results \cup {"Forward"}
           /\ results'["Forward"] \in [DOMAIN programs["Forward"].outputs -> Residues]
    BY <1>1, <1>3, <1>5, RunIs
  <1>7. SplitInv'
    BY <1>1, <1>6, SplitRests DEF Running
  <1>8. Forward' = Forward /\ Backward' = Backward /\ GradientInputs' = GradientInputs
    BY <1>1 DEF Forward, Backward, GradientInputs
  <1>9. RunsInv'
    <2>1. CASE stage' = "refused" /\ results' = results
      BY <1>1, <1>4, <1>5, <2>1 DEF RunsInv, Running
    <2>2. CASE /\ stage' = "called" /\ DOMAIN results' = {"Forward"}
               /\ results'["Forward"] \in [DOMAIN Forward.outputs -> Residues]
      BY <1>1, <1>2, <1>5, <1>8, <2>2 DEF RunsInv, Running
    <2> QED
      BY <1>4, <1>6, <2>1, <2>2 DEF Forward
  <1> QED
    BY <1>7, <1>9 DEF StepInv

\* The gradients that torch's hooks leave.
LEMMA LossKeeps ==
    ASSUME StepInv, LossBackward
    PROVE  StepInv'
  <1>1. /\ SplitInv /\ RunsInv /\ stage = "called"
        /\ IF Len(Externals) > Len(gradient_inputs)
           THEN stage' = "too many gradients" /\ UNCHANGED gradient_inputs
           ELSE /\ gradient_inputs' = [i \in DOMAIN gradient_inputs |->
                                         IF i \in DOMAIN Externals THEN Seed[i] ELSE None]
                /\ stage' = "tied"
        /\ UNCHANGED <<model, todo, graph, requires_grad, gradients, loopback, programs,
                       results, pool>>
    BY DEF StepInv, LossBackward
  <1>2. /\ IsTraced(model) /\ Well(graph) /\ Listed(model, graph)
        /\ IsForward(graph, Forward) /\ IsBackward(graph, Forward, Backward)
    BY <1>1, RunningGraph DEF Running
  <1>3. Forward' = Forward /\ Backward' = Backward /\ GradientInputs' = GradientInputs
    BY <1>1 DEF Forward, Backward, GradientInputs
  <1>4. CASE stage' = "too many gradients"
    <2>1. SplitInv'
      BY <1>1, <1>4, SplitRests DEF Running
    <2>2. RunsInv'
      BY <1>1, <1>3, <1>4 DEF RunsInv, Running
    <2> QED
      BY <2>1, <2>2 DEF StepInv
  <1>5. CASE /\ stage' = "tied"
             /\ gradient_inputs' = [i \in DOMAIN gradient_inputs |->
                                      IF i \in DOMAIN Externals THEN Seed[i] ELSE None]
    <2>1. SplitInv'
      BY <1>1, <1>5, SplitRests DEF Running
    <2>2. Externals \in Seq(DOMAIN Forward.node) /\ Len(Externals) = Len(model.outs)
          /\ Len(model.outs) <= MaxModuleOutputs
      BY <1>2, ExternalsAre DEF IsTraced
    <2>3. GradientInputs \in Seq(DOMAIN Backward.node) /\ Len(GradientInputs) <= Len(model.outs)
      BY <1>2, GradientInputsAre, GradientSlots
    <2> DEFINE given == gradient_inputs
               outs == Externals
               slots == GradientInputs
    <2>4. given = [i \in DOMAIN slots |-> None]
      BY <1>1 DEF RunsInv
    <2>5. gradient_inputs' = [i \in DOMAIN given |-> IF i \in DOMAIN outs THEN Seed[i] ELSE None]
      BY <1>5
    <2> HIDE DEF given, outs, slots
    <2>6. DOMAIN given = 1..Len(slots) /\ DOMAIN outs = 1..Len(outs)
          /\ Len(slots) \in Nat /\ Len(outs) \in Nat
      BY <2>2, <2>3, <2>4 DEF outs, slots
    <2>7. Len(slots) <= Len(outs) /\ Len(outs) <= MaxModuleOutputs
      BY <2>2, <2>3, <2>6 DEF outs, slots
    <2>8. \A i \in 1..Len(slots) : i \in DOMAIN outs /\ Seed[i] \in Residues
      <3>1. MaxModuleOutputs \in Nat /\ Seed \in [1..MaxModuleOutputs -> Residues]
        BY StepAssumption, AutogradAssumption DEF Residues
      <3> QED
        BY <3>1, <2>6, <2>7
    <2>9. gradient_inputs' \in [1..Len(slots) -> Residues]
      BY <2>5, <2>6, <2>8
    <2>10. gradient_inputs' \in Seq(Residues)
      BY <2>6, <2>9
    <2>11. RunsInv'
      BY <1>1, <1>3, <1>5, <2>10 DEF RunsInv, Running
    <2> QED
      BY <2>1, <2>11 DEF StepInv
  <1> QED
    BY <1>1, <1>4, <1>5

\* What the backward program is called with.
LEMMA ActivationsAre ==
    ASSUME StepInv, stage = "tied"
    PROVE  BackwardActivations \in Seq(Residues)
  <1> DEFINE again == Only(Forward.inputs, ToSet(Backward.inputs))
             kept == Picked(Forward, results["Forward"],
                            {o \in DOMAIN Forward.node : IsIntermediate(Forward, o)})
             points == [i \in DOMAIN again |-> Point[again[i]]]
  <1>1. /\ SplitInv /\ gradient_inputs \in Seq(Residues)
        /\ results["Forward"] \in [DOMAIN Forward.outputs -> Residues]
    BY DEF StepInv, RunsInv
  <1>2. Well(graph) /\ Listed(model, graph) /\ IsForward(graph, Forward)
    BY <1>1, RunningGraph DEF Running
  <1>3. Forward.inputs \in Seq(DOMAIN Forward.node)
        /\ ToSet(Forward.inputs) \subseteq ToSet(Activations)
    BY <1>2, ForwardInputsAre
  <1>4. again \in Seq(DOMAIN Forward.node) /\ ToSet(again) \subseteq ToSet(Activations)
    BY <1>3, OnlyMembers
  <1>5. points \in Seq(Residues)
    <2> HIDE DEF again
    <2> QED
      BY <1>4, PointsAre
  <1>6. kept \in Seq(Residues)
    BY <1>1, <1>2, PickedAre DEF IsForward, IsGraph
  <1>7. BackwardActivations = (gradient_inputs \o kept) \o points
    BY DEF BackwardActivations
  <1> HIDE DEF again, kept, points
  <1>8. gradient_inputs \o kept \in Seq(Residues)
    BY <1>1, <1>6, Joined
  <1> QED
    BY <1>5, <1>7, <1>8, Joined

\* The call of the backward program.
LEMMA BackwardKeeps ==
    ASSUME StepInv, RunBackward
    PROVE  StepInv'
  <1> DEFINE activations == BackwardActivations
  <1>1. /\ SplitInv /\ RunsInv /\ stage = "tied"
        /\ RunProgram("Backward", activations, "differentiated")
        /\ UNCHANGED <<model, todo, graph, requires_grad, gradients, loopback, programs,
                       gradient_inputs, pool>>
    BY DEF StepInv, RunBackward
  <1>2. Wired(Backward) /\ {"Forward", "Backward"} \subseteq DOMAIN programs
    BY <1>1, RunningGraph DEF Running
  <1>3. activations \in Seq(Residues)
    BY <1>1, ActivationsAre
  <1> HIDE DEF activations
  <1>4. pool \in [Leaves -> Residues] /\ Wired(programs["Backward"])
    BY <1>1, <1>2 DEF RunsInv, Backward
  <1>5. \/ stage' = "refused" /\ results' = results
        \/ /\ stage' = "differentiated" /\ DOMAIN results' = DOMAIN results \cup {"Backward"}
           /\ results'["Backward"] \in [DOMAIN programs["Backward"].outputs -> Residues]
           /\ \A q \in DOMAIN results \ {"Backward"} : results'[q] = results[q]
    BY <1>1, <1>3, <1>4, RunIs
  <1>6. SplitInv'
    BY <1>1, <1>5, SplitRests DEF Running
  <1>7. Forward' = Forward /\ Backward' = Backward
    BY <1>1 DEF Forward, Backward
  <1>8. RunsInv'
    <2>1. CASE stage' = "refused" /\ results' = results
      BY <1>1, <1>4, <1>7, <2>1 DEF RunsInv, Running
    <2>2. CASE /\ stage' = "differentiated" /\ DOMAIN results' = DOMAIN results \cup {"Backward"}
               /\ results'["Backward"] \in [DOMAIN Backward.outputs -> Residues]
               /\ \A q \in DOMAIN results \ {"Backward"} : results'[q] = results[q]
      <3>1. "Forward" \in DOMAIN results /\ results'["Forward"] = results["Forward"]
        BY <1>1, <2>2 DEF RunsInv
      <3> QED
        BY <1>1, <1>2, <1>4, <1>7, <2>2, <3>1 DEF RunsInv, Running
    <2> QED
      BY <1>5, <2>1, <2>2 DEF Backward
  <1> QED
    BY <1>6, <1>8 DEF StepInv

\* The call of the optimizer program.
LEMMA OptimizerKeeps ==
    ASSUME StepInv, Step
    PROVE  StepInv'
  <1> DEFINE activations == results["Backward"]
  <1>1. /\ SplitInv /\ RunsInv /\ stage = "differentiated" /\ "Optimizer" \in DOMAIN programs
        /\ RunProgram("Optimizer", activations, "stepped")
        /\ pool' = IF stage' = "refused" THEN pool
                   ELSE [n \in DOMAIN pool |->
                            IF Updated(n) \in ToSet(Optimizer.outputs)
                            THEN Picked(Optimizer, results'["Optimizer"], {Updated(n)})[1]
                            ELSE pool[n]]
        /\ UNCHANGED <<model, todo, graph, requires_grad, gradients, loopback, programs,
                       gradient_inputs>>
    BY DEF StepInv, Step
  <1>2. Wired(Optimizer) /\ Wired(Backward) /\ {"Forward", "Backward"} \subseteq DOMAIN programs
    BY <1>1, RunningGraph DEF Running
  <1>3. activations \in Seq(Residues)
    <2>1. activations \in [DOMAIN Backward.outputs -> Residues]
      BY <1>1 DEF RunsInv
    <2>2. DOMAIN Backward.outputs = 1..Len(Backward.outputs) /\ Len(Backward.outputs) \in Nat
      BY <1>2 DEF Wired, IsGraph
    <2> QED
      BY <2>1, <2>2
  <1> HIDE DEF activations
  <1>4. pool \in [Leaves -> Residues] /\ Wired(programs["Optimizer"])
    BY <1>1, <1>2 DEF RunsInv, Optimizer
  <1>5. \/ stage' = "refused" /\ results' = results
        \/ /\ stage' = "stepped" /\ DOMAIN results' = DOMAIN results \cup {"Optimizer"}
           /\ results'["Optimizer"] \in [DOMAIN programs["Optimizer"].outputs -> Residues]
           /\ \A q \in DOMAIN results \ {"Optimizer"} : results'[q] = results[q]
    BY <1>1, <1>3, <1>4, RunIs
  <1>6. SplitInv'
    BY <1>1, <1>5, SplitRests DEF Running
  <1>7. Forward' = Forward /\ Backward' = Backward
    BY <1>1 DEF Forward, Backward
  <1>8. RunsInv'
    <2>1. CASE stage' = "refused" /\ results' = results
      BY <1>1, <1>4, <1>7, <2>1 DEF RunsInv, Running
    <2>2. CASE /\ stage' = "stepped" /\ DOMAIN results' = DOMAIN results \cup {"Optimizer"}
               /\ results'["Optimizer"] \in [DOMAIN Optimizer.outputs -> Residues]
               /\ \A q \in DOMAIN results \ {"Optimizer"} : results'[q] = results[q]
      <3>1. /\ "Forward" \in DOMAIN results /\ results'["Forward"] = results["Forward"]
            /\ "Backward" \in DOMAIN results /\ results'["Backward"] = results["Backward"]
        BY <1>1, <2>2 DEF RunsInv
      <3> DEFINE new == [n \in DOMAIN pool |->
                            IF Updated(n) \in ToSet(Optimizer.outputs)
                            THEN Picked(Optimizer, results'["Optimizer"], {Updated(n)})[1]
                            ELSE pool[n]]
      <3>2. pool' = new
        BY <1>1, <2>2
      <3>3. \A n : Updated(n) \in ToSet(Optimizer.outputs) =>
               Picked(Optimizer, results'["Optimizer"], {Updated(n)})[1] \in Residues
        <4>1. Optimizer.outputs \in Seq(DOMAIN Optimizer.node)
          BY <1>2 DEF Wired, IsGraph
        <4> QED
          BY <4>1, <2>2, PickedAre
      <3>4. pool' \in [Leaves -> Residues]
        BY <1>4, <3>2, <3>3
      <3> HIDE DEF new
      <3> QED
        BY <1>1, <1>2, <1>7, <2>2, <3>1, <3>4 DEF RunsInv, Running
    <2> QED
      BY <1>5, <2>1, <2>2 DEF Optimizer
  <1> QED
    BY <1>6, <1>8 DEF StepInv

\* Every step keeps the invariant.
LEMMA StepKeeps == StepInv /\ [Next]_stepVars => StepInv'
  <1> SUFFICES ASSUME StepInv, [Next]_stepVars PROVE StepInv'
    OBVIOUS
  <1>1. CASE UNCHANGED stepVars
    BY <1>1 DEF stepVars, splitVars, autogradVars, StepInv, SplitInv, AutogradInv, ProgramsInv,
       RunsInv, Forward, Backward, GradientInputs
  <1>2. CASE Finished
    BY <1>1, <1>2 DEF Finished
  <1> QED
    BY <1>1, <1>2, CompileKeeps, CallKeeps, LossKeeps, BackwardKeeps, OptimizerKeeps DEF Next

\* At every point of a training step the invariant holds.
THEOREM StepIsWhole == Spec => []StepInv
  BY StepStarts, StepKeeps, PTL DEF Spec

-----------------------------------------------------------------------------
\* Type correctness.

\* A graph lists its nodes once and names none that is gone.
LEMMA GraphIsListed ==
    ASSUME NEW g, IsGraph(g)
    PROVE  /\ Len(g.nodes) = Cardinality(DOMAIN g.node) /\ ToSet(g.nodes) = DOMAIN g.node
           /\ ToSet(g.inputs) \cup ToSet(g.outputs) \subseteq DOMAIN g.node
           /\ \A n \in DOMAIN g.node : ToSet(g.node[n].ins) \subseteq DOMAIN g.node
  <1>1. /\ g.nodes \in Seq(DOMAIN g.node) /\ ToSet(g.nodes) = DOMAIN g.node /\ Distinct(g.nodes)
        /\ g.inputs \in Seq(DOMAIN g.node) /\ g.outputs \in Seq(DOMAIN g.node)
        /\ \A n \in DOMAIN g.node : g.node[n].ins \in Seq(DOMAIN g.node)
    BY DEF IsGraph, Records
  <1>2. Len(g.nodes) = Cardinality(DOMAIN g.node)
    BY <1>1, Counted
  <1>3. ToSet(g.inputs) \subseteq DOMAIN g.node /\ ToSet(g.outputs) \subseteq DOMAIN g.node
    BY <1>1, Entries
  <1>4. \A n \in DOMAIN g.node : ToSet(g.node[n].ins) \subseteq DOMAIN g.node
    BY <1>1, Entries
  <1> QED
    BY <1>1, <1>2, <1>3, <1>4

\* A traced module is a model.
LEMMA TracedIsModel ==
    ASSUME NEW m, IsTraced(m)
    PROVE  m \in [body : Seq([op : UnaryOps \cup BinaryOps, args : Seq(Tensors(MaxOps))]),
                  outs : Seq(Tensors(MaxOps)), trained : SUBSET Leaves,
                  optimizer : BOOLEAN, recompute : BOOLEAN]
  <1>1. /\ m.body \in Seq([op : UnaryOps \cup BinaryOps, args : Seq(Tensors(MaxOps))])
        /\ Len(m.body) <= MaxOps
    BY DEF IsTraced, IsBody
  <1>2. Len(m.body) \in Int /\ MaxOps \in Int
    BY <1>1, AutogradAssumption
  <1>3. Tensors(Len(m.body)) \subseteq Tensors(MaxOps)
    BY <1>1, <1>2, TensorsGrow
  <1>4. m.outs \in Seq(Tensors(MaxOps))
    <2>1. m.outs \in Seq(Tensors(Len(m.body)) \ Weights)
      BY DEF IsTraced
    <2>2. ToSet(m.outs) \subseteq Tensors(MaxOps)
      BY <2>1, <1>3, Entries
    <2> QED
      BY <2>1, <2>2, Retyped
  <1>5. m = [body |-> m.body, outs |-> m.outs, trained |-> m.trained,
             optimizer |-> m.optimizer, recompute |-> m.recompute]
    BY DEF IsTraced
  <1>6. m.trained \in SUBSET Leaves /\ m.optimizer \in BOOLEAN /\ m.recompute \in BOOLEAN
    BY DEF IsTraced
  <1> DEFINE b == m.body
             o == m.outs
             t == m.trained
             p == m.optimizer
             r == m.recompute
  <1> HIDE DEF b, o, t, p, r
  <1>7. [body |-> b, outs |-> o, trained |-> t, optimizer |-> p, recompute |-> r]
        \in [body : Seq([op : UnaryOps \cup BinaryOps, args : Seq(Tensors(MaxOps))]),
             outs : Seq(Tensors(MaxOps)), trained : SUBSET Leaves,
             optimizer : BOOLEAN, recompute : BOOLEAN]
    BY <1>1, <1>4, <1>6 DEF b, o, t, p, r
  <1> QED
    BY <1>5, <1>7 DEF b, o, t, p, r

\* What the optimizer loops back are parameters.
LEMMA LoopedBack ==
    ASSUME SplitInv
    PROVE  DOMAIN loopback \subseteq Weights
  <1>1. AutogradInv /\ stage \in Stages
    BY DEF SplitInv, ProgramsInv
  <1>2. CASE stage \in Early
    BY <1>1, <1>2 DEF AutogradInv
  <1>3. CASE stage = "optimizer"
    BY <1>1, <1>3 DEF AutogradInv, IsOptimizing, Updates
  <1>4. CASE stage \notin Early \cup {"optimizer"}
    BY <1>1, <1>4 DEF AutogradInv, IsTrainable, Updates
  <1> QED
    BY <1>2, <1>3, <1>4

\* The invariant gives the types.
LEMMA WholeIsTyped == StepInv => TypeOK
  <1> SUFFICES ASSUME StepInv PROVE TypeOK
    OBVIOUS
  <1>1. AutogradInv /\ ProgramsInv /\ RunsInv /\ SplitInv
    BY DEF StepInv, SplitInv
  <1>2. IsGraph(graph)
    BY <1>1 DEF AutogradInv, IsTracing, Well
  <1>3. ASSUME NEW p \in DOMAIN programs PROVE IsGraph(programs[p])
    <2>1. p \in {"Forward", "Backward", "Optimizer"}
      BY <1>1, <1>3 DEF ProgramsInv
    <2>2. CASE p = "Forward"
      BY <1>1, <1>3, <2>2 DEF ProgramsInv, IsForward
    <2>3. CASE p = "Backward"
      BY <1>1, <1>3, <2>3 DEF ProgramsInv, IsBackward, IsBackwardOf
    <2>4. CASE p = "Optimizer"
      BY <1>1, <1>3, <2>4 DEF ProgramsInv, IsOptimizer, IsOptimizerOf
    <2> QED
      BY <2>1, <2>2, <2>3, <2>4
  <1>4. \A g \in {graph} \cup {programs[p] : p \in DOMAIN programs} : IsGraph(g)
    BY <1>2, <1>3
  <1>5. \A g \in {graph} \cup {programs[p] : p \in DOMAIN programs} :
          /\ Len(g.nodes) = Cardinality(DOMAIN g.node) /\ ToSet(g.nodes) = DOMAIN g.node
          /\ ToSet(g.inputs) \cup ToSet(g.outputs) \subseteq DOMAIN g.node
          /\ \A n \in DOMAIN g.node : ToSet(g.node[n].ins) \subseteq DOMAIN g.node
    BY <1>4, GraphIsListed
  <1>6. model \in [body : Seq([op : UnaryOps \cup BinaryOps, args : Seq(Tensors(MaxOps))]),
                   outs : Seq(Tensors(MaxOps)), trained : SUBSET Leaves,
                   optimizer : BOOLEAN, recompute : BOOLEAN]
    BY <1>1, TracedIsModel DEF AutogradInv
  <1>7. stage \in Stages /\ DOMAIN programs \subseteq {"Forward", "Backward", "Optimizer"}
    BY <1>1 DEF ProgramsInv
  <1>8. requires_grad \subseteq DOMAIN gradients /\ DOMAIN loopback \subseteq Weights
    BY <1>1, LoopedBack DEF AutogradInv
  <1>9. DOMAIN results \subseteq DOMAIN programs /\ pool \in [Leaves -> 0..(Modulus - 1)]
    BY <1>1 DEF RunsInv, Residues
  <1> QED
    BY <1>5, <1>6, <1>7, <1>8, <1>9 DEF TypeOK, Stages, Building, Running

\* Every graph on the way lists each of its nodes once and names no node that is gone,
\* however many operations and outputs the module has.
THEOREM TypeCorrect == Spec => []TypeOK
  BY StepIsWhole, WholeIsTyped, PTL

-----------------------------------------------------------------------------
\* Places for the gradients.

\* Modules whose outputs all depend on something trained.
NoConstants == "constant output" \notin Awkward

\* Each of their outputs needs a gradient.
LEMMA AllDiffer ==
    ASSUME NEW m, IsTraced(m), NoConstants, NEW i \in DOMAIN m.outs
    PROVE  Differentiable(m)[m.outs[i]]
  <1>1. "constant output" \notin Kinds(m)
    BY DEF IsTraced, NoConstants
  <1> QED
    BY <1>1 DEF Kinds

\* Then each output has its gradient.
LEMMA SlotsSuffice ==
    ASSUME StepInv, NoConstants, LossBackward
    PROVE  stage' # "too many gradients"
  <1>1. SplitInv /\ RunsInv /\ stage = "called"
    BY DEF StepInv, LossBackward
  <1>2. /\ IsTraced(model) /\ Well(graph) /\ Listed(model, graph)
        /\ IsTrainable(model, graph, loopback)
        /\ IsForward(graph, Forward) /\ IsBackward(graph, Forward, Backward)
    BY <1>1, RunningGraph DEF Running
  <1>3. Len(Externals) = Len(model.outs)
    BY <1>2, ExternalsAre
  <1>4. AllRead(graph) /\ Seeded(model, graph, {})
    BY <1>2 DEF IsTrainable
  <1>5. ASSUME NEW o \in OutputNodes(model) PROVE <<"gradient", o>> \in DOMAIN graph.node
    <2>1. PICK i \in DOMAIN model.outs : o = Output(model.outs[i])
      BY DEF OutputNodes, ModuleOutputs, ToSet
    <2>2. Differentiable(model)[model.outs[i]]
      BY <1>2, AllDiffer
    <2> QED
      BY <2>1, <2>2, <1>4 DEF Seeded
  <1>6. Len(GradientInputs) = Len(model.outs)
    BY <1>2, <1>4, <1>5, GradientSlots
  <1>7. GradientInputs \in Seq(DOMAIN Backward.node)
    BY <1>2, GradientInputsAre
  <1> DEFINE slots == GradientInputs
             given == gradient_inputs
  <1>8. given = [i \in DOMAIN slots |-> None]
    BY <1>1 DEF RunsInv
  <1> HIDE DEF slots, given
  <1>9. DOMAIN slots = 1..Len(slots) /\ Len(slots) \in Nat
    <2>1. slots \in Seq(DOMAIN Backward.node)
      BY <1>7 DEF slots
    <2> QED
      BY <2>1, Entries
  <1>10. DOMAIN given = 1..Len(slots)
    BY <1>8, <1>9
  <1> DEFINE outs == Externals
  <1>11. Len(given) = Len(slots)
    BY <1>9, <1>10
  <1>13. Len(outs) = Len(slots)
    BY <1>3, <1>6 DEF slots
  <1> HIDE DEF outs
  <1>12. ~(Len(outs) > Len(given))
    BY <1>9, <1>11, <1>13
  <1> QED
    BY <1>12 DEF LossBackward, outs, given

\* Every output the user is given has a place among the gradient inputs, unless some
\* output depends on nothing that is trained.
THEOREM GradientsAlwaysHaveSlots ==
    NoConstants => (Spec => []GradientsHaveSlots)
  <1> SUFFICES ASSUME NoConstants PROVE Spec => []GradientsHaveSlots
    OBVIOUS
  <1>1. Init => GradientsHaveSlots
    BY DEF Init, SplitInit, AutogradInit, GradientsHaveSlots
  <1>2. StepInv /\ GradientsHaveSlots /\ [Next]_stepVars => GradientsHaveSlots'
    <2> SUFFICES ASSUME StepInv, GradientsHaveSlots, [Next]_stepVars PROVE GradientsHaveSlots'
      OBVIOUS
    <2>1. CASE UNCHANGED stepVars
      BY <2>1 DEF stepVars, splitVars, autogradVars, GradientsHaveSlots
    <2>2. CASE Compile
      <3>1. stage' \notin Running \ {"compiled"}
        BY <2>2, CompileStages DEF Compile
      <3> QED
        BY <3>1 DEF GradientsHaveSlots, Running
    <2>3. CASE Call \/ RunBackward \/ Step
      BY <2>3 DEF Call, RunBackward, Step, RunProgram, GradientsHaveSlots
    <2>4. CASE LossBackward
      BY <2>4, SlotsSuffice DEF GradientsHaveSlots
    <2>5. CASE Finished
      BY <2>1, <2>5 DEF Finished
    <2> QED
      BY <2>1, <2>2, <2>3, <2>4, <2>5 DEF Next
  <1> QED
    BY <1>1, <1>2, StepIsWhole, PTL DEF Spec

-----------------------------------------------------------------------------
\* What the tensors of a module are.

SourceStep(m, src) ==
    src = [t \in Tensors(Len(m.body)) |->
              IF t \in Leaves \/ m.body[t[2]].op # "Nop" THEN t
              ELSE src[m.body[t[2]].args[1]]]

\* An operation has the operands its op asks for.
LEMMA OperationReads ==
    ASSUME NEW m, IsTraced(m), NEW t \in Tensors(Len(m.body)), t \notin Leaves
    PROVE  /\ m.body[t[2]].op \in DOMAIN OpArity /\ m.body[t[2]].op # "Subtract"
           /\ Len(m.body[t[2]].args) = OpArity[m.body[t[2]].op]
           /\ m.body[t[2]].args \in Seq(Tensors(Len(m.body)))
           /\ \A p \in DOMAIN m.body[t[2]].args :
                 /\ m.body[t[2]].args[p] \in Tensors(Len(m.body))
                 /\ RankOf(m.body[t[2]].args[p]) < RankOf(t)
           /\ 1 \in DOMAIN m.body[t[2]].args
           /\ OpArity[m.body[t[2]].op] = 2 => 2 \in DOMAIN m.body[t[2]].args
  <1>1. /\ t[2] \in DOMAIN m.body /\ m.body[t[2]].args \in Seq(Tensors(Len(m.body)))
        /\ \A x \in ToSet(m.body[t[2]].args) :
              x \in Tensors(Len(m.body)) /\ RankOf(x) < RankOf(t)
    BY OperandsAre
  <1>2. IsOp(t[2], m.body[t[2]])
    BY <1>1 DEF IsTraced, IsBody
  <1>3. /\ m.body[t[2]].op \in UnaryOps \cup BinaryOps
        /\ Len(m.body[t[2]].args) = OpArity[m.body[t[2]].op]
    BY <1>2 DEF IsOp
  <1>4. m.body[t[2]].op \in {"Exp", "Nop", "Add", "Multiply"}
    BY <1>3, AutogradAssumption
  <1>5. \A p \in DOMAIN m.body[t[2]].args :
           m.body[t[2]].args[p] \in ToSet(m.body[t[2]].args)
    BY DEF ToSet
  <1>6. /\ m.body[t[2]].op \in DOMAIN OpArity /\ m.body[t[2]].op # "Subtract"
        /\ OpArity[m.body[t[2]].op] \in {1, 2}
    BY <1>4 DEF OpArity
  <1>7. /\ DOMAIN m.body[t[2]].args = 1..Len(m.body[t[2]].args)
    BY <1>1, Entries
  <1>8. 1 \in DOMAIN m.body[t[2]].args
        /\ (OpArity[m.body[t[2]].op] = 2 => 2 \in DOMAIN m.body[t[2]].args)
    BY <1>3, <1>6, <1>7
  <1> QED
    BY <1>1, <1>3, <1>5, <1>6, <1>8

\* The source of a Nop's result is that of its operand; every other tensor is its own.
LEMMA SourceIs ==
    ASSUME NEW m, IsTraced(m), NEW t \in Tensors(Len(m.body))
    PROVE  /\ Source(m)[t] \in Tensors(Len(m.body))
           /\ t \in Leaves \/ m.body[t[2]].op # "Nop" => Source(m)[t] = t
           /\ t \notin Leaves /\ m.body[t[2]].op = "Nop" =>
                 Source(m)[t] = Source(m)[m.body[t[2]].args[1]]
  <1> DEFINE D == Tensors(Len(m.body))
             own(n) == n \in Leaves \/ m.body[n[2]].op # "Nop"
             first(n) == m.body[n[2]].args[1]
             body(n, f) == IF own(n) THEN n ELSE f[first(n)]
             step == [n \in D |-> [f \in [D -> D] |-> body(n, f)]]
             r == [n \in D |-> RankOf(n)]
  <1>1. r \in [D -> Nat] /\ \A n \in D : r[n] < MaxOps + 2
    BY TensorRanks
  <1>2. MaxOps + 2 \in Nat
    BY AutogradAssumption
  <1>3. ASSUME NEW n \in D, ~own(n) PROVE first(n) \in D /\ r[first(n)] < r[n]
    BY <1>3, OperationReads
  <1> HIDE DEF r, own, first
  <1>4. \A n \in D : \A f \in [D -> D] : step[n][f] = body(n, f)
    <2> HIDE DEF D, body
    <2> QED
      OBVIOUS
  <1> HIDE DEF step, D
  <1>5. \A n \in D : \A f \in [D -> D] : step[n][f] \in D
    BY <1>3, <1>4
  <1>6. ASSUME NEW n \in D, NEW f \in [D -> D], NEW h \in [D -> D],
               \A y \in D : r[y] < r[n] => f[y] = h[y]
        PROVE  step[n][f] = step[n][h]
    BY <1>3, <1>4, <1>6
  <1>7. Ranked(D, D, r, step)
    BY <1>1, <1>2, <1>5, <1>6 DEF Ranked
  <1>8. PICK f \in [D -> D] : \A n \in D : f[n] = step[n][f]
    <2>1. t \in D
      BY DEF D
    <2>2. Computes(D, D, step)
      BY <2>1, <1>7, RankedRecursion
    <2> QED
      BY <2>2 DEF Computes
  <1>9. f = [n \in D |-> body(n, f)]
    <2>1. f = [n \in D |-> f[n]]
      OBVIOUS
    <2>2. \A n \in D : f[n] = body(n, f)
      BY <1>4, <1>8
    <2> HIDE DEF body
    <2> QED
      BY <2>1, <2>2
  <1>10. SourceStep(m, f)
    BY <1>9 DEF SourceStep, D, own, first
  <1> DEFINE src == CHOOSE src : SourceStep(m, src)
  <1>11. SourceStep(m, src)
    BY <1>10
  <1>12. Source(m) = src
    BY DEF Source, SourceStep
  <1> HIDE DEF src
  <1>13. \A n \in D : src[n] = IF own(n) THEN n ELSE src[first(n)]
    BY <1>11 DEF SourceStep, D, own, first
  <1> DEFINE Good == {k \in Nat : \A n \in D : r[n] < k => src[n] \in D}
  <1>14. ASSUME NEW k \in Nat, k \in Good PROVE k + 1 \in Good
    <2> SUFFICES ASSUME NEW n \in D, r[n] < k + 1 PROVE src[n] \in D
      OBVIOUS
    <2>1. CASE own(n)
      BY <2>1, <1>13
    <2>2. CASE ~own(n)
      <3>1. first(n) \in D /\ r[first(n)] < r[n] /\ r[first(n)] \in Nat /\ r[n] \in Nat
        BY <2>2, <1>1, <1>3
      <3>2. r[first(n)] < k
        BY <3>1
      <3>3. src[first(n)] \in D
        BY <3>1, <3>2, <1>14
      <3> QED
        BY <2>2, <3>3, <1>13
    <2> QED
      BY <2>1, <2>2
  <1>15. 0 \in Good
    BY <1>1
  <1>16. MaxOps + 2 \in Good
    <2> HIDE DEF Good
    <2> QED
      BY <1>2, <1>14, <1>15, SetInduction
  <1>17. \A n \in D : src[n] \in D
    BY <1>1, <1>16
  <1> QED
    BY <1>12, <1>13, <1>17 DEF D, own, first

ExactStep(val) ==
    val = [t \in Tensors(Len(model.body)) |->
              IF t \in Leaves THEN Point[t] ELSE Apply(OpOf(t), Args(val, t))]

\* The operands' elements, for a function on the module's tensors.
LEMMA ArgsAre ==
    ASSUME IsTraced(model), NEW t \in Tensors(Len(model.body)), t \notin Leaves,
           NEW f \in [Tensors(Len(model.body)) -> Residues]
    PROVE  Apply(OpOf(t), Args(f, t)) \in Residues
  <1> DEFINE ops == model.body[t[2]].args
             a == Args(f, t)
  <1>1. /\ OpOf(t) \in DOMAIN OpArity /\ 1 \in DOMAIN ops
        /\ OpArity[OpOf(t)] = 2 => 2 \in DOMAIN ops
        /\ \A p \in DOMAIN ops : ops[p] \in Tensors(Len(model.body))
    BY OperationReads DEF OpOf
  <1>2. a = [i \in DOMAIN ops |-> f[ops[i]]]
    BY DEF Args
  <1> HIDE DEF a, ops
  <1>3. DOMAIN a = DOMAIN ops /\ \A p \in DOMAIN a : a[p] \in Residues
    BY <1>1, <1>2
  <1>4. Apply(OpOf(t), a) \in Residues
    BY <1>1, <1>3, ApplyIs
  <1> QED
    BY <1>4 DEF a

\* The element of a leaf is given, that of a result computed from its operands'.
LEMMA ExactIs ==
    ASSUME IsTraced(model)
    PROVE  /\ Exact \in [Tensors(Len(model.body)) -> Residues]
           /\ \A t \in Tensors(Len(model.body)) :
                 Exact[t] = IF t \in Leaves THEN Point[t] ELSE Apply(OpOf(t), Args(Exact, t))
  <1> DEFINE D == Tensors(Len(model.body))
             body(n, f) == IF n \in Leaves THEN Point[n] ELSE Apply(OpOf(n), Args(f, n))
             step == [n \in D |-> [f \in [D -> Residues] |-> body(n, f)]]
             r == [n \in D |-> RankOf(n)]
  <1>1. r \in [D -> Nat] /\ \A n \in D : r[n] < MaxOps + 2
    BY TensorRanks
  <1>2. MaxOps + 2 \in Nat /\ 0 \in Residues /\ \A n \in Leaves : Point[n] \in Residues
    BY AutogradAssumption, TensorAssumption, StepAssumption DEF Residues
  <1>3. \A n \in D : \A f \in [D -> Residues] : step[n][f] = body(n, f)
    <2> HIDE DEF D, body
    <2> QED
      OBVIOUS
  <1>4. ASSUME NEW n \in D, NEW f \in [D -> Residues] PROVE body(n, f) \in Residues
    <2>1. CASE n \in Leaves
      BY <2>1, <1>2
    <2>2. CASE n \notin Leaves
      BY <2>2, ArgsAre
    <2> QED
      BY <2>1, <2>2
  <1>5. ASSUME NEW n \in D, NEW f \in [D -> Residues], NEW h \in [D -> Residues],
               \A y \in D : r[y] < r[n] => f[y] = h[y]
        PROVE  body(n, f) = body(n, h)
    <2>1. CASE n \in Leaves
      BY <2>1
    <2>2. CASE n \notin Leaves
      <3>1. \A p \in DOMAIN model.body[n[2]].args :
               /\ model.body[n[2]].args[p] \in D
               /\ RankOf(model.body[n[2]].args[p]) < RankOf(n)
        BY <2>2, OperationReads
      <3>2. \A p \in DOMAIN model.body[n[2]].args :
               f[model.body[n[2]].args[p]] = h[model.body[n[2]].args[p]]
        BY <3>1, <1>5
      <3>3. Args(f, n) = Args(h, n)
        BY <3>2 DEF Args
      <3> QED
        BY <2>2, <3>3
    <2> QED
      BY <2>1, <2>2
  <1> HIDE DEF body, step, r, D
  <1>6. /\ \A n \in D : \A f \in [D -> Residues] : step[n][f] \in Residues
        /\ \A n \in D : \A f, h \in [D -> Residues] :
              (\A y \in D : r[y] < r[n] => f[y] = h[y]) => step[n][f] = step[n][h]
    BY <1>3, <1>4, <1>5
  <1>7. Ranked(D, Residues, r, step)
    BY <1>1, <1>2, <1>6 DEF Ranked
  <1>8. PICK f \in [D -> Residues] : \A n \in D : f[n] = step[n][f]
    <2>1. Computes(D, Residues, step)
      BY <1>2, <1>7, RankedRecursion
    <2> QED
      BY <2>1 DEF Computes
  <1>9. f = [n \in D |-> body(n, f)]
    <2>1. f = [n \in D |-> f[n]]
      OBVIOUS
    <2>2. \A n \in D : f[n] = body(n, f)
      BY <1>3, <1>8
    <2> QED
      BY <2>1, <2>2
  <1>10. ExactStep(f)
    BY <1>9 DEF ExactStep, D, body
  <1> DEFINE val == CHOOSE val : ExactStep(val)
  <1>11. ExactStep(val)
    BY <1>10
  <1>12. Exact = val
    BY DEF Exact, ExactStep
  <1> HIDE DEF val
  <1>13. val = [n \in D |-> body(n, val)]
    BY <1>11 DEF ExactStep, D, body
  <1>14. \A n \in D : val[n] = body(n, val)
    BY <1>13
  <1> DEFINE Good == {k \in Nat : \A n \in D : r[n] < k => val[n] = f[n]}
  <1>15. ASSUME NEW k \in Nat, k \in Good PROVE k + 1 \in Good
    <2> SUFFICES ASSUME NEW n \in D, r[n] < k + 1 PROVE val[n] = f[n]
      OBVIOUS
    <2>1. CASE n \in Leaves
      BY <2>1, <1>9, <1>14 DEF body
    <2>2. CASE n \notin Leaves
      <3>1. \A p \in DOMAIN model.body[n[2]].args :
               /\ model.body[n[2]].args[p] \in D
               /\ r[model.body[n[2]].args[p]] < r[n]
        BY <2>2, OperationReads DEF D, r
      <3>2. r[n] \in Nat /\ \A p \in DOMAIN model.body[n[2]].args : r[model.body[n[2]].args[p]] \in Nat
        BY <3>1, <1>1
      <3>3. \A p \in DOMAIN model.body[n[2]].args :
               val[model.body[n[2]].args[p]] = f[model.body[n[2]].args[p]]
        BY <3>1, <3>2, <1>15
      <3>4. Args(val, n) = Args(f, n)
        BY <3>3 DEF Args
      <3> QED
        BY <2>2, <3>4, <1>9, <1>14 DEF body
    <2> QED
      BY <2>1, <2>2
  <1>16. 0 \in Good
    BY <1>1
  <1>17. MaxOps + 2 \in Good
    <2> HIDE DEF Good
    <2> QED
      BY <1>2, <1>15, <1>16, SetInduction
  <1>18. \A n \in D : val[n] = f[n]
    BY <1>1, <1>17
  <1>19. val \in [D -> Residues]
    <2>1. val = [n \in D |-> val[n]]
      BY <1>13, <1>14
    <2> QED
      BY <2>1, <1>8, <1>18
  <1> QED
    BY <1>12, <1>14, <1>19 DEF D, body

\* A tensor has the element of its source.
LEMMA ExactOfSource ==
    ASSUME IsTraced(model), NEW t \in Tensors(Len(model.body))
    PROVE  Exact[Source(model)[t]] = Exact[t]
  <1> DEFINE D == Tensors(Len(model.body))
             src == Source(model)
             Good == {k \in Nat : \A n \in D : RankOf(n) < k => Exact[src[n]] = Exact[n]}
  <1>1. \A n \in D : RankOf(n) \in Nat /\ RankOf(n) < MaxOps + 2
    BY TensorRanks
  <1>2. MaxOps + 2 \in Nat
    BY AutogradAssumption
  <1>3. ASSUME NEW k \in Nat, k \in Good PROVE k + 1 \in Good
    <2> SUFFICES ASSUME NEW n \in D, RankOf(n) < k + 1 PROVE Exact[src[n]] = Exact[n]
      OBVIOUS
    <2>1. CASE n \in Leaves \/ model.body[n[2]].op # "Nop"
      <3>1. src[n] = n
        BY <2>1, SourceIs
      <3> QED
        BY <3>1
    <2>2. CASE n \notin Leaves /\ model.body[n[2]].op = "Nop"
      <3> DEFINE x == model.body[n[2]].args[1]
      <3>1. /\ x \in D /\ RankOf(x) < RankOf(n) /\ 1 \in DOMAIN model.body[n[2]].args
        BY <2>2, OperationReads
      <3>2. src[n] = src[x]
        BY <2>2, SourceIs
      <3>3. Exact[src[x]] = Exact[x]
        <4>1. RankOf(x) < k
          BY <3>1, <1>1
        <4> QED
          BY <3>1, <4>1, <1>3
      <3>4. Exact[n] = Apply(OpOf(n), Args(Exact, n))
        BY <2>2, ExactIs
      <3>5. Args(Exact, n)[1] = Exact[x]
        BY <3>1 DEF Args
      <3>6. \A args : Apply("Nop", args) = args[1]
        BY DEF Apply
      <3> QED
        BY <2>2, <3>2, <3>3, <3>4, <3>5, <3>6 DEF OpOf
    <2> QED
      BY <2>1, <2>2
  <1>4. 0 \in Good
    BY <1>1
  <1>5. MaxOps + 2 \in Good
    <2> HIDE DEF Good
    <2> QED
      BY <1>2, <1>3, <1>4, SetInduction
  <1> QED
    BY <1>1, <1>5

-----------------------------------------------------------------------------
\* What the forward nodes stand for, however many Nops are gone.

\* The tensor of the module whose element a forward node has.
TensorOf(n) ==
    IF n \in Leaves \/ n[1] = "op" THEN n ELSE IF n[1] = "nop" THEN n[2][2] ELSE n[2]

\* The node hands its operand on, or does the operation of the module to operands that
\* have the elements of the operation's own.
FollowsOp(m, n, nd) ==
    IF TypeOf(n) = "output" \/ nd.role = "Nop"
    THEN Source(m)[TensorOf(nd.ins[1])] = Source(m)[TensorOf(n)]
    ELSE /\ n[1] = "op" /\ nd.role = m.body[n[2]].op
         /\ \A p \in DOMAIN nd.ins :
               Source(m)[TensorOf(nd.ins[p])] = Source(m)[m.body[n[2]].args[p]]

Follows(m, g) ==
    \A n \in Forwards(g) :
        /\ TensorOf(n) \in Tensors(Len(m.body))
        /\ n \notin Leaves => FollowsOp(m, n, g.node[n])

\* A tensor that is a node of its own stands for itself.
LEMMA TensorOfTensor ==
    ASSUME NEW m, IsTraced(m), NEW t \in Tensors(Len(m.body))
    PROVE  TensorOf(t) = t
  <1>1. CASE t \in Leaves
    BY <1>1 DEF TensorOf
  <1>2. CASE t \notin Leaves
    BY <1>2, OperandsAre DEF TensorOf
  <1> QED
    BY <1>1, <1>2

\* A trace follows the module.
LEMMA TraceFollows ==
    ASSUME NEW m, IsTraced(m), NEW g, Well(g), IsTrace(m, g)
    PROVE  Follows(m, g)
  <1> SUFFICES ASSUME NEW n \in Forwards(g)
               PROVE  /\ TensorOf(n) \in Tensors(Len(m.body))
                      /\ n \notin Leaves => FollowsOp(m, n, g.node[n])
    BY DEF Follows
  <1>1. n \in DOMAIN g.node /\ TraceName(m, g, n) /\ ReadsAsTraced(m, n, g.node[n])
    BY DEF IsTrace, Forwards
  <1>2. Leaves \subseteq Tensors(Len(m.body))
    BY DEF Tensors
  <1>3. CASE n \in Leaves
    BY <1>2, <1>3 DEF TensorOf
  <1>4. CASE n \notin Leaves /\ n[1] = "op"
    <2>1. n[2] \in DOMAIN m.body /\ n = Result(n[2]) /\ TypeOf(n) = "op"
      BY <1>1, <1>4, TraceKinds
    <2>2. n \in Tensors(Len(m.body))
      <3>1. m.body \in Seq(BodyOps)
        BY DEF IsTraced, IsBody, BodyOps
      <3>2. n[2] \in 1..Len(m.body)
        BY <2>1, <3>1
      <3> QED
        BY <2>1, <3>2 DEF Tensors
    <2>3. TensorOf(n) = n
      BY <1>4 DEF TensorOf
    <2>4. g.node[n].ins = m.body[n[2]].args
      BY <1>1, <1>4, TraceReads
    <2>5. g.node[n].role = m.body[n[2]].op
      BY <1>1, <1>4 DEF ReadsAsTraced, OneOf
    <2>6. /\ 1 \in DOMAIN m.body[n[2]].args
          /\ \A p \in DOMAIN m.body[n[2]].args : m.body[n[2]].args[p] \in Tensors(Len(m.body))
      BY <2>2, <1>4, OperationReads
    <2>7. \A p \in DOMAIN g.node[n].ins : TensorOf(g.node[n].ins[p]) = m.body[n[2]].args[p]
      BY <2>4, <2>6, TensorOfTensor
    <2>8. CASE g.node[n].role = "Nop"
      <3>1. Source(m)[n] = Source(m)[m.body[n[2]].args[1]]
        BY <2>2, <2>5, <2>8, <1>4, SourceIs
      <3> QED
        BY <2>2, <2>3, <2>4, <2>6, <2>7, <2>8, <3>1 DEF FollowsOp
    <2>9. CASE g.node[n].role # "Nop"
      BY <2>1, <2>2, <2>3, <2>5, <2>7, <2>9, <1>4 DEF FollowsOp
    <2> QED
      BY <2>8, <2>9
  <1>5. CASE n \notin Leaves /\ n[1] = "nop"
    <2>1. n[2][2] \in Leaves /\ TensorOf(n) = n[2][2]
      BY <1>1, <1>5, TraceKinds DEF TensorOf
    <2>2. g.node[n].ins = <<n[2][2]>> /\ g.node[n].role = "Nop"
      BY <1>1, <1>5, TraceReads DEF ReadsAsTraced, OneOf
    <2>3. TensorOf(n[2][2]) = n[2][2]
      BY <2>1 DEF TensorOf
    <2> QED
      BY <2>1, <2>2, <2>3, <1>2 DEF FollowsOp
  <1>6. CASE n \notin Leaves /\ n[1] = "output"
    <2>1. n[2] \in ToSet(m.outs) /\ TypeOf(n) = "output" /\ n = Output(n[2])
      BY <1>1, <1>6, TraceKinds
    <2>2. n[2] \in Tensors(Len(m.body))
      <3>1. m.outs \in Seq(Tensors(Len(m.body)))
        BY DEF IsTraced
      <3> QED
        BY <2>1, <3>1, Entries
    <2>3. TensorOf(n) = n[2]
      BY <1>6 DEF TensorOf
    <2>4. g.node[n].ins = <<n[2]>> \/ g.node[n].ins = <<<<"nop", n>>>>
      BY <1>1, <1>6, TraceReads
    <2>5. TensorOf(<<"nop", n>>) = n[2]
      BY NotLeaves DEF TensorOf
    <2>6. TensorOf(g.node[n].ins[1]) = n[2]
      BY <2>2, <2>4, <2>5, TensorOfTensor
    <2> QED
      BY <2>1, <2>2, <2>3, <2>6 DEF FollowsOp
  <1> QED
    BY <1>1, <1>3, <1>4, <1>5, <1>6, TraceKinds

\* Backward and optimizer nodes have no part in it.
LEMMA SameFollows ==
    ASSUME NEW m, NEW g, Follows(m, g), NEW h, SameForwards(g, h)
    PROVE  Follows(m, h)
  BY DEF Follows, SameForwards

\* The users of a Nop that is gone read what it handed on.
LEMMA BypassFollows ==
    ASSUME NEW m, IsTraced(m), NEW g, NEW lb, Well(g), Listed(m, g), IsTrainable(m, g, lb),
           Follows(m, g),
           NEW n \in DOMAIN g.node, g.node[n].role = "Nop", NEW h, h = Bypassed(g, n)
    PROVE  Follows(m, h)
  <1> DEFINE x == g.node[n].ins[1]
  <1>1. /\ DOMAIN h.node = DOMAIN g.node \ {n}
        /\ \A u \in DOMAIN h.node :
              Rereads(h.node[u], g.node[u], Replaced(g.node[u].ins, n, x))
    BY BypassKeeps
  <1>2. n \notin Leaves
    BY NopIs DEF IsTrainable
  <1>3. n \in Forwards(g) => Source(m)[TensorOf(x)] = Source(m)[TensorOf(n)]
    BY <1>2 DEF Follows, FollowsOp
  <1> HIDE DEF x
  <1> SUFFICES ASSUME NEW u \in Forwards(h)
               PROVE  /\ TensorOf(u) \in Tensors(Len(m.body))
                      /\ u \notin Leaves => FollowsOp(m, u, h.node[u])
    BY DEF Follows
  <1>4. u \in Forwards(g) /\ u \in DOMAIN h.node /\ u \in DOMAIN g.node /\ EpochOf(u) = "fwd"
    BY <1>1 DEF Forwards
  <1>5. /\ TensorOf(u) \in Tensors(Len(m.body))
        /\ u \notin Leaves => FollowsOp(m, u, g.node[u])
    BY <1>4 DEF Follows
  <1>6. g.node[u].ins \in Seq(DOMAIN g.node) /\ Whole(u, g.node[u])
    BY <1>4 DEF Well, IsGraph, Records
  <1>7. h.node[u].role = g.node[u].role /\ h.node[u].ins = Replaced(g.node[u].ins, n, x)
    BY <1>1, <1>4 DEF Rereads
  <1>8. DOMAIN h.node[u].ins = DOMAIN g.node[u].ins
    BY <1>7 DEF Replaced
  <1>9. \A p \in DOMAIN g.node[u].ins :
           Source(m)[TensorOf(h.node[u].ins[p])] = Source(m)[TensorOf(g.node[u].ins[p])]
    <2> SUFFICES ASSUME NEW p \in DOMAIN g.node[u].ins
                 PROVE  Source(m)[TensorOf(h.node[u].ins[p])]
                            = Source(m)[TensorOf(g.node[u].ins[p])]
      OBVIOUS
    <2>1. h.node[u].ins[p] = IF g.node[u].ins[p] = n THEN x ELSE g.node[u].ins[p]
      BY <1>7 DEF Replaced
    <2>2. CASE g.node[u].ins[p] = n
      <3>1. n \in ToSet(g.node[u].ins)
        BY <2>2 DEF ToSet
      <3>2. EpochOf(n) = "fwd"
        BY <1>4, <1>6, <3>1 DEF Whole, Fits, MayRead
      <3>3. n \in Forwards(g)
        BY <3>2 DEF Forwards
      <3> QED
        BY <2>1, <2>2, <3>3, <1>3
    <2> QED
      BY <2>1, <2>2
  <1>10. ASSUME u \notin Leaves PROVE FollowsOp(m, u, h.node[u])
    <2>1. CASE TypeOf(u) = "output" \/ g.node[u].role = "Nop"
      <3>1. 1 \in DOMAIN g.node[u].ins
        <4>1. Len(g.node[u].ins) = 1
          <5>1. CASE TypeOf(u) = "output"
            <6>1. g.node[u].type = "output"
              BY <1>6, <5>1 DEF Whole, Fits
            <6> QED
              BY <6>1, <1>6, WholeIsEquipped
          <5>2. CASE g.node[u].role = "Nop"
            BY <5>2, <1>4, NopIs DEF IsTrainable
          <5> QED
            BY <2>1, <5>1, <5>2
        <4> QED
          BY <4>1, <1>6
      <3> QED
        BY <2>1, <3>1, <1>5, <1>7, <1>9, <1>10 DEF FollowsOp
    <2>2. CASE ~(TypeOf(u) = "output" \/ g.node[u].role = "Nop")
      BY <2>2, <1>5, <1>7, <1>8, <1>9, <1>10 DEF FollowsOp
    <2> QED
      BY <2>1, <2>2
  <1> QED
    BY <1>5, <1>10

\* The traced graph follows the module until the programs are made, and ever after.
LEMMA FollowsOn ==
    ASSUME StepInv, stage # "trace" => Follows(model, graph), Next, stage' # "trace"
    PROVE  Follows(model', graph')
  <1>1. /\ IsTraced(model)
        /\ stage = "trace" => IsTracing(model, graph, todo)
        /\ stage # "trace" => Well(graph) /\ Listed(model, graph)
        /\ stage = "outputs" => IsSeeding(model, graph, todo, requires_grad, gradients)
        /\ stage = "differentiate" =>
              IsDifferentiating(model, graph, todo, requires_grad, gradients)
        /\ stage = "optimizer" => IsOptimizing(model, graph, todo, gradients, loopback)
        /\ stage = "nops" => IsTrainable(model, graph, loopback) /\ IsRemoving(graph, todo)
    BY DEF StepInv, SplitInv, AutogradInv, Early
  <1>2. model' = model
    BY DEF Next, Compile, SplitNext, AutogradNext, VisitTensor, RegisterModule,
           PropagateRequiresGrad, CreateGradientInput, StartDifferentiation, Differentiate,
           StartOptimizer, OptimizeParameter, InsertRecomputeOps, RemoveNop, ExtractForward,
           ExtractBackward, ExtractOptimizer, Extract, Call, LossBackward, RunBackward, Step,
           Finished, stepVars, splitVars, autogradVars
  <1>3. CASE VisitTensor
    BY <1>3 DEF VisitTensor
  <1>4. CASE RegisterModule
    <2>1. stage = "trace"
      BY <1>4 DEF RegisterModule
    <2>2. Well(graph') /\ IsTrace(model, graph')
      BY <2>1, <1>1, <1>4, RegisterGivesTrace
    <2> DEFINE h == graph'
    <2>3. Well(h) /\ IsTrace(model, h)
      BY <2>2
    <2> HIDE DEF h
    <2>4. Follows(model, h)
      BY <2>3, <1>1, TraceFollows
    <2> QED
      BY <2>4, <1>2 DEF h
  <1>5. ASSUME stage # "trace", SameForwards(graph, graph') PROVE Follows(model', graph')
    <2> DEFINE h == graph'
    <2>1. SameForwards(graph, h)
      BY <1>5
    <2> HIDE DEF h
    <2>2. Follows(model, h)
      BY <2>1, <1>5, SameFollows
    <2> QED
      BY <2>2, <1>2 DEF h
  <1>6. CASE CreateGradientInput
    <2>1. stage = "outputs"
      BY <1>6 DEF CreateGradientInput
    <2> QED
      BY <2>1, <1>1, <1>5, <1>6, CreateKeepsSeeding
  <1>7. CASE Differentiate
    <2>1. stage = "differentiate"
      BY <1>7 DEF Differentiate
    <2> QED
      BY <2>1, <1>1, <1>5, <1>7, DifferentiateKeeps
  <1>8. CASE OptimizeParameter
    <2>1. stage = "optimizer"
      BY <1>8 DEF OptimizeParameter
    <2> QED
      BY <2>1, <1>1, <1>5, <1>8, OptimizeKeeps
  <1>9. CASE InsertRecomputeOps
    <2>1. stage = "optimizer"
      BY <1>9 DEF InsertRecomputeOps
    <2> QED
      BY <2>1, <1>1, <1>5, <1>9, InsertRecomputeKeeps
  <1>10. CASE RemoveNop
    <2> DEFINE n == Head(todo)
               h == graph'
    <2>1. /\ stage = "nops" /\ todo # <<>>
          /\ h = Bypassed(graph, n)
      BY <1>10 DEF RemoveNop
    <2>2. n \in DOMAIN graph.node /\ graph.node[n].role = "Nop"
      BY <2>1, <1>1, Rest DEF IsRemoving
    <2> HIDE DEF n, h
    <2>3. Follows(model, h)
      BY <2>1, <2>2, <1>1, BypassFollows
    <2> QED
      BY <2>3, <1>2 DEF h
  <1>11. ASSUME stage # "trace", graph' = graph PROVE Follows(model', graph')
    BY <1>2, <1>11
  <1>12. CASE PropagateRequiresGrad \/ StartDifferentiation \/ StartOptimizer
    BY <1>11, <1>12 DEF PropagateRequiresGrad, StartDifferentiation, StartOptimizer
  <1>13. CASE ExtractForward \/ ExtractBackward \/ ExtractOptimizer
    BY <1>11, <1>13 DEF ExtractForward, ExtractBackward, ExtractOptimizer, Extract
  <1>14. CASE Call \/ LossBackward \/ RunBackward \/ Step
    BY <1>11, <1>14 DEF Call, LossBackward, RunBackward, Step
  <1>15. CASE Finished
    BY <1>11, <1>15 DEF Finished, stepVars, splitVars, autogradVars
  <1> QED
    BY <1>3, <1>4, <1>6, <1>7, <1>8, <1>9, <1>10, <1>12, <1>13, <1>14, <1>15
       DEF Next, Compile, SplitNext, AutogradNext

\* The elements of the persistent tensors change in the optimizer's step only.
LEMMA PoolStays ==
    ASSUME stage # "stepped" => pool = Point, Next, stage' # "stepped"
    PROVE  pool' = Point
  <1>1. stage # "stepped"
    BY DEF Next, Compile, SplitNext, AutogradNext, VisitTensor, RegisterModule,
           PropagateRequiresGrad, CreateGradientInput, StartDifferentiation, Differentiate,
           StartOptimizer, OptimizeParameter, InsertRecomputeOps, RemoveNop, ExtractForward,
           ExtractBackward, ExtractOptimizer, Extract, Call, LossBackward, RunBackward, Step,
           Finished, stepVars, splitVars, autogradVars
  <1>2. CASE Step
    BY <1>1, <1>2 DEF Step, RunProgram
  <1>3. CASE ~Step
    BY <1>1, <1>3 DEF Next, Compile, Call, LossBackward, RunBackward, Finished, stepVars
  <1> QED
    BY <1>2, <1>3

-----------------------------------------------------------------------------
\* The forward program computes what the module computes.

\* A list of which nothing is left out is kept as it is.
LEMMA OnlyWhole ==
    ASSUME NEW T, NEW s \in Seq(T), Distinct(s), NEW S, Len(Only(s, S)) = Len(s)
    PROVE  Only(s, S) = s
  <1> DEFINE t == Only(s, S)
  <1>1. t \in Seq(T) /\ ToSet(t) = ToSet(s) \cap S /\ Distinct(t)
    BY OnlyMembers, OnlyDistinct
  <1>2. Cardinality(ToSet(t)) = Len(t) /\ Cardinality(ToSet(s)) = Len(s)
    BY <1>1, Counted
  <1>3. IsFiniteSet(ToSet(s))
    <2>1. DOMAIN s = 1..Len(s) /\ Len(s) \in Nat
      BY Entries
    <2>2. s \in Bijection(1..Len(s), ToSet(s))
      BY <2>1 DEF Distinct, ToSet, Bijection, Injection, Surjection, IsInjective
    <2>3. IsFiniteSet(1..Len(s))
      BY <2>1, Positions
    <2> QED
      BY <2>2, <2>3, FS_Bijection DEF ExistsBijection
  <1>4. Len(t) = Len(s)
    OBVIOUS
  <1> HIDE DEF t
  <1>5. ToSet(t) = ToSet(s)
    <2>1. ToSet(t) \in SUBSET ToSet(s)
      BY <1>1
    <2> QED
      BY <2>1, <1>2, <1>3, <1>4, FS_Subset
  <1>6. ToSet(s) \subseteq S
    BY <1>1, <1>5
  <1> QED
    BY <1>6, OnlyAll

\* Each entry of a is what f has for that of s.
Along(f, s, a) == Len(a) = Len(s) /\ \A i \in DOMAIN s : a[i] = f[s[i]]

\* Lists of a function's values are joined like those of its arguments.
LEMMA JoinedAlong ==
    ASSUME NEW f, NEW S, NEW s \in Seq(S), NEW t \in Seq(S), NEW D, NEW a \in Seq(D),
           NEW b \in Seq(D), Along(f, s, a), Along(f, t, b)
    PROVE  Along(f, s \o t, a \o b)
  <1>4. /\ Len(a) = Len(s) /\ Len(b) = Len(t)
        /\ \A i \in DOMAIN s : a[i] = f[s[i]]
        /\ \A i \in DOMAIN t : b[i] = f[t[i]]
    BY DEF Along
  <1> SUFFICES ASSUME NEW i \in DOMAIN (s \o t) PROVE (a \o b)[i] = f[(s \o t)[i]]
    <2>1. Len(a \o b) = Len(s \o t)
      BY <1>4
    <2> QED
      BY <2>1 DEF Along
  <1>1. /\ Len(s) \in Nat /\ Len(t) \in Nat /\ i \in 1..(Len(s) + Len(t))
        /\ DOMAIN s = 1..Len(s) /\ DOMAIN t = 1..Len(t)
    OBVIOUS
  <1>2. CASE i <= Len(s)
    <2>1. (s \o t)[i] = s[i] /\ (a \o b)[i] = a[i] /\ i \in DOMAIN s
      BY <1>4, <1>1, <1>2
    <2> QED
      BY <2>1, <1>4
  <1>3. CASE ~(i <= Len(s))
    <2>1. (s \o t)[i] = t[i - Len(s)] /\ (a \o b)[i] = b[i - Len(s)] /\ i - Len(s) \in DOMAIN t
      BY <1>4, <1>1, <1>3
    <2> DEFINE k == i - Len(s)
    <2>2. (s \o t)[i] = t[k] /\ (a \o b)[i] = b[k] /\ k \in DOMAIN t
      BY <2>1
    <2> HIDE DEF k
    <2>3. b[k] = f[t[k]]
      BY <2>2, <1>4
    <2> DEFINE st == s \o t
               ab == a \o b
    <2>4. st[i] = t[k] /\ ab[i] = b[k]
      BY <2>2
    <2>5. ab[i] = f[st[i]]
      <3> HIDE DEF st, ab
      <3> QED
        BY <2>3, <2>4
    <2> QED
      BY <2>5
  <1> QED
    BY <1>2, <1>3

\* The persistent tensors of the forward graph are parameters of the module.
LEMMA ForwardPersists ==
    ASSUME NEW g, Well(g), NEW fwd, IsForward(g, fwd)
    PROVE  ToSet(Persistent(fwd)) \subseteq Weights
  <1> SUFFICES ASSUME NEW n \in DOMAIN fwd.node,
                      fwd.node[n].role \in {"parameter", "optimizer_parameter"}
               PROVE  n \in Weights
    <2>1. IsGraph(fwd)
      BY DEF IsForward
    <2> QED
      BY <2>1, FormalsAre
  <1>1. n \notin Intermediates(g)
    BY DEF Intermediates, IsForward
  <1>2. n \in Forwards(g) /\ fwd.node[n].role \in {"shared", g.node[n].role}
    BY <1>1 DEF IsForward
  <1>3. g.node[n].role \in RolesOf(n) /\ EpochOf(n) = "fwd"
    BY <1>2 DEF Forwards, Well, Whole, Fits
  <1>4. g.node[n].role \in {"parameter", "optimizer_parameter"}
    BY <1>2
  <1> QED
    BY <1>3, <1>4 DEF RolesOf, EpochOf, FwdKinds, OptKinds

\* A forward program that is not refused has every tensor of the module at its argument.
LEMMA ForwardIsGiven ==
    ASSUME NEW m, NEW g, Well(g), Listed(m, g), NEW fwd, IsForward(g, fwd), pool = Point,
           NEW points, points = [i \in DOMAIN fwd.inputs |-> Point[fwd.inputs[i]]],
           Len(Actuals(fwd, points)) = Len(Formals(fwd)),
           NEW n \in Leaves, n \in DOMAIN fwd.node, Read(fwd, n)
    PROVE  Bound(fwd, Actuals(fwd, points))[n] = Point[n]
  <1> DEFINE actuals == Actuals(fwd, points)
             formals == Formals(fwd)
             rest == Persistent(fwd)
  <1>1. IsGraph(fwd) /\ Wired(fwd) /\ fwd.inputs \in Seq(DOMAIN fwd.node)
    BY ForwardIsWired, ForwardInputsAre DEF IsForward
  <1>2. rest \in Seq(DOMAIN fwd.node) /\ formals \in Seq(DOMAIN fwd.node)
        /\ formals = OrderedModuleInputs(fwd) \o rest
    BY <1>1, FormalsAre
  <1>3. actuals = points \o [i \in DOMAIN rest |-> Element(rest[i])]
    BY DEF Actuals
  <1>4. \A i \in DOMAIN rest : Element(rest[i]) = Point[rest[i]]
    BY <1>2, Entries, ForwardPersists DEF Element, Leaves
  <1>5. Len(points) = Len(fwd.inputs) /\ DOMAIN points = DOMAIN fwd.inputs
        /\ points \in Seq({Point[x] : x \in DOMAIN fwd.node})
    <2>1. points \in [1..Len(fwd.inputs) -> {Point[x] : x \in DOMAIN fwd.node}]
      BY <1>1
    <2> QED
      BY <2>1, <1>1
  <1>6. Len(fwd.inputs) = Len(OrderedModuleInputs(fwd))
    <2> DEFINE more == [i \in DOMAIN rest |-> Element(rest[i])]
    <2>1. more \in Seq({Element(x) : x \in DOMAIN fwd.node}) /\ Len(more) = Len(rest)
      <3>1. more \in [1..Len(rest) -> {Element(x) : x \in DOMAIN fwd.node}]
        BY <1>2
      <3> QED
        BY <3>1, <1>2
    <2> HIDE DEF more, rest
    <2>2. Len(points \o more) = Len(points) + Len(more)
      BY <2>1, <1>5
    <2>3. OrderedModuleInputs(fwd) \in Seq(DOMAIN fwd.node)
      BY <1>1, OrderedInputsAre
    <2>4. Len(OrderedModuleInputs(fwd) \o rest) = Len(OrderedModuleInputs(fwd)) + Len(rest)
      BY <2>3, <1>2
    <2>5. Len(actuals) = Len(formals)
      OBVIOUS
    <2>6. Len(rest) \in Nat /\ Len(fwd.inputs) \in Nat /\ Len(OrderedModuleInputs(fwd)) \in Nat
      BY <1>1, <1>2, <2>3
    <2> HIDE DEF actuals, formals
    <2>7. Len(points) + Len(rest) = Len(OrderedModuleInputs(fwd)) + Len(rest)
      BY <2>1, <2>2, <2>4, <2>5, <1>2, <1>3 DEF more
    <2> QED
      BY <2>6, <2>7, <1>5
  <1>7. Distinct(fwd.inputs)
    <2>1. OrderedModuleInputs(g) \in Seq(DOMAIN g.node) /\ Distinct(OrderedModuleInputs(g))
      BY OrderedInputsAre DEF Well, Listed
    <2> QED
      BY <2>1, OfEpochIs DEF IsForward
  <1>8. OrderedModuleInputs(fwd) = fwd.inputs
    BY <1>1, <1>6, <1>7, OnlyWhole DEF OrderedModuleInputs
  <1> HIDE DEF rest
  <1>9. \A i \in DOMAIN formals : actuals[i] = Point[formals[i]]
    <2> DEFINE more == [j \in DOMAIN rest |-> Element(rest[j])]
               D == {Element(x) : x \in DOMAIN fwd.node} \cup {Point[x] : x \in DOMAIN fwd.node}
    <2>1. more \in Seq(D) /\ Len(more) = Len(rest)
      <3>1. more \in [1..Len(rest) -> D]
        BY <1>2
      <3> QED
        BY <3>1, <1>2
    <2>2. points \in Seq(D)
      <3>1. points \in [1..Len(fwd.inputs) -> D]
        BY <1>1
      <3> QED
        BY <3>1, <1>1
    <2>3. /\ \A j \in DOMAIN rest : more[j] = Point[rest[j]]
          /\ \A j \in DOMAIN fwd.inputs : points[j] = Point[fwd.inputs[j]]
      BY <1>4
    <2>4. formals = fwd.inputs \o rest /\ actuals = points \o more
      BY <1>2, <1>3, <1>8
    <2> HIDE DEF more, actuals, formals, D
    <2>5. Along(Point, rest, more) /\ Along(Point, fwd.inputs, points)
      BY <2>1, <2>3, <1>5 DEF Along
    <2>6. Along(Point, fwd.inputs \o rest, points \o more)
      BY <2>1, <2>2, <2>5, <1>1, <1>2, JoinedAlong
    <2> QED
      BY <2>4, <2>6 DEF Along
  <1>10. n \in ToSet(formals)
    <2>1. fwd.node[n].type = "input"
      <3>1. n \in Forwards(g)
        BY IntermediatesAreNew DEF IsForward, Intermediates
      <3> QED
        BY <3>1, LeavesAre DEF IsForward
    <2> QED
      BY <2>1, <1>1 DEF Wired, Fed
  <1>11. Bound(fwd, actuals)[n] = actuals[CHOOSE i \in DOMAIN formals : formals[i] = n]
    BY <1>10 DEF Bound
  <1>12. \E i \in DOMAIN formals : formals[i] = n
    BY <1>10 DEF ToSet
  <1> HIDE DEF actuals, formals
  <1>13. PICK i \in DOMAIN formals :
            formals[i] = n /\ i = CHOOSE j \in DOMAIN formals : formals[j] = n
    BY <1>12
  <1> QED
    BY <1>9, <1>11, <1>13 DEF actuals

\* What an output that shows the value of another node is.
ExactOf(g, n) == IF n \in Forwards(g) THEN Exact[TensorOf(n)] ELSE Exact[TensorOf(n[2])]

\* Given the tensors of the module, the forward graph has at each of its nodes the
\* element of the tensor the node stands for.
LEMMA ForwardValues ==
    ASSUME IsTraced(model), NEW g, Well(g), Listed(model, g), Follows(model, g),
           NEW fwd, IsForward(g, fwd), NEW env, Runnable(fwd, env),
           \A n \in Leaves : n \in DOMAIN fwd.node /\ Read(fwd, n) => env[n] = Point[n]
    PROVE  \A n \in Forwards(g) : fwd.node[n].type # "input" =>
              Values(fwd, env)[n] = Exact[TensorOf(n)]
  <1> DEFINE f == [n \in DOMAIN fwd.node |->
                      IF fwd.node[n].type = "input" THEN env[n] ELSE ExactOf(g, n)]
             T == Tensors(Len(model.body))
  <1>1. IsGraph(fwd) /\ Acyclic(fwd) /\ Wired(fwd)
    BY ForwardIsWired DEF Wired
  <1>2. DOMAIN fwd.node = Forwards(g) \cup Intermediates(g)
    BY DEF IsForward
  <1>3. \A n \in DOMAIN fwd.node :
           f[n] = IF fwd.node[n].type = "input" THEN env[n] ELSE ExactOf(g, n)
    OBVIOUS
  <1> HIDE DEF f
  <1>4. ASSUME NEW x \in Forwards(g), Read(fwd, x) PROVE f[x] = Exact[TensorOf(x)]
    <2>1. CASE fwd.node[x].type = "input"
      <3>1. TypeOf(x) = "input" /\ EpochOf(x) = "fwd"
        BY <2>1 DEF IsForward, Forwards
      <3>2. x \in Leaves
        BY <3>1 DEF TypeOf, EpochOf, FwdKinds
      <3>3. x \in T /\ TensorOf(x) = x
        BY <3>2 DEF Tensors, TensorOf
      <3>4. Exact[x] = Point[x]
        BY <3>2, <3>3, ExactIs
      <3> QED
        BY <2>1, <3>2, <3>3, <3>4, <1>2, <1>3, <1>4
    <2>2. CASE fwd.node[x].type # "input"
      BY <2>2, <1>2, <1>3 DEF ExactOf
    <2> QED
      BY <2>1, <2>2
  <1>5. ASSUME NEW n \in Forwards(g)
        PROVE  /\ fwd.node[n].type = TypeOf(n) /\ fwd.node[n].ins = g.node[n].ins
               /\ TypeOf(n) = "op" => fwd.node[n].role = g.node[n].role
               /\ g.node[n].ins \in Seq(DOMAIN g.node) /\ Whole(n, g.node[n])
               /\ TypeOf(n) \in {"input", "op", "output"}
               /\ TensorOf(n) \in T
               /\ n \notin Leaves => FollowsOp(model, n, g.node[n])
               /\ n \in Leaves => TypeOf(n) = "input"
    <2>1. n \in DOMAIN g.node /\ EpochOf(n) = "fwd"
      BY DEF Forwards
    <2>2. g.node[n].ins \in Seq(DOMAIN g.node) /\ Whole(n, g.node[n])
      BY <2>1 DEF Well, IsGraph, Records
    <2>3. TypeOf(n) \in {"input", "op", "output"} /\ (n \in Leaves => TypeOf(n) = "input")
      BY <2>1 DEF TypeOf, EpochOf, FwdKinds
    <2> QED
      BY <2>2, <2>3 DEF IsForward, Follows
  <1>6. ASSUME NEW n \in Forwards(g), NEW p \in DOMAIN g.node[n].ins
        PROVE  /\ TensorOf(g.node[n].ins[p]) \in T
               /\ f[g.node[n].ins[p]] = Exact[Source(model)[TensorOf(g.node[n].ins[p])]]
    <2> DEFINE x == g.node[n].ins[p]
    <2>1. x \in DOMAIN g.node /\ x \in ToSet(g.node[n].ins)
      BY <1>5 DEF ToSet
    <2>2. EpochOf(x) = "fwd"
      BY <1>5, <2>1 DEF Forwards, Whole, Fits, MayRead
    <2>3. x \in Forwards(g)
      BY <2>1, <2>2 DEF Forwards
    <2>4. Read(fwd, x)
      BY <1>2, <1>5, <2>1 DEF Read
    <2> HIDE DEF x
    <2>5. TensorOf(x) \in T /\ f[x] = Exact[TensorOf(x)]
      BY <1>4, <1>5, <2>3, <2>4
    <2> QED
      BY <2>5, ExactOfSource DEF x
  <1>7. ASSUME NEW n \in Forwards(g), fwd.node[n].type # "input"
        PROVE  Body(fwd, env, f, n) = Exact[TensorOf(n)]
    <2>1. /\ n \notin Leaves /\ FollowsOp(model, n, g.node[n]) /\ TensorOf(n) \in T
          /\ fwd.node[n].type = TypeOf(n) /\ TypeOf(n) \in {"op", "output"}
          /\ fwd.node[n].ins = g.node[n].ins /\ g.node[n].ins \in Seq(DOMAIN g.node)
      BY <1>5, <1>7
    <2>2. g.node[n].type = TypeOf(n) /\ Len(g.node[n].ins) = Ports(g.node[n])
      BY <1>5 DEF Whole, Fits
    <2>3. CASE TypeOf(n) = "output" \/ g.node[n].role = "Nop"
      <3>1. 1 \in DOMAIN g.node[n].ins
        BY <2>1, <2>2, <2>3 DEF Ports, OpArity
      <3>2. f[g.node[n].ins[1]] = Exact[Source(model)[TensorOf(g.node[n].ins[1])]]
        BY <3>1, <1>6
      <3>3. Source(model)[TensorOf(g.node[n].ins[1])] = Source(model)[TensorOf(n)]
        BY <2>1, <2>3 DEF FollowsOp
      <3>4. f[g.node[n].ins[1]] = Exact[TensorOf(n)]
        BY <2>1, <3>2, <3>3, ExactOfSource
      <3>5. Body(fwd, env, f, n) = f[g.node[n].ins[1]]
        <4>1. CASE TypeOf(n) = "output"
          BY <2>1, <4>1 DEF Body
        <4>2. CASE TypeOf(n) = "op" /\ g.node[n].role = "Nop"
          <5> DEFINE a == [i \in DOMAIN g.node[n].ins |-> f[g.node[n].ins[i]]]
          <5>1. Body(fwd, env, f, n) = Apply("Nop", a)
            BY <2>1, <4>2, <1>5 DEF Body
          <5>2. a[1] = f[g.node[n].ins[1]]
            BY <3>1
          <5>3. \A args : Apply("Nop", args) = args[1]
            BY DEF Apply
          <5> HIDE DEF a
          <5> QED
            BY <5>1, <5>2, <5>3
        <4> QED
          BY <2>1, <2>3, <4>1, <4>2
      <3> QED
        BY <3>4, <3>5
    <2>4. CASE ~(TypeOf(n) = "output" \/ g.node[n].role = "Nop")
      <3> DEFINE args == model.body[n[2]].args
                 a == [i \in DOMAIN g.node[n].ins |-> f[g.node[n].ins[i]]]
                 b == Args(Exact, n)
      <3>1. /\ n[1] = "op" /\ TypeOf(n) = "op" /\ g.node[n].role = OpOf(n)
            /\ \A p \in DOMAIN g.node[n].ins :
                  Source(model)[TensorOf(g.node[n].ins[p])] = Source(model)[args[p]]
        BY <2>1, <2>4 DEF FollowsOp, OpOf
      <3>2. TensorOf(n) = n /\ n \in T
        BY <3>1, <2>1 DEF TensorOf
      <3>3. /\ args \in Seq(T) /\ Len(args) = OpArity[OpOf(n)]
            /\ \A p \in DOMAIN args : args[p] \in T
        BY <3>2, <2>1, OperationReads DEF OpOf
      <3>4. Len(g.node[n].ins) = OpArity[OpOf(n)]
        BY <2>2, <3>1 DEF Ports
      <3> HIDE DEF args
      <3>5. DOMAIN g.node[n].ins = DOMAIN args
        BY <2>1, <3>3, <3>4
      <3>6. ASSUME NEW p \in DOMAIN args PROVE f[g.node[n].ins[p]] = Exact[args[p]]
        <4>1. f[g.node[n].ins[p]] = Exact[Source(model)[TensorOf(g.node[n].ins[p])]]
          BY <1>6, <3>5
        <4>2. Exact[Source(model)[args[p]]] = Exact[args[p]]
          BY <3>3, ExactOfSource
        <4> QED
          BY <4>1, <4>2, <3>1, <3>5 DEF args
      <3>7. a = b
        <4>1. b = [i \in DOMAIN args |-> Exact[args[i]]]
          BY DEF Args, args
        <4> QED
          BY <4>1, <3>5, <3>6
      <3>8. Body(fwd, env, f, n) = Apply(OpOf(n), a)
        BY <2>1, <3>1, <1>5 DEF Body
      <3>9. Exact[n] = Apply(OpOf(n), b)
        BY <2>1, <3>2, ExactIs
      <3> HIDE DEF a, b
      <3> QED
        BY <3>2, <3>7, <3>8, <3>9
    <2> QED
      BY <2>3, <2>4
  <1>8. ASSUME NEW n \in DOMAIN fwd.node PROVE f[n] = Body(fwd, env, f, n)
    <2>1. CASE fwd.node[n].type = "input"
      BY <2>1, <1>3 DEF Body
    <2>2. CASE fwd.node[n].type # "input" /\ n \in Forwards(g)
      BY <2>2, <1>3, <1>7 DEF ExactOf
    <2>3. CASE n \notin Forwards(g)
      <3>1. PICK x \in Saves(g) : n = <<"intermediate", x>>
        BY <2>3, <1>2 DEF Intermediates
      <3>2. fwd.node[n].type = "output" /\ fwd.node[n].ins = <<x>> /\ n[2] = x
        BY <3>1 DEF IsForward
      <3>3. x \in Forwards(g) /\ TypeOf(x) = "op"
        BY DEF Saves, ForwardOps, Forwards
      <3>4. f[x] = Exact[TensorOf(x)]
        <4>1. fwd.node[x].type = "op"
          BY <3>3, <1>5
        <4> QED
          BY <4>1, <3>3, <1>2, <1>3 DEF ExactOf
      <3>5. f[n] = Exact[TensorOf(x)]
        BY <3>2, <2>3, <1>3 DEF ExactOf
      <3>6. Body(fwd, env, f, n) = f[x]
        BY <3>2 DEF Body
      <3> QED
        BY <3>4, <3>5, <3>6
    <2> QED
      BY <2>1, <2>2, <2>3
  <1>9. ValuesStep(fwd, env, f)
    <2>1. f = [n \in DOMAIN fwd.node |-> f[n]]
      BY DEF f
    <2> QED
      BY <2>1, <1>8 DEF ValuesStep
  <1>10. ValuesStep(fwd, env, Values(fwd, env))
    BY <1>1, ValuesAre
  <1>11. Values(fwd, env) = f
    BY <1>1, <1>9, <1>10, ValuesSame
  <1> QED
    BY <1>2, <1>3, <1>11 DEF ExactOf

\* What the forward program returns to the user, if it runs at all, is what the module
\* computes.
LEMMA CallReturns ==
    ASSUME StepInv, Follows(model, graph), pool = Point, Call, stage' = "called"
    PROVE  Picked(Forward, results'["Forward"], Shown)
               = [i \in DOMAIN model.outs |-> Exact[model.outs[i]]]
  <1> DEFINE points == [i \in DOMAIN Forward.inputs |-> Point[Forward.inputs[i]]]
             actuals == Actuals(Forward, points)
             env == Bound(Forward, actuals)
             values == results'["Forward"]
  <1>1. /\ SplitInv /\ RunsInv /\ stage = "compiled" /\ RunProgram("Forward", points, "called")
    BY DEF StepInv, Call
  <1>2. /\ IsTraced(model) /\ Well(graph) /\ Listed(model, graph)
        /\ IsForward(graph, Forward) /\ Wired(Forward)
    BY <1>1, RunningGraph DEF Running
  <1>3. points \in Seq(Residues) /\ pool \in [Leaves -> Residues]
    BY <1>1, <1>2, ForwardInputsAre, PointsAre DEF RunsInv
  <1>4. values = OutputsOf(Forward, actuals) /\ Len(actuals) = Len(Formals(Forward))
    <2> HIDE DEF points
    <2> QED
      BY <1>1, <1>2, <1>3, RunIs DEF Forward
  <1>5. actuals \in Seq(Residues)
    BY <1>2, <1>3, ActualsAre DEF Wired
  <1>6. Runnable(Forward, env)
    BY <1>2, <1>4, <1>5, BoundRuns
  <1>7. \A n \in Leaves : n \in DOMAIN Forward.node /\ Read(Forward, n) => env[n] = Point[n]
    BY <1>2, <1>4, ForwardIsGiven
  <1> HIDE DEF points, env, actuals, values
  <1>8. \A n \in Forwards(graph) : Forward.node[n].type # "input" =>
           Values(Forward, env)[n] = Exact[TensorOf(n)]
    BY <1>2, <1>6, <1>7, ForwardValues
  <1>9. /\ graph.outputs \in Seq(DOMAIN graph.node) /\ Forward.outputs \in Seq(DOMAIN Forward.node)
        /\ Len(graph.outputs) = Len(model.outs) /\ DOMAIN graph.outputs = DOMAIN model.outs
        /\ \A i \in DOMAIN model.outs : graph.outputs[i] = Output(model.outs[i])
        /\ DOMAIN model.outs = 1..Len(model.outs)
        /\ Len(graph.outputs) \in 0..Len(Forward.outputs)
        /\ \A i \in DOMAIN graph.outputs : Forward.outputs[i] = graph.outputs[i]
    <2>1. graph.outputs \in Seq(DOMAIN graph.node) /\ graph.outputs = ModuleOutputs(model)
      BY <1>2 DEF Well, IsGraph, Listed
    <2>2. model.outs \in Seq(Tensors(Len(model.body)))
      BY <1>2 DEF IsTraced
    <2> QED
      BY <2>1, <2>2, <1>2, OutputsAre, ForwardOutputsAre, ShownAre
  <1>10. \A i \in DOMAIN Forward.outputs :
            Forward.outputs[i] \in Shown <=> i <= Len(graph.outputs)
    BY <1>2, ShownAre DEF Shown
  <1> DEFINE s == [i \in DOMAIN Forward.outputs |-> i]
             S == {i \in DOMAIN Forward.outputs : Forward.outputs[i] \in Shown}
             k == Len(graph.outputs)
             at == Only(s, S)
  <1>11. s \in Seq(Nat) /\ Len(s) = Len(Forward.outputs) /\ DOMAIN s = DOMAIN Forward.outputs
    <2>1. DOMAIN Forward.outputs = 1..Len(Forward.outputs) /\ Len(Forward.outputs) \in Nat
      BY <1>9
    <2>2. s \in [1..Len(Forward.outputs) -> Nat]
      BY <2>1
    <2> QED
      BY <2>1, <2>2
  <1>12. \A i \in DOMAIN s : s[i] \in S <=> i <= k
    BY <1>10
  <1>13. k \in 0..Len(s)
    BY <1>9, <1>11
  <1>14. \A i \in 1..k : s[i] = i
    BY <1>9, <1>11, <1>13
  <1>15. Picked(Forward, values, Shown) = [i \in DOMAIN at |-> values[at[i]]]
    BY DEF Picked
  <1> HIDE DEF s, S
  <1>16. at \in Seq(Nat) /\ Len(at) = k /\ \A i \in 1..k : at[i] = i
    <2> HIDE DEF k
    <2>1. /\ Only(s, S) \in Seq(Nat) /\ Len(Only(s, S)) = k
          /\ \A i \in 1..k : Only(s, S)[i] = s[i]
      BY <1>11, <1>12, <1>13, OnlyFront
    <2> QED
      BY <2>1, <1>14
  <1>17. DOMAIN at = DOMAIN model.outs /\ \A i \in DOMAIN model.outs : at[i] = i
    BY <1>9, <1>16
  <1> HIDE DEF at
  <1>18. ASSUME NEW i \in DOMAIN model.outs PROVE values[i] = Exact[model.outs[i]]
    <2> DEFINE o == Output(model.outs[i])
    <2>1. i \in DOMAIN Forward.outputs /\ Forward.outputs[i] = o
      <3>1. i \in 1..k /\ DOMAIN Forward.outputs = 1..Len(Forward.outputs)
        BY <1>9
      <3>2. i \in 1..Len(Forward.outputs)
        BY <3>1, <1>9
      <3> QED
        BY <3>1, <3>2, <1>9
    <2>2. values[i] = Values(Forward, env)[o]
      BY <2>1, <1>4 DEF OutputsOf, env
    <2>3. o \in Forwards(graph) /\ Forward.node[o].type # "input"
      <3>1. o \in DOMAIN graph.node
        BY <1>9
      <3>2. EpochOf(o) = "fwd" /\ TypeOf(o) = "output"
        BY NamesAre DEF Output
      <3> QED
        BY <3>1, <3>2, <1>2 DEF Forwards, IsForward
    <2>4. TensorOf(o) = model.outs[i]
      BY NotLeaves, KindsDiffer DEF TensorOf, Output
    <2> QED
      BY <2>2, <2>3, <2>4, <1>8
  <1> QED
    BY <1>15, <1>17, <1>18 DEF values

\* The step's invariant, with what the graph stands for until the pool is changed.
ReturnsInv ==
    /\ StepInv
    /\ stage # "trace" => Follows(model, graph)
    /\ stage # "stepped" => pool = Point
    /\ ForwardReturnsTheOutputs

\* Later runs leave the forward program's results.
LEMMA ResultsStay ==
    ASSUME NEW p, p # "Forward", NEW activations, NEW to, RunProgram(p, activations, to),
           "Forward" \in DOMAIN results'
    PROVE  "Forward" \in DOMAIN results /\ results'["Forward"] = results["Forward"]
  BY DEF RunProgram, With

\* Every step keeps the invariant.
LEMMA ReturnsKeep ==
    ASSUME ReturnsInv, [Next]_stepVars
    PROVE  ReturnsInv'
  <1>1. StepInv' /\ StepInv
    BY StepKeeps DEF ReturnsInv
  <1> DEFINE returned == Picked(Forward, results["Forward"], Shown)
             computed == [i \in DOMAIN model.outs |-> Exact[model.outs[i]]]
  <1>2. ForwardReturnsTheOutputs <=> ("Forward" \in DOMAIN results => returned = computed)
    BY DEF ForwardReturnsTheOutputs
  <1>3. ASSUME model' = model, programs' = programs
        PROVE  Forward' = Forward /\ Shown' = Shown /\ Exact' = Exact
    BY <1>3 DEF Forward, Shown, IsExternal, Exact, OpOf, Args
  <1>4. ASSUME "Forward" \in DOMAIN results' =>
                  /\ model' = model /\ programs' = programs /\ "Forward" \in DOMAIN results
                  /\ results'["Forward"] = results["Forward"]
        PROVE  ForwardReturnsTheOutputs'
    <2> SUFFICES ASSUME "Forward" \in DOMAIN results'
                 PROVE  Picked(Forward', results'["Forward"], Shown')
                            = [i \in DOMAIN model'.outs |-> Exact'[model'.outs[i]]]
      BY DEF ForwardReturnsTheOutputs
    <2>1. returned = computed
      BY <1>2, <1>4 DEF ReturnsInv
    <2> QED
      BY <2>1, <1>3, <1>4
  <1>5. CASE UNCHANGED stepVars
    <2>1. UNCHANGED <<model, stage, graph, programs, results, pool>>
      BY <1>5 DEF stepVars, splitVars, autogradVars
    <2>2. ForwardReturnsTheOutputs'
      BY <2>1, <1>4
    <2>3. stage' # "trace" => Follows(model', graph')
      BY <2>1 DEF ReturnsInv
    <2>4. stage' # "stepped" => pool' = Point
      BY <2>1 DEF ReturnsInv
    <2> QED
      BY <2>2, <2>3, <2>4, <1>1 DEF ReturnsInv
  <1>6. CASE Next
    <2>1. stage' # "trace" => Follows(model', graph')
      BY <1>6, FollowsOn DEF ReturnsInv
    <2>2. stage' # "stepped" => pool' = Point
      BY <1>6, PoolStays DEF ReturnsInv
    <2>3. ForwardReturnsTheOutputs'
      <3>1. CASE Compile
        <4>1. stage \notin Running /\ results' = results
          BY <3>1, CompileStages DEF Compile
        <4>2. DOMAIN results = {}
          BY <4>1, <1>1 DEF StepInv, RunsInv
        <4> QED
          BY <4>1, <4>2, <1>4
      <3>2. CASE Call
        <4> DEFINE points == [i \in DOMAIN Forward.inputs |-> Point[Forward.inputs[i]]]
        <4>1. /\ stage = "compiled" /\ model' = model /\ programs' = programs
              /\ RunProgram("Forward", points, "called")
          BY <3>2 DEF Call
        <4>2. DOMAIN results = {}
          BY <4>1, <1>1 DEF StepInv, RunsInv, Running
        <4> HIDE DEF points
        <4>3. stage' = "called" \/ results' = results
          BY <4>1 DEF RunProgram
        <4>4. CASE stage' = "called"
          <5>1. /\ StepInv /\ Follows(model, graph) /\ pool = Point
            BY <4>1 DEF ReturnsInv
          <5>2. Picked(Forward, results'["Forward"], Shown) = computed
            BY <5>1, <3>2, <4>4, CallReturns
          <5>3. Picked(Forward', results'["Forward"], Shown')
                    = [i \in DOMAIN model'.outs |-> Exact'[model'.outs[i]]]
            BY <5>2, <4>1, <1>3
          <5> QED
            BY <5>3 DEF ForwardReturnsTheOutputs
        <4>5. CASE results' = results
          BY <4>2, <4>5, <1>4
        <4> QED
          BY <4>3, <4>4, <4>5
      <3>3. CASE LossBackward
        BY <3>3, <1>4 DEF LossBackward
      <3>4. CASE RunBackward
        <4>1. model' = model /\ programs' = programs
              /\ RunProgram("Backward", BackwardActivations, "differentiated")
          BY <3>4 DEF RunBackward
        <4> QED
          BY <4>1, <1>4, ResultsStay
      <3>5. CASE Step
        <4>1. model' = model /\ programs' = programs
              /\ RunProgram("Optimizer", results["Backward"], "stepped")
          BY <3>5 DEF Step
        <4> QED
          BY <4>1, <1>4, ResultsStay
      <3>6. CASE Finished
        BY <3>6, <1>4 DEF Finished, stepVars, splitVars, autogradVars
      <3> QED
        BY <1>6, <3>1, <3>2, <3>3, <3>4, <3>5, <3>6 DEF Next
    <2> QED
      BY <1>1, <2>1, <2>2, <2>3 DEF ReturnsInv
  <1> QED
    BY <1>5, <1>6

\* The forward program returns what the module computes, in the user's order, although
\* the values saved for the backward pass are among its outputs
\* (compiled_graph_state.py:343-353): whatever the module, the passes that rewrite its
\* graph and the split keep the element of every forward node.
THEOREM ForwardAlwaysReturns == Spec => []ForwardReturnsTheOutputs
  <1>1. Init => ReturnsInv
    BY StepStarts DEF Init, SplitInit, AutogradInit, ReturnsInv, ForwardReturnsTheOutputs
  <1>2. ReturnsInv /\ [Next]_stepVars => ReturnsInv'
    BY ReturnsKeep
  <1>3. ReturnsInv => ForwardReturnsTheOutputs
    BY DEF ReturnsInv
  <1> QED
    BY <1>1, <1>2, <1>3, PTL DEF Spec

-----------------------------------------------------------------------------
\* The operands of the backward ops.

\* No module returns a tensor twice.
ResultsDiffer == "result twice" \notin Awkward

\* Then no two outputs have one source.
LEMMA SourcesDiffer ==
    ASSUME NEW m, IsTraced(m), ResultsDiffer, NEW i \in DOMAIN m.outs, NEW j \in DOMAIN m.outs,
           Source(m)[m.outs[i]] = Source(m)[m.outs[j]]
    PROVE  i = j
  <1>1. "result twice" \notin Kinds(m)
    BY DEF IsTraced, ResultsDiffer
  <1> QED
    BY <1>1 DEF Kinds

\* An output of the module shows the tensor it is named for.
LEMMA OutputShows ==
    ASSUME NEW m, IsTraced(m), NEW g, Well(g), Listed(m, g), Follows(m, g),
           NEW o \in Forwards(g), TypeOf(o) = "output", NEW x \in ToSet(g.node[o].ins)
    PROVE  \E i \in DOMAIN m.outs :
              o = Output(m.outs[i]) /\ Source(m)[m.outs[i]] = Source(m)[TensorOf(x)]
  <1>1. o \in DOMAIN g.node /\ EpochOf(o) = "fwd" /\ o \notin Leaves
    BY DEF Forwards, TypeOf
  <1>2. OneOf(o, {"output"})
    BY <1>1 DEF TypeOf, EpochOf, FwdKinds, OptKinds, OneOf
  <1>3. PICK i \in DOMAIN m.outs : o = Output(m.outs[i])
    <2>1. o \in OutputNodes(m)
      BY <1>1, <1>2 DEF Listed
    <2> QED
      BY <2>1 DEF OutputNodes, ModuleOutputs, ToSet
  <1>4. TensorOf(o) = m.outs[i]
    BY <1>3, NotLeaves, KindsDiffer DEF TensorOf, Output
  <1>5. x = g.node[o].ins[1]
    BY <1>1, OutputReads
  <1>6. Source(m)[TensorOf(x)] = Source(m)[TensorOf(o)]
    BY <1>1, <1>5 DEF Follows, FollowsOp
  <1> QED
    BY <1>3, <1>4, <1>6

Single(S) == \E o : S = {o}

\* What the backward pass reads of a forward op is shown by one output.
LEMMA ShownOnce ==
    ASSUME NEW m, IsTraced(m), ResultsDiffer, NEW g, Well(g), Listed(m, g), Follows(m, g),
           NEW fwd, IsForward(g, fwd), NEW x \in ForwardOps(g), ReadIn(g, x, "bwd")
    PROVE  Single(Showing(fwd, x))
  <1>1. DOMAIN fwd.node = Forwards(g) \cup Intermediates(g)
    BY DEF IsForward
  <1>2. ASSUME NEW o \in Showing(fwd, x)
        PROVE  \/ o = <<"intermediate", x>> /\ x \in Saves(g)
               \/ o \in Forwards(g) /\ TypeOf(o) = "output" /\ x \in ToSet(g.node[o].ins)
    <2>1. o \in DOMAIN fwd.node /\ fwd.node[o].type = "output" /\ x \in ToSet(fwd.node[o].ins)
      BY <1>2 DEF Showing
    <2>2. CASE o \in Forwards(g)
      BY <2>1, <2>2 DEF IsForward
    <2>3. CASE o \in Intermediates(g)
      <3>1. PICK y \in Saves(g) : o = <<"intermediate", y>>
        BY <2>3 DEF Intermediates
      <3>2. fwd.node[o].ins = <<y>>
        BY <3>1 DEF IsForward
      <3>3. x = y
        BY <2>1, <3>2 DEF ToSet
      <3> QED
        BY <3>1, <3>3
    <2> QED
      BY <1>1, <2>1, <2>2, <2>3
  <1>3. ASSUME NEW o \in Forwards(g), TypeOf(o) = "output", x \in ToSet(g.node[o].ins)
        PROVE  x \notin Saves(g)
    BY <1>3 DEF Saves, Forwards
  <1>4. ASSUME NEW o \in Forwards(g), TypeOf(o) = "output", x \in ToSet(g.node[o].ins),
               NEW u \in Forwards(g), TypeOf(u) = "output", x \in ToSet(g.node[u].ins)
        PROVE  o = u
    <2>1. PICK i \in DOMAIN m.outs :
             o = Output(m.outs[i]) /\ Source(m)[m.outs[i]] = Source(m)[TensorOf(x)]
      BY <1>4, OutputShows
    <2>2. PICK j \in DOMAIN m.outs :
             u = Output(m.outs[j]) /\ Source(m)[m.outs[j]] = Source(m)[TensorOf(x)]
      BY <1>4, OutputShows
    <2>3. i = j
      BY <2>1, <2>2, SourcesDiffer
    <2> QED
      BY <2>1, <2>2, <2>3
  <1>5. PICK o : o \in Showing(fwd, x)
    BY ShowingIs
  <1>6. \A u \in Showing(fwd, x) : u = o
    BY <1>2, <1>3, <1>4, <1>5
  <1> QED
    BY <1>5, <1>6 DEF Single

\* The backward graph has every backward op, with as many operands as it had.
LEMMA SplitKeepsOperands ==
    ASSUME StepInv, stage # "trace" => Follows(model, graph), ResultsDiffer
    PROVE  OperandsKept
  <1> SUFFICES ASSUME "Backward" \in DOMAIN programs, NEW n \in DOMAIN graph.node,
                      graph.node[n].type = "op", graph.node[n].epoch = "bwd"
               PROVE  /\ HasNode(Backward, n)
                      /\ Len(Backward.node[n].ins) = Len(graph.node[n].ins)
    BY DEF OperandsKept
  <1>1. /\ IsTraced(model) /\ Well(graph) /\ Listed(model, graph) /\ Follows(model, graph)
        /\ IsForward(graph, Forward) /\ IsBackward(graph, Forward, Backward)
    BY DEF StepInv, SplitInv, AutogradInv, ProgramsInv, Stages, Building, Forward, Backward
  <1>2. n \in Backwards(graph) /\ TypeOf(n) = "op" /\ graph.node[n].ins \in Seq(DOMAIN graph.node)
    BY <1>1 DEF Well, Whole, Fits, Backwards, IsGraph, Records
  <1>3. BackwardName(n) = n
    BY <1>2 DEF BackwardName
  <1>4. /\ n \in DOMAIN Backward.node
        /\ IsBackwardOperands(graph, Forward, graph.node[n].ins, Backward.node[n].ins)
    <2>1. n \in {BackwardName(b) : b \in Backwards(graph)}
      BY <1>2, <1>3
    <2>2. IsBackwardNode(graph, Forward, n, Backward.node[n])
      BY <1>1, <1>2, <1>3 DEF IsBackward, IsBackwardOf
    <2> QED
      BY <2>1, <2>2, <1>1, <1>2 DEF IsBackward, IsBackwardOf, IsBackwardNode
  <1>5. ASSUME NEW x \in ToSet(graph.node[n].ins) \cap ForwardOps(graph)
        PROVE  \E o : Showing(Forward, x) = {o}
    <2>1. ReadIn(graph, x, "bwd")
      BY <1>1, <1>2, BackwardReads
    <2>2. x \in ForwardOps(graph)
      OBVIOUS
    <2>3. Single(Showing(Forward, x))
      BY <2>1, <2>2, <1>1, ShownOnce
    <2> QED
      BY <2>3 DEF Single
  <1> QED
    BY <1>4, <1>5 DEF IsBackwardOperands, HasNode

\* Whatever the module, if it returns no tensor twice: the split gives every backward op
\* as many operands as it had in the whole graph (split_graph.cpp:206-257), which
\* test_split_graph.cpp:130-131 looks at for one module.
THEOREM OperandsAlwaysKept == ResultsDiffer => (Spec => []OperandsKept)
  <1> SUFFICES ASSUME ResultsDiffer PROVE Spec => []OperandsKept
    OBVIOUS
  <1>1. Init => ReturnsInv
    BY StepStarts DEF Init, SplitInit, AutogradInit, ReturnsInv, ForwardReturnsTheOutputs
  <1>2. ReturnsInv /\ [Next]_stepVars => ReturnsInv'
    BY ReturnsKeep
  <1>3. ReturnsInv => OperandsKept
    BY SplitKeepsOperands DEF ReturnsInv
  <1> QED
    BY <1>1, <1>2, <1>3, PTL DEF Spec

-----------------------------------------------------------------------------
\* The order of the outputs.

\* x is output number i of the module, or the gradient it is given.
IsNth(m, i, x) == x = Output(m.outs[i]) \/ x = <<"gradient", Output(m.outs[i])>>
\* Of the outputs x and y stand for, that of x comes first.
Precedes(m, x, y) == \A i, j \in DOMAIN m.outs : IsNth(m, i, x) /\ IsNth(m, j, y) => i < j
InOrder(m, s) == \A a, b \in DOMAIN s : a < b => Precedes(m, s[a], s[b])
Before(m, s, t) == \A x \in ToSet(s) : \A y \in ToSet(t) : Precedes(m, x, y)

\* Most nodes have nothing to do with an output.
LEMMA NoOutputs ==
    ASSUME NEW m, NEW x, x \in Leaves \/ ~OneOf(x, {"output", "gradient"})
    PROVE  \A i : ~IsNth(m, i, x)
  <1>1. \A y : Output(y) \notin Leaves /\ <<"gradient", y>> \notin Leaves
    BY NotLeaves DEF Output
  <1>2. \A y : OneOf(Output(y), {"output", "gradient"}) /\ OneOf(<<"gradient", y>>, {"output", "gradient"})
    BY KindsDiffer DEF Output
  <1> QED
    BY <1>1, <1>2 DEF IsNth

\* What is kept of a list is in its order.
LEMMA OnlyInOrder ==
    ASSUME NEW m, NEW T, NEW s \in Seq(T), InOrder(m, s), NEW S
    PROVE  InOrder(m, Only(s, S))
  <1>1. PICK at : Picks(s, S, Len(s), Only(s, S), at)
    BY OnlyPicks
  <1> DEFINE t == Only(s, S)
  <1>2. t \in Seq(T)
    BY OnlyPicks
  <1>3. /\ at \in [1..Len(t) -> 1..Len(s)]
        /\ \A i, j \in 1..Len(t) : i < j => at[i] < at[j]
        /\ \A i \in 1..Len(t) : s[at[i]] = t[i]
    BY <1>1 DEF Picks
  <1> HIDE DEF t
  <1>4. DOMAIN t = 1..Len(t) /\ DOMAIN s = 1..Len(s)
    BY <1>2, Entries
  <1> SUFFICES ASSUME NEW a \in DOMAIN t, NEW b \in DOMAIN t, a < b PROVE Precedes(m, t[a], t[b])
    BY DEF InOrder, t
  <1>5. at[a] \in DOMAIN s /\ at[b] \in DOMAIN s /\ at[a] < at[b]
    BY <1>3, <1>4
  <1>6. Precedes(m, s[at[a]], s[at[b]])
    BY <1>5 DEF InOrder
  <1> QED
    BY <1>3, <1>4, <1>6

\* So is a list with one more entry behind what precedes it.
LEMMA AppendInOrder ==
    ASSUME NEW m, NEW T, NEW s \in Seq(T), InOrder(m, s), NEW x,
           \A y \in ToSet(s) : Precedes(m, y, x)
    PROVE  InOrder(m, Append(s, x))
  <1> DEFINE t == Append(s, x)
  <1>1. /\ DOMAIN t = 1..(Len(s) + 1) /\ DOMAIN s = 1..Len(s) /\ Len(s) \in Nat
        /\ \A i \in DOMAIN s : t[i] = s[i] /\ s[i] \in ToSet(s)
        /\ t[Len(s) + 1] = x
    BY AppendMembers, Entries
  <1> HIDE DEF t
  <1> SUFFICES ASSUME NEW a \in DOMAIN t, NEW b \in DOMAIN t, a < b PROVE Precedes(m, t[a], t[b])
    BY DEF InOrder, t
  <1>2. a \in DOMAIN s /\ (b \in DOMAIN s \/ b = Len(s) + 1)
    BY <1>1
  <1>3. CASE b \in DOMAIN s
    <2>1. Precedes(m, s[a], s[b])
      BY <1>2, <1>3 DEF InOrder
    <2> QED
      BY <2>1, <1>1, <1>2, <1>3
  <1>4. CASE b = Len(s) + 1
    BY <1>1, <1>2, <1>4
  <1> QED
    BY <1>2, <1>3, <1>4

\* And a list without its first.
LEMMA TailInOrder ==
    ASSUME NEW m, NEW T, NEW s \in Seq(T), s # <<>>, InOrder(m, s)
    PROVE  /\ InOrder(m, Tail(s)) /\ ToSet(Tail(s)) \subseteq ToSet(s)
           /\ \A y \in ToSet(Tail(s)) : Precedes(m, Head(s), y)
  <1>1. /\ Tail(s) \in Seq(T) /\ ToSet(s) = {Head(s)} \cup ToSet(Tail(s))
        /\ DOMAIN Tail(s) = 1..(Len(s) - 1) /\ Len(s) \in Nat \ {0} /\ Head(s) = s[1]
        /\ \A i \in 1..(Len(s) - 1) : Tail(s)[i] = s[i + 1]
    BY Rest
  <1>2. DOMAIN s = 1..Len(s)
    BY Entries
  <1> DEFINE t == Tail(s)
             h == Head(s)
  <1> HIDE DEF t, h
  <1>3. /\ DOMAIN t = 1..(Len(s) - 1) /\ h = s[1]
        /\ \A i \in DOMAIN t : t[i] = s[i + 1] /\ i + 1 \in DOMAIN s /\ 1 \in DOMAIN s /\ 1 < i + 1
    BY <1>1, <1>2 DEF t, h
  <1>4. InOrder(m, t)
    <2> SUFFICES ASSUME NEW a \in DOMAIN t, NEW b \in DOMAIN t, a < b PROVE Precedes(m, t[a], t[b])
      BY DEF InOrder
    <2>1. a + 1 \in DOMAIN s /\ b + 1 \in DOMAIN s /\ a + 1 < b + 1
      BY <1>3
    <2>2. Precedes(m, s[a + 1], s[b + 1])
      BY <2>1 DEF InOrder
    <2> QED
      BY <2>2, <1>3
  <1>5. ASSUME NEW y \in ToSet(t) PROVE Precedes(m, h, y)
    <2>1. PICK i \in DOMAIN t : t[i] = y
      BY DEF ToSet
    <2>2. Precedes(m, s[1], s[i + 1])
      BY <1>3 DEF InOrder
    <2> QED
      BY <2>1, <2>2, <1>3
  <1> QED
    BY <1>1, <1>4, <1>5 DEF t, h

-----------------------------------------------------------------------------
\* Adding nodes changes no list but that of the nodes.
Fields(g) == DOMAIN g = {"nodes", "node", "inputs", "outputs"}
LEMMA AddingKeeps ==
    ASSUME NEW g, Fields(g)
    PROVE  /\ \A n, rec : /\ Fields(AddNode(g, n, rec)) /\ AddNode(g, n, rec).inputs = g.inputs
                          /\ AddNode(g, n, rec).nodes = Append(g.nodes, n)
           /\ \A s, rec : Fields(AddNodes(g, s, rec)) /\ AddNodes(g, s, rec).inputs = g.inputs
           /\ \A p, c : Fields(AddEdge(g, p, c)) /\ AddEdge(g, p, c).nodes = g.nodes
           /\ \A n : Fields(RemoveNode(g, n)) /\ RemoveNode(g, n).inputs = g.inputs
  BY DEF Fields, AddNode, AddNodes, AddEdge, RemoveNode
LEMMA GraphFields ==
    ASSUME NEW g, IsGraph(g)
    PROVE  Fields(g) /\ g.nodes \in Seq(DOMAIN g.node) /\ g.inputs \in Seq(DOMAIN g.node)
  BY DEF IsGraph, Fields

\* The module's outputs are listed in order.
LEMMA OutputsInOrder ==
    ASSUME NEW m, IsTraced(m)
    PROVE  InOrder(m, ModuleOutputs(m))
  <1>1. /\ Distinct(ModuleOutputs(m)) /\ DOMAIN ModuleOutputs(m) = DOMAIN m.outs
        /\ \A i \in DOMAIN m.outs : ModuleOutputs(m)[i] = Output(m.outs[i])
    BY OutputsAre
  <1>2. ASSUME NEW i \in DOMAIN m.outs, NEW a \in DOMAIN m.outs, IsNth(m, i, Output(m.outs[a]))
        PROVE  i = a
    <2>1. \A x, y : Output(x) # <<"gradient", y>>
      BY KindsDiffer DEF Output
    <2>2. Output(m.outs[i]) = Output(m.outs[a])
      BY <2>1, <1>2 DEF IsNth
    <2> QED
      BY <2>2, <1>1 DEF Distinct
  <1> SUFFICES ASSUME NEW a \in DOMAIN m.outs, NEW b \in DOMAIN m.outs, a < b
               PROVE  Precedes(m, Output(m.outs[a]), Output(m.outs[b]))
    BY <1>1 DEF InOrder
  <1> QED
    BY <1>2 DEF Precedes

\* The first graph lists nothing else.
LEMMA OrderedFirst ==
    ASSUME AutogradInit
    PROVE  InOrder(model, graph.nodes)
  <1>1. IsTraced(model)
    BY InitIsTraced
  <1>2. Outputs = ModuleOutputs(model) /\ ModuleOutputs(model) \in Seq(OutputNodes(model))
    BY <1>1, OutputsAre DEF Outputs, ModuleOutputs
  <1> DEFINE rec == [o \in ToSet(Outputs) |-> Node("output", "external", "fwd", <<>>)]
  <1>3. graph = AddNodes(EmptyGraph, Outputs, rec)
    BY DEF AutogradInit
  <1> HIDE DEF rec
  <1>4. EmptyGraph.nodes = <<>> /\ DOMAIN EmptyGraph = {"nodes", "node", "inputs", "outputs"}
    BY DEF EmptyGraph
  <1>5. AddNodes(EmptyGraph, Outputs, rec).nodes = EmptyGraph.nodes \o Outputs
    BY <1>4 DEF AddNodes
  <1>6. graph.nodes = ModuleOutputs(model)
    BY <1>2, <1>3, <1>4, <1>5
  <1> QED
    BY <1>1, <1>6, OutputsInOrder

\* What comes while the module is traced is no output.
LEMMA OrderedVisits ==
    ASSUME IsTraced(model), IsTracing(model, graph, todo), VisitTensor,
           InOrder(model, graph.nodes)
    PROVE  InOrder(model, graph'.nodes)
  <1> DEFINE t == Head(todo).tensor
             user == Head(todo).user
             nop == <<"nop", user>>
             B == Tensors(Len(model.body))
  <1>1. IsGraph(graph) /\ Waiting(model, graph, todo) /\ todo # <<>>
    BY DEF IsTracing, VisitTensor
  <1>2. Fields(graph) /\ graph.nodes \in Seq(DOMAIN graph.node)
    BY <1>1, GraphFields
  <1>3. t \in B
    <2> DEFINE R == [tensor : B, user : DOMAIN graph.node, port : Nat]
    <2>1. todo \in Seq(R)
      BY <1>1 DEF Waiting
    <2>2. Head(todo) \in R
      BY <2>1, <1>1, Rest
    <2> QED
      BY <2>2
  <1>4. \A i : ~IsNth(model, i, t)
    <2>1. Len(model.body) \in Int
      BY DEF IsTraced, IsBody
    <2>2. t \in Leaves \/ t[1] = "op"
      BY <1>3, <2>1, TensorsAre
    <2>3. t \in Leaves \/ ~OneOf(t, {"output", "gradient"})
      BY <2>2, KindsDiffer
    <2> HIDE DEF t
    <2> QED
      BY <2>3, NoOutputs
  <1>5. \A i : ~IsNth(model, i, nop)
    <2>1. ~OneOf(nop, {"output", "gradient"})
      BY KindsDiffer
    <2> HIDE DEF nop
    <2> QED
      BY <2>1, NoOutputs
  <1>6. ASSUME NEW g, Fields(g), NEW T, g.nodes \in Seq(T), InOrder(model, g.nodes),
               NEW x, \A i : ~IsNth(model, i, x), NEW rec
        PROVE  /\ Fields(AddNode(g, x, rec)) /\ InOrder(model, AddNode(g, x, rec).nodes)
               /\ AddNode(g, x, rec).nodes \in Seq(T \cup {x})
    <2>1. Fields(AddNode(g, x, rec)) /\ AddNode(g, x, rec).nodes = Append(g.nodes, x)
      BY <1>6, AddingKeeps
    <2>2. \A y \in ToSet(g.nodes) : Precedes(model, y, x)
      BY <1>6 DEF Precedes
    <2>3. InOrder(model, Append(g.nodes, x))
      BY <1>6, <2>2, AppendInOrder
    <2>4. g.nodes \in Seq(T \cup {x})
      BY <1>6
    <2>5. Append(g.nodes, x) \in Seq(T \cup {x})
      BY <2>4
    <2> QED
      BY <2>1, <2>3, <2>5
  <1>7. ASSUME NEW g, Fields(g), InOrder(model, g.nodes), NEW p, NEW c
        PROVE  InOrder(model, AddEdge(g, p, c).nodes)
    BY <1>7, AddingKeeps
  <1>8. CASE graph' = AddEdge(graph, t, user)
    BY <1>2, <1>7, <1>8
  <1>9. CASE \E a, b : graph' = AddEdge(AddNode(AddNode(graph, t, a), nop, b), nop, user)
    <2>1. PICK a, b : graph' = AddEdge(AddNode(AddNode(graph, t, a), nop, b), nop, user)
      BY <1>9
    <2> DEFINE g1 == AddNode(graph, t, a)
    <2> HIDE DEF t, nop, user
    <2>2. Fields(g1) /\ InOrder(model, g1.nodes) /\ g1.nodes \in Seq(DOMAIN graph.node \cup {t})
      BY <1>2, <1>4, <1>6
    <2> HIDE DEF g1
    <2>3. Fields(AddNode(g1, nop, b)) /\ InOrder(model, AddNode(g1, nop, b).nodes)
      BY <2>2, <1>5, <1>6
    <2> QED
      BY <2>1, <2>3, <1>7 DEF g1
  <1>10. CASE \E a : graph' = AddEdge(AddNode(graph, t, a), t, user)
    <2>1. PICK a : graph' = AddEdge(AddNode(graph, t, a), t, user)
      BY <1>10
    <2> HIDE DEF t, nop, user
    <2>2. Fields(AddNode(graph, t, a)) /\ InOrder(model, AddNode(graph, t, a).nodes)
      BY <1>2, <1>4, <1>6
    <2> QED
      BY <2>1, <2>2, <1>7
  <1>11. \/ graph' = AddEdge(graph, t, user)
         \/ \E a, b : graph' = AddEdge(AddNode(AddNode(graph, t, a), nop, b), nop, user)
         \/ \E a : graph' = AddEdge(AddNode(graph, t, a), t, user)
    BY DEF VisitTensor
  <1> QED
    BY <1>8, <1>9, <1>10, <1>11

\* The outputs take their turns in order.
LEMMA OrderedTurns ==
    ASSUME IsTraced(model), Well(graph), Listed(model, graph), IsTrace(model, graph),
           InOrder(model, graph.nodes)
    PROVE  /\ InOrder(model, OfType(graph, "output")) /\ InOrder(model, graph.inputs)
           /\ Before(model, graph.inputs, OfType(graph, "output"))
  <1>1. IsGraph(graph)
    BY DEF Well
  <1>2. graph.nodes \in Seq(DOMAIN graph.node) /\ graph.inputs \in Seq(DOMAIN graph.node)
    BY <1>1, GraphFields
  <1>3. InOrder(model, OfType(graph, "output"))
    BY <1>2, OnlyInOrder DEF OfType
  <1>4. ASSUME NEW x \in ToSet(graph.inputs) PROVE \A i : ~IsNth(model, i, x)
    <2>1. x \in DOMAIN graph.node
      BY <1>2, Entries
    <2>2. x \in ToSet(Activations) \/ OneOf(x, {"gradient"})
      BY DEF Listed
    <2>3. ~OneOf(x, {"gradient"})
      BY <2>1 DEF IsTrace, OnlyKinds, FwdKinds, OneOf
    <2> QED
      BY <2>2, <2>3, NoOutputs DEF Leaves
  <1>5. InOrder(model, graph.inputs)
    <2>1. \A i \in DOMAIN graph.inputs : graph.inputs[i] \in ToSet(graph.inputs)
      BY <1>2, Entries
    <2> QED
      BY <2>1, <1>4 DEF InOrder, Precedes
  <1>6. Before(model, graph.inputs, OfType(graph, "output"))
    BY <1>4 DEF Before, Precedes
  <1> QED
    BY <1>3, <1>5, <1>6

\* So the gradients are listed in their order.
LEMMA OrderedSeeds ==
    ASSUME IsTraced(model), Well(graph), IsSeeding(model, graph, todo, requires_grad, gradients),
           CreateGradientInput, InOrder(model, graph.inputs), InOrder(model, todo),
           Before(model, graph.inputs, todo)
    PROVE  /\ InOrder(model, graph'.inputs) /\ InOrder(model, todo')
           /\ Before(model, graph'.inputs, todo')
  <1> DEFINE o == Head(todo)
             grad == <<"gradient", o>>
             s == graph.inputs
             t == Tail(todo)
  <1>1. IsGraph(graph) /\ todo # <<>> /\ todo' = t /\ todo \in Seq(OutputNodes(model))
    BY DEF Well, CreateGradientInput, IsSeeding
  <1>2. Fields(graph) /\ s \in Seq(DOMAIN graph.node)
    BY <1>1, GraphFields
  <1>3. InOrder(model, t) /\ ToSet(t) \subseteq ToSet(todo) /\ \A y \in ToSet(t) : Precedes(model, o, y)
    BY <1>1, TailInOrder
  <1>4. o \in ToSet(todo) /\ o \in OutputNodes(model)
    BY <1>1, Rest
  <1>5. \A i \in DOMAIN model.outs : IsNth(model, i, grad) => IsNth(model, i, o)
    <2>1. \A x, y, z : <<"gradient", x>> = <<"gradient", y>> => x = y
      OBVIOUS
    <2>2. \A x, y : <<"gradient", x>> # Output(y)
      BY KindsDiffer DEF Output
    <2> HIDE DEF o
    <2> QED
      BY <2>1, <2>2 DEF IsNth
  <1>6. \A y \in ToSet(s) : Precedes(model, y, grad)
    <2>1. \A y \in ToSet(s) : Precedes(model, y, o)
      BY <1>4 DEF Before
    <2> HIDE DEF grad, o
    <2> QED
      BY <2>1, <1>5 DEF Precedes
  <1>7. \A y \in ToSet(t) : Precedes(model, grad, y)
    <2> HIDE DEF grad, o, t
    <2> QED
      BY <1>3, <1>5 DEF Precedes
  <1>8. CASE graph' = graph
    BY <1>1, <1>3, <1>8 DEF Before
  <1>9. CASE graph' = [AddNode(graph, grad, Node("input", "gradient", "bwd", <<>>))
                          EXCEPT !.inputs = Append(@, grad)]
    <2> DEFINE k == AddNode(graph, grad, Node("input", "gradient", "bwd", <<>>))
    <2>1. Fields(k) /\ k.inputs = s
      BY <1>2, AddingKeeps
    <2> HIDE DEF k
    <2>2. graph'.inputs = Append(s, grad)
      BY <2>1, <1>9 DEF Fields, k
    <2> HIDE DEF s, grad, o, t
    <2>3. InOrder(model, Append(s, grad))
      BY <1>2, <1>6, AppendInOrder DEF s
    <2>4. ToSet(Append(s, grad)) = ToSet(s) \cup {grad}
      BY <1>2, AppendMembers
    <2>5. Before(model, Append(s, grad), t)
      BY <2>4, <1>3, <1>7 DEF Before, s
    <2> QED
      BY <2>2, <2>3, <2>5, <1>1, <1>3
  <1> QED
    BY <1>8, <1>9 DEF CreateGradientInput

\* Pruning changes no list but that of the nodes.
LEMMA PrunedInputs ==
    ASSUME NEW g, Fields(g), NEW T, NEW s \in Seq(T)
    PROVE  Pruned(g, s).inputs = g.inputs
  <1>1. PICK left : LeftUpTo(g, s, Len(s), left) /\ Pruned(g, s) = left[Len(s)]
    BY PrunedDefined
  <1>2. Len(s) \in Nat
    BY Entries
  <1>3. left[0] = g /\ \A i \in 1..Len(s) :
           left[i] = IF Users(left[i - 1], s[i]) = <<>> THEN RemoveNode(left[i - 1], s[i])
                                                        ELSE left[i - 1]
    BY <1>1, <1>2 DEF LeftUpTo
  <1> DEFINE Done(i) == Fields(left[i]) /\ left[i].inputs = g.inputs
             Good == {i \in Nat : i <= Len(s) => Done(i)}
  <1>4. 0 \in Good
    BY <1>3
  <1>5. ASSUME NEW i \in Nat, i \in Good PROVE i + 1 \in Good
    <2> SUFFICES ASSUME i + 1 <= Len(s) PROVE Done(i + 1)
      OBVIOUS
    <2>1. i + 1 \in 1..Len(s) /\ (i + 1) - 1 = i /\ i <= Len(s)
      BY <1>2
    <2>2. left[i + 1] = IF Users(left[i], s[i + 1]) = <<>> THEN RemoveNode(left[i], s[i + 1])
                                                           ELSE left[i]
      BY <2>1, <1>3
    <2>3. Done(i)
      BY <2>1, <1>5
    <2> QED
      BY <2>2, <2>3, AddingKeeps
  <1>6. \A i \in Nat : i \in Good
    <2> HIDE DEF Good
    <2> QED
      BY <1>4, <1>5, SetInduction
  <1> QED
    BY <1>1, <1>2, <1>6

\* The autograd engine lists no further input once the outputs had their turns.
LEMMA InputsStay ==
    ASSUME StepInv, Differentiate \/ StartOptimizer \/ OptimizeParameter
                    \/ InsertRecomputeOps \/ RemoveNop
    PROVE  graph'.inputs = graph.inputs
  <1>1. /\ IsTraced(model)
        /\ stage # "trace" => Well(graph) /\ Listed(model, graph)
        /\ stage = "optimizer" => IsOptimizing(model, graph, todo, gradients, loopback)
        /\ stage = "nops" => IsTrainable(model, graph, loopback) /\ IsRemoving(graph, todo)
    BY DEF StepInv, SplitInv, AutogradInv, Early
  <1>2. stage # "trace"
    BY DEF Differentiate, StartOptimizer, OptimizeParameter, InsertRecomputeOps, RemoveNop
  <1>3. Fields(graph)
    BY <1>1, <1>2, GraphFields DEF Well
  <1>4. CASE Differentiate
    <2> DEFINE n == Head(todo)
               c == Combined(n)
    <2>1. \/ graph' = graph
          \/ \E gr : graph' = Differentiated(n, c, gr)
          \/ \E x, rec : graph' = AddNode(c, x, rec)
      BY <1>4 DEF Differentiate
    <2>2. Fields(c) /\ c.inputs = graph.inputs
      BY <1>3, AddingKeeps DEF Combined
    <2> HIDE DEF c, n
    <2>3. \A gr : Differentiated(n, c, gr).inputs = c.inputs
      BY <2>2, AddingKeeps DEF Differentiated
    <2>4. \A x, rec : AddNode(c, x, rec).inputs = c.inputs
      BY <2>2, AddingKeeps
    <2> QED
      BY <2>1, <2>2, <2>3, <2>4
  <1>5. CASE StartOptimizer
    BY <1>5 DEF StartOptimizer
  <1>6. CASE OptimizeParameter
    <2>1. \/ graph' = graph
          \/ \E x, y, z, a, b, c : graph' = AddNode(AddNode(AddNode(graph, x, a), y, b), z, c)
      BY <1>6 DEF OptimizeParameter
    <2>2. ASSUME NEW x, NEW y, NEW z, NEW a, NEW b, NEW c
          PROVE  AddNode(AddNode(AddNode(graph, x, a), y, b), z, c).inputs = graph.inputs
      <3> DEFINE g1 == AddNode(graph, x, a)
                 g2 == AddNode(g1, y, b)
      <3>1. Fields(g1) /\ g1.inputs = graph.inputs
        BY <1>3, AddingKeeps
      <3> HIDE DEF g1
      <3>2. Fields(g2) /\ g2.inputs = graph.inputs
        BY <3>1, AddingKeeps
      <3> HIDE DEF g2
      <3>3. AddNode(g2, z, c).inputs = graph.inputs
        BY <3>2, AddingKeeps
      <3> QED
        BY <3>3 DEF g1, g2
    <2> QED
      BY <2>1, <2>2
  <1>7. CASE InsertRecomputeOps
    <2>1. IsOptimizing(model, graph, todo, gradients, loopback)
      BY <1>1, <1>7 DEF InsertRecomputeOps
    <2>2. \A n \in DOMAIN graph.node : ~OneOf(n, {"recompute"})
      BY <2>1 DEF IsOptimizing, OnlyKinds, OneOf
    <2>3. PICK h, s : /\ Recomputed(graph) = Pruned(h, s)
                      /\ IsRecomputed(graph, h, ForwardOps(graph))
                      /\ s \in Seq(DOMAIN h.node)
      BY <1>1, <1>2, <2>2, RecomputedIs
    <2>4. Fields(h) /\ h.inputs = graph.inputs
      BY <2>3, GraphFields DEF IsRecomputed
    <2>5. Pruned(h, s).inputs = h.inputs
      BY <2>3, <2>4, PrunedInputs
    <2> QED
      BY <1>7, <2>3, <2>4, <2>5 DEF InsertRecomputeOps
  <1>8. CASE RemoveNop
    <2> DEFINE n == Head(todo)
               h == graph'
    <2>1. stage = "nops" /\ todo # <<>> /\ h = Bypassed(graph, n)
      BY <1>8 DEF RemoveNop
    <2>2. n \in DOMAIN graph.node /\ graph.node[n].role = "Nop"
      BY <2>1, <1>1, Rest DEF IsRemoving
    <2> HIDE DEF n, h
    <2>3. h.inputs = graph.inputs
      BY <2>1, <2>2, <1>1, BypassKeeps
    <2> QED
      BY <2>3 DEF h
  <1> QED
    BY <1>4, <1>5, <1>6, <1>7, <1>8

\* The inputs that gradients come in by are listed in the order of the outputs.
Ordered ==
    /\ stage \in {"trace", "propagate"} => InOrder(model, graph.nodes)
    /\ stage = "outputs" => /\ InOrder(model, graph.inputs) /\ InOrder(model, todo)
                            /\ Before(model, graph.inputs, todo)
    /\ stage \notin {"trace", "propagate", "outputs"} => InOrder(model, graph.inputs)

\* What is in order stays so.
LEMMA OrderedKeeps ==
    ASSUME StepInv, Ordered, Next
    PROVE  Ordered'
  <1>1. /\ IsTraced(model)
        /\ stage = "trace" => IsTracing(model, graph, todo)
        /\ stage # "trace" => Well(graph) /\ Listed(model, graph)
        /\ stage = "propagate" => IsTrace(model, graph)
        /\ stage = "outputs" => IsSeeding(model, graph, todo, requires_grad, gradients)
    BY DEF StepInv, SplitInv, AutogradInv, Early
  <1>2. model' = model
    BY DEF Next, Compile, SplitNext, AutogradNext, VisitTensor, RegisterModule,
           PropagateRequiresGrad, CreateGradientInput, StartDifferentiation, Differentiate,
           StartOptimizer, OptimizeParameter, InsertRecomputeOps, RemoveNop, ExtractForward,
           ExtractBackward, ExtractOptimizer, Extract, Call, LossBackward, RunBackward, Step,
           Finished, stepVars, splitVars, autogradVars
  <1>3. CASE VisitTensor
    <2>1. stage = "trace" /\ stage' = "trace"
      BY <1>3 DEF VisitTensor
    <2>2. InOrder(model, graph'.nodes)
      BY <2>1, <1>1, <1>3, OrderedVisits DEF Ordered
    <2> QED
      BY <2>1, <2>2, <1>2 DEF Ordered
  <1>4. CASE RegisterModule
    <2>1. stage = "trace" /\ stage' = "propagate"
      BY <1>4 DEF RegisterModule
    <2>2. Fields(graph)
      BY <2>1, <1>1, GraphFields DEF IsTracing
    <2>3. graph'.nodes = graph.nodes
      BY <2>2, <1>4 DEF RegisterModule, Fields
    <2> QED
      BY <2>1, <2>3, <1>2 DEF Ordered
  <1>5. CASE PropagateRequiresGrad
    <2>1. /\ stage = "propagate" /\ stage' = "outputs" /\ graph' = graph
          /\ todo' = OfType(graph, "output")
      BY <1>5 DEF PropagateRequiresGrad
    <2>2. /\ InOrder(model, OfType(graph, "output")) /\ InOrder(model, graph.inputs)
          /\ Before(model, graph.inputs, OfType(graph, "output"))
      BY <2>1, <1>1, OrderedTurns DEF Ordered
    <2> QED
      BY <2>1, <2>2, <1>2 DEF Ordered
  <1>6. CASE CreateGradientInput
    <2>1. stage = "outputs" /\ stage' = "outputs"
      BY <1>6 DEF CreateGradientInput
    <2>2. /\ InOrder(model, graph'.inputs) /\ InOrder(model, todo')
          /\ Before(model, graph'.inputs, todo')
      BY <2>1, <1>1, <1>6, OrderedSeeds DEF Ordered
    <2> QED
      BY <2>1, <2>2, <1>2 DEF Ordered
  <1>7. CASE StartDifferentiation
    <2>1. stage = "outputs" /\ stage' = "differentiate" /\ graph' = graph
      BY <1>7 DEF StartDifferentiation
    <2> QED
      BY <2>1, <1>2 DEF Ordered
  <1>8. CASE Differentiate \/ StartOptimizer \/ OptimizeParameter \/ InsertRecomputeOps \/ RemoveNop
    <2>1. /\ stage \notin {"trace", "propagate", "outputs"}
          /\ stage' \notin {"trace", "propagate", "outputs"}
      BY <1>8 DEF Differentiate, StartOptimizer, OptimizeParameter, InsertRecomputeOps, RemoveNop
    <2>2. graph'.inputs = graph.inputs
      BY <1>8, InputsStay
    <2> QED
      BY <2>1, <2>2, <1>2 DEF Ordered
  <1>9. CASE /\ graph' = graph /\ stage \notin {"trace", "propagate", "outputs"}
             /\ stage' \notin {"trace", "propagate", "outputs"}
    BY <1>9, <1>2 DEF Ordered
  <1>10. CASE ExtractForward \/ ExtractBackward \/ ExtractOptimizer
    <2>1. /\ graph' = graph /\ stage \notin {"trace", "propagate", "outputs"}
          /\ stage' \notin {"trace", "propagate", "outputs"}
      BY <1>10 DEF ExtractForward, ExtractBackward, ExtractOptimizer, Extract
    <2> QED
      BY <2>1, <1>9
  <1>11. CASE Call \/ LossBackward \/ RunBackward \/ Step
    <2>1. /\ graph' = graph /\ stage \notin {"trace", "propagate", "outputs"}
          /\ stage' \notin {"trace", "propagate", "outputs"}
      BY <1>11 DEF Call, LossBackward, RunBackward, Step, RunProgram
    <2> QED
      BY <2>1, <1>9
  <1>12. CASE Finished
    <2>1. /\ graph' = graph /\ stage \notin {"trace", "propagate", "outputs"}
          /\ stage' \notin {"trace", "propagate", "outputs"}
      BY <1>12 DEF Finished, stepVars, splitVars, autogradVars
    <2> QED
      BY <2>1, <1>9
  <1> QED
    BY <1>3, <1>4, <1>5, <1>6, <1>7, <1>8, <1>10, <1>11, <1>12
       DEF Next, Compile, SplitNext, AutogradNext

-----------------------------------------------------------------------------
\* What the backward program is called with.

\* When there is a gradient input for each output, the inputs of the backward epoch are
\* the gradients of the outputs, in the order of the outputs.
LEMMA OwnAre ==
    ASSUME IsTraced(model), NEW g, Well(g), Listed(model, g), IsForward(g, Forward),
           IsBackward(g, Forward, Backward), InOrder(model, g.inputs),
           Len(GradientInputs) = Len(model.outs),
           NEW own, own = OfEpoch(g, OrderedModuleInputs(g), "bwd")
    PROVE  /\ own \in Seq(DOMAIN Backward.node) /\ Len(own) = Len(model.outs)
           /\ \A i \in DOMAIN model.outs : own[i] = <<"gradient", Output(model.outs[i])>>
  <1> DEFINE outs == ModuleOutputs(model)
             names == [i \in DOMAIN outs |-> <<"gradient", outs[i]>>]
             G == {<<"gradient", o>> : o \in OutputNodes(model)}
             inputs == GradientInputs
             ordered == OrderedModuleInputs(g)
  <1>1. outs \in Seq(OutputNodes(model)) /\ Distinct(outs) /\ Len(outs) = Len(model.outs)
        /\ ToSet(outs) = OutputNodes(model) /\ DOMAIN outs = DOMAIN model.outs
        /\ \A i \in DOMAIN model.outs : outs[i] = Output(model.outs[i])
    BY OutputsAre DEF OutputNodes
  <1>2. IsNaming(outs, "gradient", names)
    BY DEF IsNaming
  <1>3. inputs \in Seq(DOMAIN Backward.node) /\ Distinct(inputs)
        /\ ToSet(inputs) = {n \in Incoming(g) : Read(g, n)}
    BY GradientInputsAre
  <1>4. /\ own \in Seq(DOMAIN Backward.node) /\ Distinct(own)
        /\ ToSet(own) = {x \in ToSet(g.inputs) : Read(g, x) /\ EpochOf(x) = "bwd"}
    BY BackwardInputsAre
  <1>5. InOrder(model, own)
    <2>1. g.inputs \in Seq(DOMAIN g.node) /\ ordered \in Seq(DOMAIN g.node)
      BY OrderedInputsAre DEF Well, IsGraph
    <2>2. InOrder(model, ordered)
      BY <2>1, OnlyInOrder DEF OrderedModuleInputs
    <2> DEFINE S == {n \in DOMAIN g.node : g.node[n].epoch = "bwd"}
    <2>3. own = Only(ordered, S)
      BY DEF OfEpoch
    <2> HIDE DEF ordered, S
    <2>4. InOrder(model, Only(ordered, S))
      BY <2>1, <2>2, OnlyInOrder
    <2> QED
      BY <2>3, <2>4
  <1>6. ToSet(own) = ToSet(inputs)
    <2>1. \A x \in ToSet(g.inputs) : EpochOf(x) = "bwd" <=> OneOf(x, {"gradient"})
      <3> SUFFICES ASSUME NEW x \in ToSet(g.inputs)
                   PROVE  EpochOf(x) = "bwd" <=> OneOf(x, {"gradient"})
        OBVIOUS
      <3>1. x \in Leaves \/ OneOf(x, {"gradient"})
        BY DEF Listed, Leaves
      <3> QED
        BY <3>1 DEF OneOf, EpochOf, FwdKinds, OptKinds
    <2>2. ToSet(g.inputs) \subseteq DOMAIN g.node
      BY Entries DEF Well, IsGraph
    <2>3. \A x \in DOMAIN g.node : OneOf(x, {"gradient"}) => x \in ToSet(g.inputs)
      BY DEF Listed
    <2> QED
      BY <1>3, <1>4, <2>1, <2>2, <2>3 DEF Incoming, Backwards
  <1> HIDE DEF outs, names, inputs
  <1>7. /\ names \in Seq(G) /\ Distinct(names) /\ ToSet(names) = G /\ Len(names) = Len(outs)
        /\ DOMAIN names = DOMAIN outs
    <2> DEFINE H == {<<"gradient", x>> : x \in ToSet(outs)}
    <2>1. H = G
      BY <1>1
    <2> HIDE DEF H
    <2>2. /\ names \in Seq(H) /\ Distinct(names) /\ ToSet(names) = H /\ Len(names) = Len(outs)
          /\ DOMAIN names = DOMAIN outs
      BY <1>1, <1>2, NamesOf DEF H
    <2> HIDE DEF G
    <2> QED
      BY <2>1, <2>2
  <1>8. Incoming(g) \subseteq G
    BY DEF Incoming, Backwards, Listed
  <1>9. \A i \in DOMAIN names : names[i] = <<"gradient", outs[i]>>
    BY <1>7 DEF names
  <1> HIDE DEF G
  <1>10. own \in Seq(G) /\ inputs \in Seq(G)
    BY <1>3, <1>4, <1>6, <1>8, Retyped
  <1>11. Len(own) = Len(names)
    <2>1. Len(own) <= Len(inputs) /\ Len(inputs) <= Len(own)
      BY <1>3, <1>4, <1>6, <1>10, NoLonger
    <2>2. Len(own) \in Nat /\ Len(inputs) \in Nat
      BY <1>10
    <2>3. Len(inputs) = Len(model.outs)
      BY DEF inputs
    <2> QED
      BY <2>1, <2>2, <2>3, <1>1, <1>7
  <1>12. ToSet(own) = ToSet(names)
    <2> DEFINE kept == Only(names, ToSet(own))
    <2>1. kept \in Seq(G) /\ ToSet(kept) = ToSet(names) \cap ToSet(own) /\ Distinct(kept)
      BY <1>7, OnlyMembers, OnlyDistinct
    <2>2. ToSet(own) \subseteq G
      BY <1>10, Entries
    <2>3. ToSet(kept) = ToSet(own)
      BY <2>1, <2>2, <1>7
    <2>4. Len(kept) <= Len(own) /\ Len(own) <= Len(kept)
      <3> HIDE DEF kept
      <3> QED
        BY <2>1, <2>3, <1>4, <1>10, NoLonger
    <2>5. Len(kept) = Len(names)
      <3>1. Len(kept) \in Nat /\ Len(own) \in Nat
        BY <2>1, <1>10
      <3> QED
        BY <2>4, <3>1, <1>11
    <2>6. kept = names
      BY <2>5, <1>7, OnlyWhole
    <2> QED
      BY <2>3, <2>6
  <1>13. \A a, b \in DOMAIN own : a < b =>
            \A i, j \in DOMAIN names : own[a] = names[i] /\ own[b] = names[j] => i < j
    <2> SUFFICES ASSUME NEW a \in DOMAIN own, NEW b \in DOMAIN own, a < b,
                        NEW i \in DOMAIN names, NEW j \in DOMAIN names,
                        own[a] = names[i], own[b] = names[j]
                 PROVE  i < j
      OBVIOUS
    <2>1. Precedes(model, own[a], own[b])
      BY <1>5 DEF InOrder
    <2>2. IsNth(model, i, own[a]) /\ IsNth(model, j, own[b])
      BY <1>1, <1>7, <1>9 DEF IsNth
    <2>3. i \in DOMAIN model.outs /\ j \in DOMAIN model.outs
      BY <1>1, <1>7
    <2> QED
      BY <2>1, <2>2, <2>3 DEF Precedes
  <1>14. own = names
    <2>1. /\ own \in Seq(G) /\ names \in Seq(G) /\ Distinct(own) /\ Distinct(names)
          /\ ToSet(own) = ToSet(names)
          /\ \A a, b \in DOMAIN own : a < b =>
                \A i, j \in DOMAIN names : own[a] = names[i] /\ own[b] = names[j] => i < j
      BY <1>4, <1>7, <1>10, <1>12, <1>13
    <2> QED
      BY ONLY <2>1, SameOrder
  <1> QED
    BY <1>1, <1>4, <1>7, <1>9, <1>11, <1>14

\* What CompiledModel picks of the forward program's outputs and inputs is what
\* split_graph listed.
LEMMA SameLists ==
    ASSUME IsTraced(model), NEW g, Well(g), Listed(model, g), IsForward(g, Forward),
           IsBackward(g, Forward, Backward)
    PROVE  /\ \A x \in ToSet(Forward.outputs) :
                 x \in DOMAIN Backward.node
                    <=> x \in {o \in DOMAIN Forward.node : IsIntermediate(Forward, o)}
           /\ Only(Forward.inputs, ToSet(Backward.inputs))
                 = Named(Backward, OfEpoch(g, OrderedModuleInputs(g), "fwd"))
  <1> DEFINE fwd == Forward
             h == Backward
             own == OfEpoch(g, OrderedModuleInputs(g), "bwd")
             saved == Named(h, fwd.outputs)
             front == OfEpoch(g, OrderedModuleInputs(g), "fwd")
             again == Named(h, front)
  <1>1. /\ ToSet(fwd.outputs) = OutputNodes(model) \cup Intermediates(g)
        /\ fwd.outputs \in Seq(DOMAIN fwd.node)
    BY ForwardOutputsAre
  <1>2. DOMAIN h.node = SavedBy(g) \cup ReadAgain(g) \cup {BackwardName(n) : n \in Backwards(g)}
    BY DEF IsBackward, IsBackwardOf
  <1>3. ASSUME NEW x \in SavedBy(g) \cup ReadAgain(g), NEW n \in Backwards(g)
        PROVE  x # BackwardName(n)
    <2>1. BackwardName(n) \notin SavedBy(g) \cup ReadAgain(g) \cup {BackwardName(b) : b \in {}}
      BY BackwardNamesDiffer
    <2> QED
      BY <2>1
  <1>4. ASSUME NEW x \in Intermediates(g)
        PROVE  x \in DOMAIN h.node /\ x \in DOMAIN fwd.node /\ IsIntermediate(fwd, x)
    <2>1. x \in SavedBy(g)
      BY DEF SavedBy
    <2>2. x \in DOMAIN fwd.node /\ fwd.node[x].role = "internal"
      BY DEF IsForward, Intermediates
    <2> QED
      BY <1>2, <2>1, <2>2 DEF IsIntermediate
  <1>5. ASSUME NEW x \in OutputNodes(model)
        PROVE  x \in DOMAIN h.node <=> x \in DOMAIN fwd.node /\ IsIntermediate(fwd, x)
    <2>1. PICK i \in DOMAIN model.outs : x = Output(model.outs[i])
      BY DEF OutputNodes, ModuleOutputs, ToSet
    <2>2. EpochOf(x) = "fwd" /\ RolesOf(x) = {"external"} /\ TypeOf(x) = "output"
      BY <2>1, NamesAre DEF Output
    <2>3. x \in DOMAIN g.node
      <3>1. g.outputs \in Seq(DOMAIN g.node) /\ ToSet(g.outputs) = OutputNodes(model)
        BY DEF Well, IsGraph, Listed, OutputNodes
      <3> QED
        BY <3>1, Entries
    <2>4. x \in Forwards(g) /\ g.node[x].role = "external"
      BY <2>2, <2>3 DEF Forwards, Well, Whole, Fits
    <2>5. /\ x \in DOMAIN fwd.node
          /\ fwd.node[x].role = IF ReadIn(g, g.node[x].ins[1], "bwd") THEN "shared" ELSE "external"
      BY <2>2, <2>4 DEF IsForward
    <2>6. x \notin Intermediates(g)
      BY <2>3, IntermediatesAreNew DEF Intermediates
    <2>7. IsIntermediate(fwd, x) <=> x \in SavedBy(g)
      BY <2>2, <2>4, <2>5, <2>6 DEF IsIntermediate, SavedBy
    <2>8. x \notin ReadAgain(g)
      BY <2>2 DEF ReadAgain
    <2>9. \A n \in Backwards(g) : x # BackwardName(n)
      <3> SUFFICES ASSUME NEW n \in Backwards(g) PROVE x # BackwardName(n)
        OBVIOUS
      <3>1. n \in DOMAIN g.node /\ EpochOf(n) = "bwd"
        BY DEF Backwards
      <3>2. <<"grad_output", n>> # x
        BY <2>1, KindsDiffer DEF Output
      <3> QED
        BY <3>1, <3>2, <2>2 DEF BackwardName
    <2> QED
      BY <1>2, <2>5, <2>7, <2>8, <2>9
  <1>6. \A x \in ToSet(fwd.outputs) :
           x \in DOMAIN h.node <=> x \in {o \in DOMAIN fwd.node : IsIntermediate(fwd, o)}
    BY <1>1, <1>4, <1>5
  <1>7. /\ h.inputs = (own \o saved) \o again
        /\ own \in Seq(DOMAIN h.node) /\ saved \in Seq(DOMAIN h.node)
        /\ again \in Seq(DOMAIN h.node)
    BY BackwardInputsAre
  <1>8. fwd.inputs = front /\ front \in Seq(DOMAIN fwd.node)
    BY ForwardInputsAre DEF IsForward
  <1>9. ToSet(again) = ToSet(front) \cap DOMAIN h.node
    <2> HIDE DEF front
    <2> QED
      BY <1>8, OnlyMembers DEF Named
  <1>10. \A x \in ToSet(front) : x \in ToSet(h.inputs) <=> x \in DOMAIN h.node
    <2> HIDE DEF own, saved, again, h, front
    <2> DEFINE first == own \o saved
               T == DOMAIN h.node
    <2>1. first \in Seq(T)
      BY <1>7, Joined
    <2>2. again \in Seq(T) /\ h.inputs = first \o again
      BY <1>7
    <2> HIDE DEF first, T
    <2>3. first \o again \in Seq(T) /\ ToSet(first \o again) = ToSet(first) \cup ToSet(again)
      BY <2>1, <2>2, Joined
    <2>4. ToSet(h.inputs) \subseteq T /\ ToSet(again) \subseteq ToSet(h.inputs)
      BY <2>2, <2>3, Entries
    <2>5. ToSet(h.inputs) \subseteq DOMAIN h.node
      BY <2>4 DEF T
    <2> QED
      BY <2>4, <2>5, <1>9
  <1>11. Only(fwd.inputs, ToSet(h.inputs)) = again
    <2> HIDE DEF front
    <2> QED
      BY <1>8, <1>10, OnlySame DEF Named
  <1> QED
    BY <1>6, <1>11
=============================================================================
