--------------------------- MODULE GradientProofs ---------------------------
(***************************************************************************)
(* The gradient of every trained parameter is complete: what the backward  *)
(* pass computes at the end of a trained leaf's chain is the derivative of *)
(* the loss, by every path through the module that was traced.  And the    *)
(* backward program, called by position, returns it.                       *)
(***************************************************************************)
EXTENDS TrainingStepProofs

-----------------------------------------------------------------------------
\* The elements and the derivatives of the tensors that were traced.

\* The derivative of an operation's result, by those of its operands (a), its operands (v)
\* and the result itself (e).
ChainRule(op, a, v, e) ==
    CASE op = "Add" -> (a[1] + a[2]) % Modulus
      [] op = "Multiply" -> (a[1] * v[2] + v[1] * a[2]) % Modulus
      [] op = "Exp" -> (a[1] * e) % Modulus
      [] op = "Nop" -> a[1]
DerivativeOf(l, d, t) ==
    IF t \in Leaves THEN IF t = l THEN 1 ELSE 0
    ELSE ChainRule(OpOf(t), Args(d, t), Args(Exact, t), Exact[t])
DerivativeStep(l, d) == d = [t \in Tensors(Len(model.body)) |-> DerivativeOf(l, d, t)]

\* What an operation's operands are, for functions on the module's tensors.
LEMMA ArgsOf ==
    ASSUME IsTraced(model), NEW t \in Tensors(Len(model.body)), t \notin Leaves
    PROVE  /\ OpOf(t) \in {"Add", "Multiply", "Exp", "Nop"}
           /\ \A f : /\ DOMAIN Args(f, t) = DOMAIN model.body[t[2]].args
                     /\ \A p \in DOMAIN model.body[t[2]].args :
                           Args(f, t)[p] = f[model.body[t[2]].args[p]]
           /\ DOMAIN model.body[t[2]].args = 1..OpArity[OpOf(t)]
           /\ 1 \in DOMAIN model.body[t[2]].args
           /\ OpOf(t) \in {"Add", "Multiply"} => 2 \in DOMAIN model.body[t[2]].args
           /\ \A p \in DOMAIN model.body[t[2]].args :
                 /\ model.body[t[2]].args[p] \in Tensors(Len(model.body))
                 /\ RankOf(model.body[t[2]].args[p]) < RankOf(t)
  <1>1. /\ OpOf(t) \in DOMAIN OpArity /\ OpOf(t) # "Subtract"
        /\ Len(model.body[t[2]].args) = OpArity[OpOf(t)]
        /\ model.body[t[2]].args \in Seq(Tensors(Len(model.body)))
        /\ \A p \in DOMAIN model.body[t[2]].args :
              /\ model.body[t[2]].args[p] \in Tensors(Len(model.body))
              /\ RankOf(model.body[t[2]].args[p]) < RankOf(t)
    BY OperationReads DEF OpOf
  <1>2. OpOf(t) \in {"Add", "Multiply", "Exp", "Nop"} /\ OpArity[OpOf(t)] \in {1, 2}
        /\ (OpOf(t) \in {"Add", "Multiply"} => OpArity[OpOf(t)] = 2)
    BY <1>1 DEF OpArity
  <1>3. DOMAIN model.body[t[2]].args = 1..OpArity[OpOf(t)]
    BY <1>1, <1>2
  <1>4. ASSUME NEW f
        PROVE  /\ DOMAIN Args(f, t) = DOMAIN model.body[t[2]].args
               /\ \A p \in DOMAIN model.body[t[2]].args :
                     Args(f, t)[p] = f[model.body[t[2]].args[p]]
    BY DEF Args
  <1>5. 1 \in 1..OpArity[OpOf(t)] /\ (OpOf(t) \in {"Add", "Multiply"} => 2 \in 1..OpArity[OpOf(t)])
    BY <1>2
  <1> QED
    BY <1>1, <1>2, <1>3, <1>4, <1>5

\* Only the derivatives of the operands matter.
LEMMA DerivativeSame ==
    ASSUME IsTraced(model), NEW l, NEW t \in Tensors(Len(model.body)), NEW f, NEW h,
           t \notin Leaves => \A p \in DOMAIN model.body[t[2]].args :
                f[model.body[t[2]].args[p]] = h[model.body[t[2]].args[p]]
    PROVE  DerivativeOf(l, f, t) = DerivativeOf(l, h, t)
  <1>1. CASE t \in Leaves
    BY <1>1 DEF DerivativeOf
  <1>2. CASE t \notin Leaves
    <2>1. Args(f, t) = Args(h, t)
      BY <1>2 DEF Args
    <2> QED
      BY <1>2, <2>1 DEF DerivativeOf
  <1> QED
    BY <1>1, <1>2

\* Elements are integers.
LEMMA ExactInt ==
    ASSUME IsTraced(model)
    PROVE  /\ \A t \in Tensors(Len(model.body)) : Exact[t] \in Residues /\ Exact[t] \in Int
           /\ Residues \subseteq Int
  <1>1. Modulus \in Nat
    BY TensorAssumption
  <1>2. Residues \subseteq Int
    BY <1>1 DEF Residues
  <1> QED
    BY <1>2, ExactIs

\* What operations compute are integers.
LEMMA ChainRuleInt ==
    ASSUME NEW op \in {"Add", "Multiply", "Exp", "Nop"}, NEW a, NEW v, NEW e \in Int,
           a[1] \in Int, v[1] \in Int, op \in {"Add", "Multiply"} => a[2] \in Int /\ v[2] \in Int
    PROVE  ChainRule(op, a, v, e) \in Int
  <1>1. \A x \in Int : x % Modulus \in Int
    BY CongMod, TensorAssumption
  <1>2. \A x, y \in Int : x * y \in Int /\ x + y \in Int
    OBVIOUS
  <1>3. CASE op = "Add"
    <2>1. a[1] + a[2] \in Int
      BY <1>2, <1>3
    <2> QED
      BY <2>1, <1>1, <1>3 DEF ChainRule
  <1>4. CASE op = "Multiply"
    <2>1. a[1] * v[2] \in Int /\ v[1] * a[2] \in Int
      BY <1>2, <1>4
    <2> DEFINE x == a[1] * v[2]
               y == v[1] * a[2]
    <2>2. ChainRule(op, a, v, e) = (x + y) % Modulus
      BY <1>4 DEF ChainRule
    <2> HIDE DEF x, y
    <2> QED
      BY <2>1, <2>2, <1>1, <1>2 DEF x, y
  <1>5. CASE op = "Exp"
    <2>1. a[1] * e \in Int
      BY <1>2
    <2> DEFINE x == a[1] * e
    <2>2. ChainRule(op, a, v, e) = x % Modulus
      BY <1>5 DEF ChainRule
    <2> HIDE DEF x
    <2> QED
      BY <2>1, <2>2, <1>1 DEF x
  <1>6. CASE op = "Nop"
    BY <1>6 DEF ChainRule
  <1> QED
    BY <1>3, <1>4, <1>5, <1>6

\* A derivative of integers is an integer.
LEMMA DerivativeInt ==
    ASSUME IsTraced(model), NEW l, NEW t \in Tensors(Len(model.body)), NEW f,
           t \notin Leaves => \A p \in DOMAIN model.body[t[2]].args :
                f[model.body[t[2]].args[p]] \in Int
    PROVE  DerivativeOf(l, f, t) \in Int
  <1>1. CASE t \in Leaves
    BY <1>1 DEF DerivativeOf
  <1>2. CASE t \notin Leaves
    <2> DEFINE as == model.body[t[2]].args
    <2>1. /\ OpOf(t) \in {"Add", "Multiply", "Exp", "Nop"}
          /\ \A q : \A p \in DOMAIN as : Args(q, t)[p] = q[as[p]]
          /\ 1 \in DOMAIN as /\ (OpOf(t) \in {"Add", "Multiply"} => 2 \in DOMAIN as)
          /\ \A p \in DOMAIN as : as[p] \in Tensors(Len(model.body))
      BY <1>2, ArgsOf
    <2>2. /\ Exact[t] \in Int /\ \A p \in DOMAIN as : Exact[as[p]] \in Int
          /\ \A p \in DOMAIN as : f[as[p]] \in Int
      BY <1>2, <2>1, ExactInt
    <2> HIDE DEF as
    <2>3. /\ Args(f, t)[1] \in Int /\ Args(Exact, t)[1] \in Int
          /\ OpOf(t) \in {"Add", "Multiply"} => Args(f, t)[2] \in Int /\ Args(Exact, t)[2] \in Int
      BY <2>1, <2>2
    <2> QED
      BY <1>2, <2>1, <2>2, <2>3, ChainRuleInt DEF DerivativeOf
  <1> QED
    BY <1>1, <1>2

\* The derivatives by a leaf are computed along the operations.
LEMMA DerivativeIs ==
    ASSUME IsTraced(model), NEW l
    PROVE  /\ Derivative(l) \in [Tensors(Len(model.body)) -> Int]
           /\ \A t \in Tensors(Len(model.body)) :
                 Derivative(l)[t] = DerivativeOf(l, Derivative(l), t)
  <1> DEFINE D == Tensors(Len(model.body))
             step == [n \in D |-> [f \in [D -> Int] |-> DerivativeOf(l, f, n)]]
             r == [n \in D |-> RankOf(n)]
  <1>1. r \in [D -> Nat] /\ \A n \in D : r[n] < MaxOps + 2
    BY TensorRanks
  <1>2. MaxOps + 2 \in Nat /\ 0 \in Int
    BY AutogradAssumption
  <1>3. \A n \in D : \A f \in [D -> Int] : step[n][f] = DerivativeOf(l, f, n)
    <2> HIDE DEF D
    <2> QED
      OBVIOUS
  <1>20. ASSUME NEW n \in D, n \notin Leaves, NEW p \in DOMAIN model.body[n[2]].args
        PROVE  model.body[n[2]].args[p] \in D /\ r[model.body[n[2]].args[p]] < r[n]
               /\ r[n] \in Nat /\ r[model.body[n[2]].args[p]] \in Nat
    BY <1>20, <1>1, ArgsOf
  <1>4. ASSUME NEW n \in D, NEW f \in [D -> Int] PROVE DerivativeOf(l, f, n) \in Int
    <2>1. n \notin Leaves => \A p \in DOMAIN model.body[n[2]].args : f[model.body[n[2]].args[p]] \in Int
      BY <1>20
    <2> QED
      BY <2>1, DerivativeInt
  <1>5. ASSUME NEW n \in D, NEW f \in [D -> Int], NEW h \in [D -> Int],
               \A y \in D : r[y] < r[n] => f[y] = h[y]
        PROVE  DerivativeOf(l, f, n) = DerivativeOf(l, h, n)
    <2>1. n \notin Leaves => \A p \in DOMAIN model.body[n[2]].args :
               f[model.body[n[2]].args[p]] = h[model.body[n[2]].args[p]]
      BY <1>20, <1>5
    <2> QED
      BY <2>1, DerivativeSame
  <1> HIDE DEF step, r, D
  <1>6. /\ \A n \in D : \A f \in [D -> Int] : step[n][f] \in Int
        /\ \A n \in D : \A f, h \in [D -> Int] :
              (\A y \in D : r[y] < r[n] => f[y] = h[y]) => step[n][f] = step[n][h]
    BY <1>3, <1>4, <1>5
  <1>7. Ranked(D, Int, r, step)
    BY <1>1, <1>2, <1>6 DEF Ranked
  <1>8. PICK f \in [D -> Int] : \A n \in D : f[n] = step[n][f]
    <2>1. Computes(D, Int, step)
      BY <1>2, <1>7, RankedRecursion
    <2> QED
      BY <2>1 DEF Computes
  <1>9. \A n \in D : f[n] = DerivativeOf(l, f, n)
    BY <1>3, <1>8
  <1>10. DerivativeStep(l, f)
    <2>1. f = [n \in D |-> f[n]]
      BY <1>8
    <2>2. f = [n \in D |-> DerivativeOf(l, f, n)]
      BY <2>1, <1>9
    <2> QED
      BY <2>2 DEF DerivativeStep, D
  <1> DEFINE val == CHOOSE val : DerivativeStep(l, val)
  <1>11. DerivativeStep(l, val)
    BY <1>10
  <1>12. Derivative(l) = val
    BY DEF Derivative, DerivativeStep, DerivativeOf, ChainRule
  <1> HIDE DEF val
  <1>13. val = [n \in D |-> DerivativeOf(l, val, n)]
    BY <1>11 DEF DerivativeStep, D
  <1>14. \A n \in D : val[n] = DerivativeOf(l, val, n)
    BY <1>13
  <1> DEFINE Good == {k \in Nat : \A n \in D : r[n] < k => val[n] = f[n]}
  <1>15. ASSUME NEW k \in Nat, k \in Good PROVE k + 1 \in Good
    <2> SUFFICES ASSUME NEW n \in D, r[n] < k + 1 PROVE val[n] = f[n]
      OBVIOUS
    <2>1. n \notin Leaves => \A p \in DOMAIN model.body[n[2]].args :
               val[model.body[n[2]].args[p]] = f[model.body[n[2]].args[p]]
      BY <1>20, <1>15
    <2>2. DerivativeOf(l, val, n) = DerivativeOf(l, f, n)
      BY <2>1, DerivativeSame DEF D
    <2> QED
      BY <2>2, <1>9, <1>14
  <1>16. 0 \in Good
    BY <1>1
  <1>17. MaxOps + 2 \in Good
    <2> HIDE DEF Good
    <2> QED
      BY <1>2, <1>15, <1>16, SetInduction
  <1>18. \A n \in D : val[n] = f[n]
    BY <1>1, <1>17
  <1>19. val \in [D -> Int]
    <2>1. val = [n \in D |-> val[n]]
      BY <1>13, <1>14
    <2> QED
      BY <2>1, <1>8, <1>18
  <1> QED
    BY <1>12, <1>14, <1>19 DEF D

\* A Nop's result has the derivative of its operand.
LEMMA DerivativeOfSource ==
    ASSUME IsTraced(model), NEW l, NEW t \in Tensors(Len(model.body))
    PROVE  Derivative(l)[Source(model)[t]] = Derivative(l)[t]
  <1> DEFINE D == Tensors(Len(model.body))
             Good == {k \in Nat : \A n \in D : RankOf(n) < k =>
                                     Derivative(l)[Source(model)[n]] = Derivative(l)[n]}
  <1>1. 0 \in Good
    BY TensorRanks
  <1>2. ASSUME NEW k \in Nat, k \in Good PROVE k + 1 \in Good
    <2> SUFFICES ASSUME NEW n \in D, RankOf(n) < k + 1
                 PROVE  Derivative(l)[Source(model)[n]] = Derivative(l)[n]
      OBVIOUS
    <2>1. CASE n \in Leaves \/ model.body[n[2]].op # "Nop"
      <3>1. Source(model)[n] = n
        BY <2>1, SourceIs
      <3> QED
        BY <3>1
    <2>2. CASE n \notin Leaves /\ model.body[n[2]].op = "Nop"
      <3> DEFINE x == model.body[n[2]].args[1]
      <3>1. Source(model)[n] = Source(model)[x]
        BY <2>2, SourceIs
      <3>2. /\ 1 \in DOMAIN model.body[n[2]].args /\ x \in D /\ RankOf(x) < RankOf(n)
            /\ Args(Derivative(l), n)[1] = Derivative(l)[x]
        BY <2>2, ArgsOf
      <3>3. RankOf(x) < k
        BY <3>2, TensorRanks
      <3>4. Derivative(l)[Source(model)[x]] = Derivative(l)[x]
        BY <3>2, <3>3, <1>2
      <3>5. Derivative(l)[n] = Derivative(l)[x]
        <4>1. Derivative(l)[n] = ChainRule("Nop", Args(Derivative(l), n), Args(Exact, n), Exact[n])
          BY <2>2, DerivativeIs DEF DerivativeOf, OpOf
        <4>2. \A a, v, e : ChainRule("Nop", a, v, e) = a[1]
          BY DEF ChainRule
        <4> QED
          BY <4>1, <4>2, <3>2
      <3> QED
        BY <3>1, <3>4, <3>5
    <2> QED
      BY <2>1, <2>2
  <1>3. MaxOps + 2 \in Good
    <2> HIDE DEF Good
    <2>1. MaxOps + 2 \in Nat
      BY AutogradAssumption
    <2> QED
      BY <1>1, <1>2, <2>1, SetInduction
  <1> QED
    BY <1>3, TensorRanks

GradientUpTo(l, n, sum) ==
    sum = [i \in 0..n |->
              IF i = 0 THEN 0
              ELSE (sum[i - 1] + Seed[i] * Derivative(l)[model.outs[i]]) % Modulus]

\* What each output of the module passes on to a leaf.
PassedOn(l) == [i \in DOMAIN model.outs |-> Seed[i] * Derivative(l)[model.outs[i]]]

\* The seeds are residues, one for each output.
LEMMA SeedsAre ==
    ASSUME IsTraced(model)
    PROVE  /\ DOMAIN model.outs = 1..Len(model.outs) /\ Len(model.outs) \in Nat
           /\ \A i \in DOMAIN model.outs :
                 /\ Seed[i] \in Residues /\ Seed[i] \in Int
                 /\ model.outs[i] \in Tensors(Len(model.body))
  <1>1. /\ model.outs \in Seq(Tensors(Len(model.body)) \ Weights)
        /\ Len(model.outs) <= MaxModuleOutputs
    BY DEF IsTraced
  <1>2. DOMAIN model.outs = 1..Len(model.outs) /\ Len(model.outs) \in Nat
    BY <1>1
  <1>3. \A i \in DOMAIN model.outs : model.outs[i] \in Tensors(Len(model.body))
    BY <1>1
  <1>4. \A i \in DOMAIN model.outs : i \in 1..MaxModuleOutputs
    BY <1>1, <1>2, AutogradAssumption
  <1>5. \A i \in DOMAIN model.outs : Seed[i] \in Residues
    BY <1>4, StepAssumption DEF Residues
  <1>6. Residues \subseteq Int
    BY TensorAssumption DEF Residues
  <1> QED
    BY <1>2, <1>3, <1>5, <1>6

\* What the outputs pass on are integers.
LEMMA PassedOnIs ==
    ASSUME IsTraced(model), NEW l
    PROVE  PassedOn(l) \in [1..Len(model.outs) -> Int] /\ PassedOn(l) \in Seq(Int)
           /\ Len(PassedOn(l)) = Len(model.outs)
           /\ \A i \in DOMAIN model.outs : PassedOn(l)[i] = Seed[i] * Derivative(l)[model.outs[i]]
  <1>1. \A i \in DOMAIN model.outs : Seed[i] * Derivative(l)[model.outs[i]] \in Int
    <2> SUFFICES ASSUME NEW i \in DOMAIN model.outs
                 PROVE  Seed[i] * Derivative(l)[model.outs[i]] \in Int
      OBVIOUS
    <2>1. Seed[i] \in Int /\ model.outs[i] \in Tensors(Len(model.body))
      BY SeedsAre
    <2>2. Derivative(l)[model.outs[i]] \in Int
      BY <2>1, DerivativeIs
    <2> QED
      BY <2>1, <2>2
  <1>2. PassedOn(l) \in [1..Len(model.outs) -> Int]
    BY <1>1, SeedsAre DEF PassedOn
  <1>3. PassedOn(l) \in Seq(Int) /\ Len(PassedOn(l)) = Len(model.outs)
    BY <1>2, SeedsAre
  <1> QED
    BY <1>2, <1>3 DEF PassedOn

\* The gradient of a leaf is the residue of all that the outputs pass on to it.
LEMMA GradientIs ==
    ASSUME IsTraced(model), NEW l
    PROVE  Gradient(l) \in Residues /\ Cong(Gradient(l), Total(PassedOn(l)))
  <1> DEFINE k == Len(model.outs)
             v == PassedOn(l)
  <1>1. k \in Nat /\ v \in Seq(Int) /\ Len(v) = k /\ v \in [1..k -> Int]
        /\ \A i \in 1..k : v[i] = Seed[i] * Derivative(l)[model.outs[i]]
    BY PassedOnIs, SeedsAre
  <1> HIDE DEF k, v
  <1>2. PICK s : PartialSums(v, s)
    BY <1>1, SumsExist
  <1>3. s \in [0..k -> Int] /\ s[0] = 0 /\ \A i \in 1..k : s[i] = s[i - 1] + v[i]
    BY <1>1, <1>2 DEF PartialSums, SumsTo
  <1> DEFINE f == [i \in 0..k |-> s[i] % Modulus]
  <1>4. \A i \in 0..k : f[i] = s[i] % Modulus /\ f[i] \in Residues /\ f[i] \in Int /\ Cong(f[i], s[i])
    <2>1. \A i \in 0..k : s[i] \in Int
      BY <1>3
    <2>2. Residues \subseteq Int
      BY ExactInt
    <2> QED
      BY <2>1, <2>2, CongMod DEF Residues
  <1>5. f[0] = 0
    <2>1. 0 \in Residues /\ 0 \in Int
      BY TensorAssumption DEF Residues
    <2>2. Cong(f[0], 0) /\ f[0] \in Residues
      BY <1>4, <1>3, <1>1
    <2> QED
      BY <2>1, <2>2, CongMod DEF Residues
  <1> HIDE DEF f
  <1>6. ASSUME NEW i \in 1..k PROVE f[i] = (f[i - 1] + v[i]) % Modulus
    <2>1. i - 1 \in 0..k /\ i \in 0..k
      BY <1>1
    <2>2. f[i - 1] \in Int /\ s[i - 1] \in Int /\ s[i] \in Int /\ v[i] \in Int /\ f[i] \in Int
      BY <2>1, <1>1, <1>3, <1>4
    <2>3. Cong(f[i - 1] + v[i], s[i - 1] + v[i])
      <3>1. Cong(f[i - 1], s[i - 1]) /\ Cong(v[i], v[i])
        BY <2>1, <2>2, <1>4, CongIs
      <3> QED
        BY <3>1, <2>2, CongPlus
    <2>4. f[i - 1] + v[i] \in Int
      BY <2>2
    <2> DEFINE y == (f[i - 1] + v[i]) % Modulus
               z == f[i - 1] + v[i]
    <2>5. z \in Int /\ y = z % Modulus /\ Cong(z, s[i])
      BY <2>3, <2>4, <1>3
    <2> HIDE DEF z, y
    <2>6. y \in Residues /\ Cong(y, z) /\ y \in Int
      BY <2>5, CongMod, ExactInt DEF Residues
    <2>7. Cong(y, s[i])
      BY <2>2, <2>5, <2>6, CongIs
    <2>8. Cong(f[i], s[i]) /\ f[i] \in Residues
      BY <2>1, <1>4
    <2>9. Cong(y, f[i])
      BY <2>2, <2>6, <2>7, <2>8, CongIs
    <2>10. y = f[i]
      BY <2>6, <2>8, <2>9, CongMod DEF Residues
    <2> QED
      BY <2>10 DEF y
  <1> DEFINE d(i) == Seed[i] * Derivative(l)[model.outs[i]]
             chosen == CHOOSE c : GradientUpTo(l, k, c)
  <1>7. GradientUpTo(l, k, f)
    <2>1. \A i \in 0..k : f[i] = IF i = 0 THEN 0 ELSE (f[i - 1] + d(i)) % Modulus
      <3> SUFFICES ASSUME NEW i \in 0..k PROVE f[i] = IF i = 0 THEN 0 ELSE (f[i - 1] + d(i)) % Modulus
        OBVIOUS
      <3>1. CASE i = 0
        BY <3>1, <1>5
      <3>2. CASE i # 0
        <4>1. i \in 1..k
          BY <3>2, <1>1
        <4> QED
          BY <4>1, <3>2, <1>1, <1>6
      <3> QED
        BY <3>1, <3>2
    <2>2. f = [i \in 0..k |-> f[i]]
      BY DEF f
    <2> HIDE DEF d
    <2>3. f = [i \in 0..k |-> IF i = 0 THEN 0 ELSE (f[i - 1] + d(i)) % Modulus]
      BY <2>1, <2>2
    <2> QED
      BY <2>3 DEF GradientUpTo, d
  <1>8. GradientUpTo(l, k, chosen)
    BY <1>7
  <1>9. Gradient(l) = chosen[k]
    BY DEF Gradient, GradientUpTo, k
  <1> HIDE DEF chosen, d
  <1>10. chosen[0] = 0 /\ \A i \in 1..k : chosen[i] = (chosen[i - 1] + v[i]) % Modulus
    <2>1. \A i \in 0..k : chosen[i] = IF i = 0 THEN 0
                ELSE (chosen[i - 1] + Seed[i] * Derivative(l)[model.outs[i]]) % Modulus
      <3> DEFINE e(i) == IF i = 0 THEN 0
                ELSE (chosen[i - 1] + Seed[i] * Derivative(l)[model.outs[i]]) % Modulus
      <3>1. chosen = [i \in 0..k |-> e(i)]
        BY <1>8 DEF GradientUpTo
      <3> HIDE DEF e
      <3>2. \A i \in 0..k : chosen[i] = e(i)
        BY <3>1
      <3> QED
        BY <3>2 DEF e
    <2>2. 0 \in 0..k /\ \A i \in 1..k : i \in 0..k /\ i # 0
      BY <1>1
    <2> QED
      BY <2>1, <2>2, <1>1
  <1>11. \A i \in 0..k : chosen[i] = f[i]
    <2>1. \A i \in 1..k : chosen[i - 1] = f[i - 1] => chosen[i] = f[i]
      BY <1>6, <1>10
    <2>2. chosen[0] = f[0] /\ k \in Nat
      BY <1>1, <1>5, <1>10
    <2> QED
      BY ONLY <2>1, <2>2, ChainSame
  <1>12. Gradient(l) = f[k] /\ k \in 0..k
    BY <1>1, <1>9, <1>11
  <1>13. Total(v) = s[k]
    BY <1>1, <1>2, TotalOf
  <1> QED
    BY <1>4, <1>12, <1>13 DEF v

-----------------------------------------------------------------------------
\* What a run of the whole graph computes.

\* What a run of the whole graph is given at an input.
LEMMA GivenIs ==
    ASSUME NEW m, IsTraced(m)
    PROVE  /\ \A n \in Leaves : Given(m, n) = Point[n] /\ Given(m, n) \in Residues
           /\ \A i \in DOMAIN m.outs : /\ Given(m, <<"gradient", Output(m.outs[i])>>) = Seed[i]
                                       /\ Seed[i] \in Residues
           /\ \A n : OneOf(n, {"lr"}) => Given(m, n) \in Residues
  <1>1. \A n \in Leaves : Given(m, n) = Point[n] /\ Given(m, n) \in Residues
    BY StepAssumption DEF Given, Residues
  <1>2. ASSUME NEW i \in DOMAIN m.outs
        PROVE  Given(m, <<"gradient", Output(m.outs[i])>>) = Seed[i] /\ Seed[i] \in Residues
    <2> DEFINE n == <<"gradient", Output(m.outs[i])>>
               j == CHOOSE j \in DOMAIN m.outs : n = <<"gradient", Output(m.outs[j])>>
    <2>1. n \notin Leaves /\ n[1] = "gradient"
      BY NotLeaves, KindsDiffer
    <2>2. Given(m, n) = Seed[j]
      BY <2>1 DEF Given
    <2>3. j \in DOMAIN m.outs /\ n = <<"gradient", Output(m.outs[j])>>
      OBVIOUS
    <2> HIDE DEF j
    <2>4. Output(m.outs[j]) = Output(m.outs[i])
      BY <2>3, KindsDiffer
    <2>5. m.outs[j] = m.outs[i]
      BY <2>4, KindsDiffer DEF Output
    <2>6. Distinct(m.outs) /\ Len(m.outs) <= MaxModuleOutputs
          /\ m.outs \in Seq(Tensors(Len(m.body)) \ Weights)
      BY DEF IsTraced
    <2>7. i = j
      BY <2>3, <2>5, <2>6 DEF Distinct
    <2>8. i \in 1..MaxModuleOutputs
      BY <2>6, AutogradAssumption
    <2>9. Seed[i] \in Residues
      BY <2>8, StepAssumption DEF Residues
    <2> QED
      BY <2>2, <2>7, <2>9
  <1>3. ASSUME NEW n, OneOf(n, {"lr"}) PROVE Given(m, n) \in Residues
    <2>1. n \notin Leaves /\ n[1] = "lr"
      BY <1>3 DEF OneOf
    <2>2. Given(m, n) = Rate
      BY <2>1 DEF Given
    <2> QED
      BY <2>2, StepAssumption DEF Residues
  <1> QED
    BY <1>1, <1>2, <1>3

\* What the elements of its operands, in f, make a node of the whole graph.
Value(m, g, f, n) ==
    IF TypeOf(n) = "input" THEN Given(m, n)
    ELSE IF TypeOf(n) = "op" THEN Apply(g.node[n].role, Mapped(f, g.node[n].ins))
    ELSE f[g.node[n].ins[1]]

Runs(m, g, f) == \A n \in DOMAIN g.node : f[n] = Value(m, g, f, n)

\* Every input of a whole graph is given a residue.
LEMMA InputsGiven ==
    ASSUME NEW m, IsTraced(m), NEW g, Well(g), Listed(m, g), NEW n \in DOMAIN g.node,
           TypeOf(n) = "input"
    PROVE  Given(m, n) \in Residues
  <1>1. n \in Leaves \/ OneOf(n, {"gradient"}) \/ OneOf(n, {"lr"})
    <2>1. n \in Leaves \/ n[1] \in AllKinds
      BY DEF Well, Whole, Fits
    <2> QED
      BY <2>1 DEF TypeOf, OneOf
  <1>2. CASE OneOf(n, {"gradient"})
    <2>1. PICK o \in OutputNodes(m) : n = <<"gradient", o>>
      BY <1>2 DEF Listed
    <2>2. PICK i \in DOMAIN m.outs : o = Output(m.outs[i])
      BY OutputsAre DEF ToSet
    <2> QED
      BY <2>1, <2>2, GivenIs
  <1> QED
    BY <1>1, <1>2, GivenIs

\* A run of the whole graph exists.
LEMMA ComputedRuns ==
    ASSUME NEW m, IsTraced(m), NEW g, Well(g), Listed(m, g), NEW env,
           env = [n \in ToSet(OfType(g, "input")) |-> Given(m, n)]
    PROVE  /\ Runnable(g, env) /\ IsGraph(g) /\ Acyclic(g)
           /\ \A n \in DOMAIN g.node : TypeOf(n) = "input" => env[n] = Given(m, n)
           /\ \A n \in DOMAIN g.node : /\ g.node[n].type = TypeOf(n)
                                       /\ g.node[n].ins \in Seq(DOMAIN g.node)
                                       /\ TypeOf(n) # "input" => 1 \in DOMAIN g.node[n].ins
  <1>1. IsGraph(g) /\ Acyclic(g) /\ \A n \in DOMAIN g.node : Whole(n, g.node[n])
    BY DEF Well
  <1>2. \A n \in DOMAIN g.node : g.node[n].type = TypeOf(n) /\ g.node[n].ins \in Seq(DOMAIN g.node)
    BY <1>1 DEF Whole, Fits, IsGraph, Records
  <1>3. \A n \in DOMAIN g.node : TypeOf(n) = "input" => env[n] = Given(m, n)
    BY <1>1, <1>2, OfTypeIs
  <1>4. \A n \in DOMAIN g.node : TypeOf(n) = "input" => env[n] \in Residues
    BY <1>3, InputsGiven
  <1>5. ASSUME NEW n \in DOMAIN g.node
        PROVE  /\ g.node[n].type = "op" => /\ g.node[n].role \in DOMAIN OpArity
                                           /\ Len(g.node[n].ins) = OpArity[g.node[n].role]
               /\ g.node[n].type \in {"output", "queue"} => Len(g.node[n].ins) = 1
    BY <1>1, WholeIsEquipped
  <1>6. \A o \in DOMAIN OpArity : OpArity[o] \in {1, 2}
    BY DEF OpArity
  <1>7. Runnable(g, env)
    <2>1. \A n \in DOMAIN g.node : g.node[n].type = "op" => Len(g.node[n].ins) >= OpArity[g.node[n].role]
      BY <1>5, <1>6
    <2>2. \A n \in DOMAIN g.node : g.node[n].type \in {"output", "queue"} => Len(g.node[n].ins) >= 1
      BY <1>5
    <2> QED
      BY <1>2, <1>4, <1>5, <2>1, <2>2 DEF Runnable
  <1>8. \A n \in DOMAIN g.node : TypeOf(n) # "input" => 1 \in DOMAIN g.node[n].ins
    <2> SUFFICES ASSUME NEW n \in DOMAIN g.node, TypeOf(n) # "input"
                 PROVE  1 \in DOMAIN g.node[n].ins
      OBVIOUS
    <2>1. TypeOf(n) \in {"op", "output", "queue"}
      BY DEF TypeOf
    <2>2. Len(g.node[n].ins) \in {1, 2}
      BY <2>1, <1>2, <1>5, <1>6
    <2>3. g.node[n].ins \in Seq(DOMAIN g.node)
      BY <1>2
    <2> QED
      BY <2>2, <2>3
  <1> QED
    BY <1>1, <1>2, <1>3, <1>7, <1>8

\* What a node is computed from, in the two ways of saying it.
LEMMA ValueIs ==
    ASSUME NEW m, IsTraced(m), NEW g, Well(g), Listed(m, g), NEW env,
           env = [n \in ToSet(OfType(g, "input")) |-> Given(m, n)], NEW f,
           NEW n \in DOMAIN g.node
    PROVE  Body(g, env, f, n) = Value(m, g, f, n)
  <1>1. /\ g.node[n].type = TypeOf(n)
        /\ TypeOf(n) = "input" => env[n] = Given(m, n)
    BY ComputedRuns
  <1> HIDE DEF TypeOf
  <1>2. CASE TypeOf(n) = "input"
    BY <1>1, <1>2 DEF Body, Value
  <1>3. CASE TypeOf(n) = "op"
    BY <1>1, <1>3 DEF Body, Value, Mapped
  <1>4. CASE TypeOf(n) \notin {"input", "op"}
    BY <1>1, <1>4 DEF Body, Value
  <1> QED
    BY <1>2, <1>3, <1>4

\* A run of the whole graph gives each node what its operands make it.
LEMMA ComputedAre ==
    ASSUME NEW m, IsTraced(m), NEW g, Well(g), Listed(m, g)
    PROVE  /\ Runs(m, g, Computed(m, g)) /\ DOMAIN Computed(m, g) = DOMAIN g.node
           /\ \A n \in DOMAIN g.node : Computed(m, g)[n] \in Residues
  <1> DEFINE env == [n \in ToSet(OfType(g, "input")) |-> Given(m, n)]
             val == Computed(m, g)
  <1>1. val = Values(g, env)
    BY DEF Computed
  <1> HIDE DEF env, val
  <1>2. Runnable(g, env) /\ IsGraph(g) /\ Acyclic(g)
    BY ComputedRuns DEF env
  <1>3. /\ ValuesStep(g, env, val)
        /\ \A n \in DOMAIN g.node : g.node[n].type # "input" => val[n] \in Residues
    BY <1>1, <1>2, ValuesAre
  <1>4. DOMAIN val = DOMAIN g.node /\ \A n \in DOMAIN g.node : val[n] = Body(g, env, val, n)
    BY <1>3 DEF ValuesStep
  <1>5. \A n \in DOMAIN g.node : val[n] = Value(m, g, val, n)
    BY <1>4, ValueIs DEF env
  <1>6. \A n \in DOMAIN g.node : val[n] \in Residues
    <2> SUFFICES ASSUME NEW n \in DOMAIN g.node PROVE val[n] \in Residues
      OBVIOUS
    <2>1. g.node[n].type = TypeOf(n)
      BY ComputedRuns
    <2>2. CASE TypeOf(n) = "input"
      <3>1. val[n] = Given(m, n)
        BY <2>2, <1>5 DEF Value
      <3> QED
        BY <2>2, <3>1, InputsGiven
    <2> QED
      BY <2>1, <2>2, <1>3
  <1> QED
    BY <1>4, <1>5, <1>6 DEF Runs, val

\* It is the only one.
LEMMA ComputedOnly ==
    ASSUME NEW m, IsTraced(m), NEW g, Well(g), Listed(m, g), NEW f, Runs(m, g, f)
    PROVE  \A n \in DOMAIN g.node : f[n] = Computed(m, g)[n]
  <1> DEFINE env == [n \in ToSet(OfType(g, "input")) |-> Given(m, n)]
             D == DOMAIN g.node
             h == [n \in D |-> f[n]]
  <1>1. Runnable(g, env) /\ IsGraph(g) /\ Acyclic(g)
    BY ComputedRuns
  <1>2. \A n \in D : h[n] = f[n]
    OBVIOUS
  <1>3. ASSUME NEW n \in D PROVE f[n] = Body(g, env, h, n)
    <2>1. /\ g.node[n].type = TypeOf(n) /\ g.node[n].ins \in Seq(D)
          /\ TypeOf(n) # "input" => 1 \in DOMAIN g.node[n].ins
      BY ComputedRuns
    <2>2. \A i \in DOMAIN g.node[n].ins : h[g.node[n].ins[i]] = f[g.node[n].ins[i]]
      BY <2>1, <1>2
    <2>3. g.node[n].type \in Types
      BY <1>1 DEF IsGraph, Records
    <2>4. Body(g, env, h, n) = Body(g, env, f, n)
      <3>1. g.node[n].type \in {"output", "queue"} => 1 \in DOMAIN g.node[n].ins
        BY <2>1
      <3> HIDE DEF env, h
      <3> QED
        BY <2>2, <2>3, <3>1, BodySame
    <2>5. Body(g, env, f, n) = Value(m, g, f, n)
      BY ValueIs
    <2> QED
      BY <2>4, <2>5 DEF Runs
  <1>4. ValuesStep(g, env, h)
    <2>1. h = [n \in D |-> Body(g, env, h, n)]
      <3> DEFINE b(n) == Body(g, env, h, n)
      <3>1. \A n \in D : f[n] = b(n)
        BY <1>3
      <3> HIDE DEF b
      <3>2. h = [n \in D |-> b(n)]
        BY <3>1
      <3> QED
        BY <3>2 DEF b
    <2> QED
      BY <2>1 DEF ValuesStep
  <1> HIDE DEF h, env
  <1>5. ValuesStep(g, env, Values(g, env))
    BY <1>1, ValuesAre
  <1>6. h = Values(g, env)
    BY <1>1, <1>4, <1>5, ValuesSame
  <1> QED
    BY <1>2, <1>6 DEF Computed, env

\* Nodes that come leave what the others compute.
LEMMA ComputedGrows ==
    ASSUME NEW m, IsTraced(m), NEW g, Well(g), Listed(m, g), NEW h, Well(h), Listed(m, h),
           DOMAIN g.node \subseteq DOMAIN h.node, \A n \in DOMAIN g.node : h.node[n] = g.node[n]
    PROVE  \A n \in DOMAIN g.node : Computed(m, h)[n] = Computed(m, g)[n]
  <1> DEFINE val == Computed(m, h)
  <1>1. \A n \in DOMAIN h.node : val[n] = Value(m, h, val, n)
    BY ComputedAre DEF Runs
  <1> HIDE DEF val
  <1>2. ASSUME NEW n \in DOMAIN g.node PROVE val[n] = Value(m, g, val, n)
    <2>1. h.node[n] = g.node[n] /\ n \in DOMAIN h.node
      OBVIOUS
    <2>2. Value(m, h, val, n) = Value(m, g, val, n)
      BY <2>1 DEF Value
    <2> QED
      BY <2>1, <2>2, <1>1
  <1>3. Runs(m, g, val)
    BY <1>2 DEF Runs
  <1> QED
    BY <1>3, ComputedOnly DEF val

\* What a run of the whole graph has for a node.
LEMMA ValueAt ==
    ASSUME NEW m, IsTraced(m), NEW g, Well(g), Listed(m, g), NEW n \in DOMAIN g.node
    PROVE  Computed(m, g)[n] = Value(m, g, Computed(m, g), n)
  BY ComputedAre DEF Runs

\* A node that hands on what it reads.
LEMMA HandsThrough ==
    ASSUME NEW m, IsTraced(m), NEW g, Well(g), Listed(m, g), NEW n \in DOMAIN g.node,
           TypeOf(n) \in {"queue", "output"}
    PROVE  Computed(m, g)[n] = Computed(m, g)[g.node[n].ins[1]]
  BY ValueAt DEF Value

\* What a forward node reads.
LEMMA ForwardReads ==
    ASSUME IsTraced(model), NEW g, Well(g), Follows(model, g), NEW n \in Forwards(g)
    PROVE  /\ g.node[n].ins \in Seq(Forwards(g)) /\ n \in DOMAIN g.node
           /\ TensorOf(n) \in Tensors(Len(model.body))
           /\ \A p \in DOMAIN g.node[n].ins :
                 /\ g.node[n].ins[p] \in Forwards(g) /\ g.node[n].ins[p] \in DOMAIN g.node
                 /\ g.node[n].ins[p] \in ToSet(g.node[n].ins)
                 /\ TensorOf(g.node[n].ins[p]) \in Tensors(Len(model.body))
           /\ n \in Leaves => TypeOf(n) = "input"
           /\ n \notin Leaves => /\ TypeOf(n) \in {"op", "output"} /\ 1 \in DOMAIN g.node[n].ins
                                 /\ FollowsOp(model, n, g.node[n])
           /\ TypeOf(n) = "op" => /\ g.node[n].role \in {"Add", "Multiply", "Exp", "Nop"}
                                  /\ DOMAIN g.node[n].ins = 1..OpArity[g.node[n].role]
           /\ TypeOf(n) = "output" => DOMAIN g.node[n].ins = 1..1
  <1>1. n \in DOMAIN g.node /\ EpochOf(n) = "fwd" /\ Whole(n, g.node[n])
        /\ g.node[n].ins \in Seq(DOMAIN g.node)
    BY DEF Forwards, Well, IsGraph, Records
  <1>2. \A p \in DOMAIN g.node[n].ins :
           g.node[n].ins[p] \in DOMAIN g.node /\ g.node[n].ins[p] \in ToSet(g.node[n].ins)
    BY <1>1 DEF ToSet
  <1>3. \A p \in DOMAIN g.node[n].ins : g.node[n].ins[p] \in Forwards(g)
    BY <1>1, <1>2 DEF Whole, Fits, MayRead, Forwards
  <1>4. g.node[n].ins \in Seq(Forwards(g))
    <2>1. ToSet(g.node[n].ins) \subseteq Forwards(g)
      BY <1>3 DEF ToSet
    <2> QED
      BY <2>1, <1>1, Retyped
  <1>5. \A x \in Forwards(g) : TensorOf(x) \in Tensors(Len(model.body))
    BY DEF Follows
  <1>6. /\ n \in Leaves => TypeOf(n) = "input"
        /\ n \notin Leaves => TypeOf(n) \in {"op", "output"}
    BY <1>1 DEF TypeOf, EpochOf, FwdKinds, OptKinds
  <1>7. /\ g.node[n].type = TypeOf(n) /\ g.node[n].role \in RolesOf(n)
        /\ Len(g.node[n].ins) = Ports(g.node[n])
    BY <1>1 DEF Whole, Fits
  <1>8. TypeOf(n) = "op" => g.node[n].role \in {"Add", "Multiply", "Exp", "Nop"}
    <2>1. TypeOf(n) = "op" => n \notin Leaves /\ n[1] \in FwdKinds
                              /\ n[1] \notin {"gradient", "lr", "output", "output_grad", "grad_acc"}
      BY <1>1 DEF TypeOf, EpochOf
    <2> QED
      BY <2>1, <1>7 DEF RolesOf, Leaves
  <1>9. TypeOf(n) = "op" => Len(g.node[n].ins) = OpArity[g.node[n].role]
    BY <1>7 DEF Ports
  <1>10. TypeOf(n) = "output" => Len(g.node[n].ins) = 1
    BY <1>7 DEF Ports
  <1>11. \A o \in {"Add", "Multiply", "Exp", "Nop"} : OpArity[o] \in {1, 2}
    BY DEF OpArity
  <1>12. DOMAIN g.node[n].ins = 1..Len(g.node[n].ins)
    BY <1>1
  <1>13. n \notin Leaves => 1 \in DOMAIN g.node[n].ins
    <2>1. n \notin Leaves => Len(g.node[n].ins) \in {1, 2}
      BY <1>6, <1>8, <1>9, <1>10, <1>11
    <2>2. \A k \in {1, 2} : 1 \in 1..k
      OBVIOUS
    <2> QED
      BY <2>1, <2>2, <1>12
  <1> QED
    BY <1>1, <1>2, <1>3, <1>4, <1>5, <1>6, <1>8, <1>9, <1>10, <1>12, <1>13 DEF Follows

\* f does not tell a Nop's result from its operand.
Passes(f) == \A t \in Tensors(Len(model.body)) : f[Source(model)[t]] = f[t]

\* What f has for a forward node and for its operands, if f does not tell a Nop's result
\* from its operand.
LEMMA FollowsAlong ==
    ASSUME IsTraced(model), NEW g, Well(g), Follows(model, g), NEW n \in Forwards(g),
           n \notin Leaves, NEW f, Passes(f)
    PROVE  \/ /\ TypeOf(n) = "output" \/ g.node[n].role = "Nop"
              /\ f[TensorOf(n)] = f[TensorOf(g.node[n].ins[1])]
           \/ /\ TypeOf(n) = "op" /\ g.node[n].role # "Nop" /\ TensorOf(n) = n
              /\ g.node[n].role = OpOf(n) /\ DOMAIN Args(f, n) = DOMAIN g.node[n].ins
              /\ \A p \in DOMAIN g.node[n].ins :
                    Args(f, n)[p] = f[TensorOf(g.node[n].ins[p])]
  <1> DEFINE T == Tensors(Len(model.body))
             ins == g.node[n].ins
  <1>1. /\ TensorOf(n) \in T /\ TypeOf(n) \in {"op", "output"} /\ 1 \in DOMAIN ins
        /\ FollowsOp(model, n, g.node[n])
        /\ \A p \in DOMAIN ins : TensorOf(ins[p]) \in T
    BY ForwardReads
  <1>2. \A t \in T : f[Source(model)[t]] = f[t]
    BY DEF Passes
  <1>3. CASE TypeOf(n) = "output" \/ g.node[n].role = "Nop"
    <2>1. Source(model)[TensorOf(ins[1])] = Source(model)[TensorOf(n)]
      BY <1>1, <1>3 DEF FollowsOp
    <2> QED
      BY <2>1, <1>1, <1>2, <1>3
  <1>4. CASE ~(TypeOf(n) = "output" \/ g.node[n].role = "Nop")
    <2> DEFINE args == model.body[n[2]].args
    <2>1. /\ n[1] = "op" /\ TypeOf(n) = "op" /\ g.node[n].role = OpOf(n)
          /\ \A p \in DOMAIN ins : Source(model)[TensorOf(ins[p])] = Source(model)[args[p]]
      BY <1>1, <1>4 DEF FollowsOp, OpOf
    <2>2. TensorOf(n) = n /\ n \in T
      BY <2>1, <1>1 DEF TensorOf
    <2>3. /\ DOMAIN Args(f, n) = DOMAIN args /\ DOMAIN args = 1..OpArity[OpOf(n)]
          /\ \A p \in DOMAIN args : Args(f, n)[p] = f[args[p]] /\ args[p] \in T
      BY <2>2, ArgsOf
    <2>4. DOMAIN ins = 1..OpArity[OpOf(n)]
      BY <2>1, ForwardReads
    <2> HIDE DEF args
    <2>5. \A p \in DOMAIN ins : Args(f, n)[p] = f[TensorOf(ins[p])]
      <3> SUFFICES ASSUME NEW p \in DOMAIN ins PROVE Args(f, n)[p] = f[TensorOf(ins[p])]
        OBVIOUS
      <3>1. Args(f, n)[p] = f[args[p]] /\ args[p] \in T
        BY <2>3, <2>4
      <3>2. f[args[p]] = f[Source(model)[args[p]]]
        BY <3>1, <1>2
      <3>3. f[TensorOf(ins[p])] = f[Source(model)[TensorOf(ins[p])]]
        BY <1>1, <1>2
      <3> QED
        BY Zenon, <3>1, <3>2, <3>3, <2>1 DEF args
    <2> QED
      BY <2>1, <2>2, <2>3, <2>4, <2>5, <1>4
  <1> QED
    BY <1>3, <1>4

\* Neither elements nor derivatives do.
LEMMA BothPass ==
    ASSUME IsTraced(model)
    PROVE  Passes(Exact) /\ \A l : Passes(Derivative(l))
  BY ExactOfSource, DerivativeOfSource DEF Passes

\* What a Nop does.
LEMMA NopApplied ==
    \A args : Apply("Nop", args) = args[1]
  BY DEF Apply

\* A run of the whole graph has at each forward node the element of its tensor.
LEMMA ForwardComputed ==
    ASSUME IsTraced(model), NEW g, Well(g), Listed(model, g), Follows(model, g)
    PROVE  \A n \in Forwards(g) : Computed(model, g)[n] = Exact[TensorOf(n)]
  <1> DEFINE val == Computed(model, g)
             F == Forwards(g)
             good(n) == val[n] = Exact[TensorOf(n)]
  <1>1. PICK r \in Ranks(g) : TRUE
    BY DEF Well, Acyclic
  <1>2. /\ \A n \in DOMAIN g.node : r[n] \in Nat
        /\ \A n \in DOMAIN g.node : \A x \in ToSet(g.node[n].ins) : r[x] < r[n]
    BY DEF Ranks
  <1>3. PICK k \in Nat : \A n \in DOMAIN g.node : r[n] < k
    BY RanksBounded DEF Well
  <1>4. \A n \in DOMAIN g.node : val[n] = Value(model, g, val, n)
    BY ComputedAre DEF Runs
  <1> HIDE DEF val
  <1>5. ASSUME NEW n \in F, \A p \in DOMAIN g.node[n].ins : good(g.node[n].ins[p])
        PROVE  good(n)
    <2> DEFINE ins == g.node[n].ins
               a == Mapped(val, ins)
    <2>1. /\ n \in DOMAIN g.node /\ TensorOf(n) \in Tensors(Len(model.body))
          /\ n \in Leaves => TypeOf(n) = "input"
          /\ n \notin Leaves => TypeOf(n) \in {"op", "output"} /\ 1 \in DOMAIN ins
      BY ForwardReads
    <2>2. a[1] = val[ins[1]] \/ 1 \notin DOMAIN ins
      BY DEF Mapped
    <2>3. val[n] = Value(model, g, val, n)
      BY <2>1, <1>4
    <2>4. CASE n \in Leaves
      <3>1. TensorOf(n) = n
        BY <2>4 DEF TensorOf
      <3>2. val[n] = Given(model, n)
        BY <2>1, <2>3, <2>4 DEF Value
      <3>3. Given(model, n) = Point[n]
        BY <2>4, GivenIs
      <3>4. Exact[n] = Point[n]
        BY <2>1, <2>4, <3>1, ExactIs
      <3> QED
        BY <3>1, <3>2, <3>3, <3>4
    <2>5. CASE n \notin Leaves
      <3>1. \/ /\ TypeOf(n) = "output" \/ g.node[n].role = "Nop"
               /\ Exact[TensorOf(n)] = Exact[TensorOf(ins[1])]
            \/ /\ TypeOf(n) = "op" /\ g.node[n].role # "Nop" /\ TensorOf(n) = n
               /\ g.node[n].role = OpOf(n) /\ DOMAIN Args(Exact, n) = DOMAIN ins
               /\ \A p \in DOMAIN ins : Args(Exact, n)[p] = Exact[TensorOf(ins[p])]
        BY <2>5, BothPass, FollowsAlong
      <3>2. CASE TypeOf(n) = "output"
        <4>1. val[n] = val[ins[1]]
          BY <2>3, <3>2 DEF Value
        <4> QED
          BY <4>1, <3>1, <3>2, <2>1, <2>5, <1>5
      <3>3. CASE TypeOf(n) = "op" /\ g.node[n].role = "Nop"
        <4>1. val[n] = Apply("Nop", a)
          BY <2>3, <3>3 DEF Value
        <4>2. val[n] = val[ins[1]]
          <5> HIDE DEF a
          <5> QED
            BY <4>1, <2>1, <2>2, <2>5, NopApplied
        <4> QED
          BY <4>2, <3>1, <3>3, <2>1, <2>5, <1>5
      <3>4. CASE TypeOf(n) = "op" /\ g.node[n].role # "Nop"
        <4>1. /\ TensorOf(n) = n /\ g.node[n].role = OpOf(n) /\ DOMAIN Args(Exact, n) = DOMAIN ins
              /\ \A p \in DOMAIN ins : Args(Exact, n)[p] = Exact[TensorOf(ins[p])]
          BY <3>1, <3>4
        <4>2. val[n] = Apply(OpOf(n), a)
          BY <4>1, <2>3, <3>4 DEF Value
        <4>3. a = Args(Exact, n)
          <5> DEFINE b == Args(Exact, n)
          <5>1. b = [i \in DOMAIN b |-> b[i]]
            BY DEF Args
          <5>2. a = [i \in DOMAIN ins |-> val[ins[i]]]
            BY DEF Mapped
          <5>3. \A i \in DOMAIN ins : val[ins[i]] = b[i]
            BY <4>1, <1>5
          <5> HIDE DEF a, b
          <5> QED
            BY <5>1, <5>2, <5>3, <4>1 DEF b
        <4>4. Exact[n] = Apply(OpOf(n), Args(Exact, n))
          BY <4>1, <2>1, <2>5, ExactIs
        <4> QED
          BY <4>1, <4>2, <4>3, <4>4
      <3> QED
        BY <3>2, <3>3, <3>4, <2>1, <2>5
    <2> QED
      BY <2>4, <2>5
  <1> HIDE DEF good
  <1> DEFINE Good == {j \in Nat : \A n \in F : r[n] < j => good(n)}
  <1>6. 0 \in Good
    BY <1>2 DEF Forwards
  <1>7. ASSUME NEW j \in Nat, j \in Good PROVE j + 1 \in Good
    <2> SUFFICES ASSUME NEW n \in F, r[n] < j + 1 PROVE good(n)
      OBVIOUS
    <2>1. \A p \in DOMAIN g.node[n].ins :
             /\ g.node[n].ins[p] \in F /\ g.node[n].ins[p] \in DOMAIN g.node
             /\ r[g.node[n].ins[p]] < r[n] /\ n \in DOMAIN g.node
      BY ForwardReads, <1>2
    <2>2. \A p \in DOMAIN g.node[n].ins : good(g.node[n].ins[p])
      BY <2>1, <1>2, <1>7
    <2> QED
      BY <2>2, <1>5
  <1>8. k \in Good
    <2> HIDE DEF Good
    <2> QED
      BY <1>6, <1>7, SetInduction
  <1>9. \A n \in F : good(n)
    BY <1>3, <1>8 DEF Forwards
  <1> QED
    BY <1>9 DEF good, val

-----------------------------------------------------------------------------
\* Slopes, the derivatives along one entry of a leaf, and the chain rule.

\* A function on the first numbers is a sequence.
LEMMA ListIs ==
    ASSUME NEW n \in Nat, NEW T, NEW v \in [1..n -> T]
    PROVE  v \in Seq(T) /\ Len(v) = n /\ DOMAIN v = 1..n
  OBVIOUS

\* Sums of one and of two.
LEMMA TotalFew ==
    /\ \A v \in [1..1 -> Int] : Total(v) = v[1]
    /\ \A v \in [1..2 -> Int] : Total(v) = v[1] + v[2]
  <1>1. ASSUME NEW v \in [1..1 -> Int] PROVE Total(v) = v[1]
    <2>1. 1 \in Nat /\ 1 \in 1..1 /\ \A i \in 1..1 : i # 1 => v[i] = 0
      OBVIOUS
    <2> QED
      BY ONLY <2>1, v \in [1..1 -> Int], TotalPoint
  <1>2. ASSUME NEW v \in [1..2 -> Int] PROVE Total(v) = v[1] + v[2]
    <2> DEFINE s == [i \in 0..2 |-> IF i = 0 THEN 0 ELSE IF i = 1 THEN v[1] ELSE v[1] + v[2]]
    <2>1. v \in Seq(Int) /\ Len(v) = 2 /\ v[1] \in Int /\ v[2] \in Int
      <3>1. 2 \in Nat /\ 1 \in 1..2 /\ 2 \in 1..2
        OBVIOUS
      <3>2. v \in Seq(Int) /\ Len(v) = 2
        BY ONLY <3>1, v \in [1..2 -> Int], ListIs
      <3> QED
        BY <3>1, <3>2
    <2>2. s[0] = 0 /\ s[1] = v[1] /\ s[2] = v[1] + v[2] /\ s \in [0..2 -> Int]
      BY <2>1
    <2> HIDE DEF s
    <2>3. \A i \in 1..2 : i = 1 \/ i = 2
      OBVIOUS
    <2>4. s[1] = s[1 - 1] + v[1] /\ s[2] = s[2 - 1] + v[2]
      BY <2>1, <2>2
    <2>5. SumsTo(v, 2, s)
      BY <2>2, <2>3, <2>4 DEF SumsTo
    <2>6. Total(v) = s[2]
      BY <2>1, <2>5, TotalOf DEF PartialSums
    <2> QED
      BY <2>2, <2>6
  <1> QED
    BY <1>1, <1>2

\* The derivative of the tensor a forward node stands for.
Slope(l, n) == Derivative(l)[TensorOf(n)]

\* It is one for the leaf itself and nothing for the others.
LEMMA LeafSlope ==
    ASSUME IsTraced(model), NEW l, NEW n \in Leaves
    PROVE  Slope(l, n) = IF n = l THEN 1 ELSE 0
  <1>1. TensorOf(n) = n /\ n \in Tensors(Len(model.body))
    BY DEF TensorOf, Tensors
  <1>2. Derivative(l)[n] = DerivativeOf(l, Derivative(l), n)
    BY <1>1, DerivativeIs
  <1> QED
    BY <1>1, <1>2 DEF Slope, DerivativeOf

\* Slopes are integers.
LEMMA SlopeInt ==
    ASSUME IsTraced(model), NEW g, Follows(model, g), NEW l, NEW n \in Forwards(g)
    PROVE  Slope(l, n) \in Int
  BY DerivativeIs DEF Slope, Follows

\* The chain rule, op by op.
LEMMA ChainRuleIs ==
    \A a, v, e : /\ ChainRule("Add", a, v, e) = (a[1] + a[2]) % Modulus
                 /\ ChainRule("Multiply", a, v, e) = (a[1] * v[2] + v[1] * a[2]) % Modulus
                 /\ ChainRule("Exp", a, v, e) = (a[1] * e) % Modulus
                 /\ ChainRule("Nop", a, v, e) = a[1]
  BY DEF ChainRule

\* The slope of n, whose record is nd, by those of its operands.
Sloped(l, val, n, nd) ==
    /\ TypeOf(n) = "output" \/ nd.role = "Nop" => Slope(l, n) = Slope(l, nd.ins[1])
    /\ TypeOf(n) = "op" /\ nd.role = "Add" =>
          Slope(l, n) = (Slope(l, nd.ins[1]) + Slope(l, nd.ins[2])) % Modulus
    /\ TypeOf(n) = "op" /\ nd.role = "Multiply" =>
          Slope(l, n) = (Slope(l, nd.ins[1]) * val[nd.ins[2]]
                         + val[nd.ins[1]] * Slope(l, nd.ins[2])) % Modulus
    /\ TypeOf(n) = "op" /\ nd.role = "Exp" =>
          Slope(l, n) = (Slope(l, nd.ins[1]) * val[n]) % Modulus

\* Along the nodes slopes follow the chain rule.
LEMMA SlopeIs ==
    ASSUME IsTraced(model), NEW g, Well(g), Listed(model, g), Follows(model, g), NEW l,
           NEW n \in Forwards(g), n \notin Leaves, NEW val, val = Computed(model, g)
    PROVE  Sloped(l, val, n, g.node[n])
  <1> DEFINE ins == g.node[n].ins
             role == g.node[n].role
             D == Derivative(l)
  <1>1. /\ n \in DOMAIN g.node /\ TensorOf(n) \in Tensors(Len(model.body))
        /\ TypeOf(n) \in {"op", "output"} /\ 1 \in DOMAIN ins
        /\ \A p \in DOMAIN ins : ins[p] \in Forwards(g)
        /\ TypeOf(n) = "op" => DOMAIN ins = 1..OpArity[role]
    BY ForwardReads
  <1>2. \/ /\ TypeOf(n) = "output" \/ role = "Nop"
           /\ D[TensorOf(n)] = D[TensorOf(ins[1])]
        \/ /\ TypeOf(n) = "op" /\ role # "Nop" /\ TensorOf(n) = n
           /\ role = OpOf(n) /\ DOMAIN Args(D, n) = DOMAIN ins
           /\ \A p \in DOMAIN ins : Args(D, n)[p] = D[TensorOf(ins[p])]
    BY BothPass, FollowsAlong
  <1>3. TypeOf(n) = "output" \/ role = "Nop" => Slope(l, n) = Slope(l, ins[1])
    BY <1>1, <1>2 DEF Slope
  <1>4. ASSUME TypeOf(n) = "op", role # "Nop"
        PROVE  \E a, v : /\ a[1] = Slope(l, ins[1]) /\ v[1] = val[ins[1]]
                         /\ role \in {"Add", "Multiply"} => a[2] = Slope(l, ins[2]) /\ v[2] = val[ins[2]]
                         /\ Slope(l, n) = ChainRule(role, a, v, val[n])
    <2>1. /\ TensorOf(n) = n /\ role = OpOf(n)
          /\ \A p \in DOMAIN ins : Args(D, n)[p] = Slope(l, ins[p])
      BY <1>2, <1>4 DEF Slope
    <2>2. \A p \in DOMAIN ins : Args(Exact, n)[p] = Exact[TensorOf(ins[p])]
      BY <1>4, BothPass, FollowsAlong
    <2>3. val[n] = Exact[n] /\ \A p \in DOMAIN ins : Exact[TensorOf(ins[p])] = val[ins[p]]
      BY <1>1, <2>1, ForwardComputed
    <2>4. Slope(l, n) = ChainRule(OpOf(n), Args(D, n), Args(Exact, n), val[n])
      BY <1>1, <2>1, <2>3, DerivativeIs DEF DerivativeOf, Slope
    <2>5. \A p \in DOMAIN ins : Args(Exact, n)[p] = val[ins[p]]
      BY <2>2, <2>3
    <2>6. role \in {"Add", "Multiply"} => 2 \in DOMAIN ins
      BY <1>1, <1>4 DEF OpArity
    <2> DEFINE a == Args(D, n)
               v == Args(Exact, n)
    <2>7. /\ a[1] = Slope(l, ins[1]) /\ v[1] = val[ins[1]]
          /\ role \in {"Add", "Multiply"} => a[2] = Slope(l, ins[2]) /\ v[2] = val[ins[2]]
      BY <1>1, <2>1, <2>5, <2>6
    <2>8. Slope(l, n) = ChainRule(role, a, v, val[n])
      BY <2>1, <2>4
    <2> HIDE DEF a, v, ins, role
    <2> QED
      BY <2>7, <2>8
  <1> HIDE DEF ins, role
  <1>5. ASSUME TypeOf(n) = "op", role = "Add"
        PROVE  Slope(l, n) = (Slope(l, ins[1]) + Slope(l, ins[2])) % Modulus
    <2>1. PICK a, v : /\ a[1] = Slope(l, ins[1]) /\ a[2] = Slope(l, ins[2])
                      /\ Slope(l, n) = ChainRule("Add", a, v, val[n])
      BY <1>4, <1>5
    <2> QED
      BY <2>1, ChainRuleIs
  <1>6. ASSUME TypeOf(n) = "op", role = "Multiply"
        PROVE  Slope(l, n) = (Slope(l, ins[1]) * val[ins[2]] + val[ins[1]] * Slope(l, ins[2])) % Modulus
    <2>1. PICK a, v : /\ a[1] = Slope(l, ins[1]) /\ a[2] = Slope(l, ins[2])
                      /\ v[1] = val[ins[1]] /\ v[2] = val[ins[2]]
                      /\ Slope(l, n) = ChainRule("Multiply", a, v, val[n])
      BY <1>4, <1>6
    <2> QED
      BY <2>1, ChainRuleIs
  <1>7. ASSUME TypeOf(n) = "op", role = "Exp"
        PROVE  Slope(l, n) = (Slope(l, ins[1]) * val[n]) % Modulus
    <2>1. PICK a, v : /\ a[1] = Slope(l, ins[1])
                      /\ Slope(l, n) = ChainRule("Exp", a, v, val[n])
      BY <1>4, <1>7
    <2> QED
      BY <2>1, ChainRuleIs
  <1> QED
    BY <1>3, <1>5, <1>6, <1>7 DEF Sloped, ins, role

\* A remainder of zero, and products with zero.
LEMMA Zeros ==
    /\ 0 % Modulus = 0 /\ (0 + 0) % Modulus = 0
    /\ \A x, y \in Int : (0 * x + y * 0) % Modulus = 0 /\ (0 * x) % Modulus = 0
  <1>1. Modulus \in Nat \ {0}
    BY TensorAssumption
  <1>2. 0 % Modulus = 0
    BY <1>1
  <1>3. \A x, y \in Int : 0 * x + y * 0 = 0 /\ 0 * x = 0
    OBVIOUS
  <1>4. 0 + 0 = 0
    OBVIOUS
  <1> QED
    BY <1>2, <1>3, <1>4

\* Nodes that need no gradient do not depend on what is trained.
LEMMA SlopeZero ==
    ASSUME IsTraced(model), NEW g, Well(g), Listed(model, g), Follows(model, g),
           NEW rg, Needs(model, g, rg), NEW l \in model.trained
    PROVE  \A n \in Forwards(g) : n \notin rg => Slope(l, n) = 0
  <1> DEFINE val == Computed(model, g)
             F == Forwards(g)
             good(n) == n \notin rg => Slope(l, n) = 0
  <1>1. PICK r \in Ranks(g) : TRUE
    BY DEF Well, Acyclic
  <1>2. /\ \A n \in DOMAIN g.node : r[n] \in Nat
        /\ \A n \in DOMAIN g.node : \A x \in ToSet(g.node[n].ins) : r[x] < r[n]
    BY DEF Ranks
  <1>3. PICK k \in Nat : \A n \in DOMAIN g.node : r[n] < k
    BY RanksBounded DEF Well
  <1>4. \A n \in DOMAIN g.node : val[n] \in Int
    BY ComputedAre, ExactInt
  <1>20. val = Computed(model, g)
    OBVIOUS
  <1> HIDE DEF val
  <1>5. ASSUME NEW n \in F, \A p \in DOMAIN g.node[n].ins : good(g.node[n].ins[p])
        PROVE  good(n)
    <2> SUFFICES ASSUME n \notin rg PROVE Slope(l, n) = 0
      OBVIOUS
    <2> DEFINE ins == g.node[n].ins
    <2>1. /\ n \in DOMAIN g.node /\ EpochOf(n) = "fwd"
          /\ \A p \in DOMAIN ins : ins[p] \in ToSet(ins) /\ ins[p] \in DOMAIN g.node
          /\ n \notin Leaves => TypeOf(n) \in {"op", "output"} /\ 1 \in DOMAIN ins
          /\ TypeOf(n) = "op" => /\ g.node[n].role \in {"Add", "Multiply", "Exp", "Nop"}
                                 /\ DOMAIN ins = 1..OpArity[g.node[n].role]
      BY ForwardReads DEF Forwards
    <2>2. CASE n \in Leaves
      <3>1. n \notin model.trained
        BY <2>1, <2>2 DEF Needs
      <3> QED
        BY <2>2, <3>1, LeafSlope
    <2>3. CASE n \notin Leaves
      <3>1. \A p \in DOMAIN ins : ins[p] \notin rg
        BY <2>1, <2>3 DEF Needs
      <3>2. \A p \in DOMAIN ins : Slope(l, ins[p]) = 0
        BY <3>1, <1>5
      <3>3. TypeOf(n) = "op" /\ g.node[n].role \in {"Add", "Multiply"} => 2 \in DOMAIN ins
        BY <2>1 DEF OpArity
      <3>4. \A p \in DOMAIN ins : val[ins[p]] \in Int
        BY <2>1, <1>4
      <3>5. /\ TypeOf(n) = "output" \/ g.node[n].role = "Nop" => Slope(l, n) = Slope(l, ins[1])
            /\ TypeOf(n) = "op" /\ g.node[n].role = "Add" =>
                  Slope(l, n) = (Slope(l, ins[1]) + Slope(l, ins[2])) % Modulus
            /\ TypeOf(n) = "op" /\ g.node[n].role = "Multiply" =>
                  Slope(l, n) = (Slope(l, ins[1]) * val[ins[2]] + val[ins[1]] * Slope(l, ins[2]))
                                     % Modulus
            /\ TypeOf(n) = "op" /\ g.node[n].role = "Exp" =>
                  Slope(l, n) = (Slope(l, ins[1]) * val[n]) % Modulus
        <4>1. Sloped(l, val, n, g.node[n])
          BY <2>3, <1>20, SlopeIs
        <4> QED
          BY <4>1 DEF Sloped
      <3>6. CASE TypeOf(n) = "output" \/ g.node[n].role = "Nop"
        BY <3>2, <3>5, <3>6, <2>1, <2>3
      <3>7. CASE TypeOf(n) = "op" /\ g.node[n].role = "Add"
        BY <3>2, <3>3, <3>5, <3>7, <2>1, <2>3, Zeros
      <3>8. CASE TypeOf(n) = "op" /\ g.node[n].role = "Multiply"
        <4>1. Slope(l, ins[1]) = 0 /\ Slope(l, ins[2]) = 0 /\ val[ins[1]] \in Int /\ val[ins[2]] \in Int
          BY <3>2, <3>3, <3>4, <3>8, <2>1, <2>3
        <4>2. Slope(l, n) = (0 * val[ins[2]] + val[ins[1]] * 0) % Modulus
          BY <4>1, <3>5, <3>8
        <4> QED
          BY <4>1, <4>2, Zeros
      <3>9. CASE TypeOf(n) = "op" /\ g.node[n].role = "Exp"
        <4>1. Slope(l, ins[1]) = 0 /\ val[n] \in Int
          BY <3>2, <2>1, <2>3, <1>4
        <4>2. Slope(l, n) = (0 * val[n]) % Modulus
          BY <4>1, <3>5, <3>9
        <4> QED
          BY <4>1, <4>2, Zeros
      <3> QED
        BY <3>6, <3>7, <3>8, <3>9, <2>1, <2>3
    <2> QED
      BY <2>2, <2>3
  <1> HIDE DEF good
  <1> DEFINE Good == {j \in Nat : \A n \in F : r[n] < j => good(n)}
  <1>6. 0 \in Good
    BY <1>2 DEF Forwards
  <1>7. ASSUME NEW j \in Nat, j \in Good PROVE j + 1 \in Good
    <2> SUFFICES ASSUME NEW n \in F, r[n] < j + 1 PROVE good(n)
      OBVIOUS
    <2>1. \A p \in DOMAIN g.node[n].ins :
             /\ g.node[n].ins[p] \in F /\ g.node[n].ins[p] \in DOMAIN g.node
             /\ r[g.node[n].ins[p]] < r[n] /\ n \in DOMAIN g.node
      BY ForwardReads, <1>2
    <2>2. \A p \in DOMAIN g.node[n].ins : good(g.node[n].ins[p])
      BY <2>1, <1>2, <1>7
    <2> QED
      BY <2>2, <1>5
  <1>8. k \in Good
    <2> HIDE DEF Good
    <2> QED
      BY <1>6, <1>7, SetInduction
  <1>9. \A n \in F : good(n)
    BY <1>3, <1>8 DEF Forwards
  <1> QED
    BY <1>9 DEF good

-----------------------------------------------------------------------------
\* The way back through one op.

\* A factor's remainder stands for the factor.
LEMMA CongFactor ==
    ASSUME NEW x \in Int, NEW y \in Int
    PROVE  Cong((x % Modulus) * y, x * y) /\ Cong(x * y, (x % Modulus) * y)
  <1>1. x % Modulus \in Int /\ Cong(x % Modulus, x)
    BY CongMod
  <1>2. Cong((x % Modulus) * y, x * y)
    BY <1>1, CongTimes
  <1>3. x * y \in Int
    OBVIOUS
  <1> DEFINE z == x % Modulus
  <1>4. z * y \in Int
    <2>1. z \in Int
      BY <1>1
    <2> HIDE DEF z
    <2> QED
      BY <2>1
  <1> QED
    BY <1>2, <1>3, <1>4, CongIs DEF z

\* The way back through an Add hands on what it is given.
LEMMA AddBack ==
    ASSUME NEW s \in Int, NEW t \in Int, NEW c \in Int
    PROVE  Cong(c * ((s + t) % Modulus), c * s + c * t)
  <1>1. Cong(((s + t) % Modulus) * c, (s + t) * c)
    BY CongFactor
  <1>2. (s + t) % Modulus \in Int
    BY CongMod
  <1> DEFINE z == (s + t) % Modulus
  <1>3. z \in Int /\ Cong(z * c, (s + t) * c)
    BY <1>1, <1>2
  <1> HIDE DEF z
  <1>4. z * c = c * z /\ (s + t) * c = c * s + c * t
    BY <1>3
  <1> QED
    BY <1>3, <1>4 DEF z

\* The way back through an Exp multiplies by its result.
LEMMA ExpBack ==
    ASSUME NEW s \in Int, NEW e \in Int, NEW c \in Int
    PROVE  Cong(c * ((s * e) % Modulus), ((e * c) % Modulus) * s)
  <1>1. s * e \in Int /\ e * c \in Int
    OBVIOUS
  <1>2. Cong(((s * e) % Modulus) * c, (s * e) * c) /\ (s * e) % Modulus \in Int
    BY <1>1, CongFactor, CongMod
  <1>3. Cong((e * c) * s, ((e * c) % Modulus) * s) /\ (e * c) % Modulus \in Int
    BY <1>1, CongFactor, CongMod
  <1> DEFINE z == (s * e) % Modulus
             w == (e * c) % Modulus
  <1>4. z \in Int /\ w \in Int /\ Cong(z * c, (s * e) * c) /\ Cong((e * c) * s, w * s)
    BY <1>2, <1>3
  <1> HIDE DEF z, w
  <1>5. z * c = c * z /\ (s * e) * c = (e * c) * s
    BY <1>4
  <1>6. z * c \in Int /\ (s * e) * c \in Int /\ w * s \in Int
    BY <1>4
  <1>7. Cong(c * z, w * s)
    BY <1>4, <1>5, <1>6, CongIs
  <1> QED
    BY <1>7 DEF z, w

\* The way back through a Multiply multiplies by the other operand.
LEMMA MultiplyBack ==
    ASSUME NEW s \in Int, NEW t \in Int, NEW v \in Int, NEW w \in Int, NEW c \in Int
    PROVE  Cong(c * ((s * w + v * t) % Modulus),
                ((c * w) % Modulus) * s + ((c * v) % Modulus) * t)
  <1>1. s * w + v * t \in Int /\ c * w \in Int /\ c * v \in Int /\ s * w \in Int /\ v * t \in Int
    OBVIOUS
  <1>2. /\ Cong(((s * w + v * t) % Modulus) * c, (s * w + v * t) * c)
        /\ (s * w + v * t) % Modulus \in Int
    BY <1>1, CongFactor, CongMod
  <1>3. Cong((c * w) * s, ((c * w) % Modulus) * s) /\ (c * w) % Modulus \in Int
    BY <1>1, CongFactor, CongMod
  <1>4. Cong((c * v) * t, ((c * v) % Modulus) * t) /\ (c * v) % Modulus \in Int
    BY <1>1, CongFactor, CongMod
  <1> DEFINE z == (s * w + v * t) % Modulus
             a == (c * w) % Modulus
             b == (c * v) % Modulus
  <1>5. /\ z \in Int /\ a \in Int /\ b \in Int
        /\ Cong(z * c, (s * w + v * t) * c) /\ Cong((c * w) * s, a * s) /\ Cong((c * v) * t, b * t)
    BY <1>2, <1>3, <1>4
  <1> HIDE DEF z, a, b
  <1>6. z * c = c * z /\ (s * w + v * t) * c = (c * w) * s + (c * v) * t
    BY <1>5
  <1>7. /\ z * c \in Int /\ (s * w + v * t) * c \in Int /\ a * s \in Int /\ b * t \in Int
        /\ (c * w) * s \in Int /\ (c * v) * t \in Int /\ a * s + b * t \in Int
    BY <1>5
  <1>8. Cong((c * w) * s + (c * v) * t, a * s + b * t)
    BY <1>5, <1>7, CongPlus
  <1>9. Cong(c * z, a * s + b * t)
    BY <1>5, <1>6, <1>7, <1>8, CongIs
  <1> QED
    BY <1>9 DEF z, a, b

\* What the op that carries c back to operand p of n, whose record is nd, computes.
Backed(val, n, nd, p, c) ==
    IF nd.role \in {"Add", "Nop"} THEN c
    ELSE IF nd.role = "Multiply" THEN (c * val[nd.ins[3 - p]]) % Modulus
    ELSE (val[n] * c) % Modulus

\* What an op hands back to its operands, each part times the slope of the operand.
Handed(l, val, n, nd, c) ==
    [p \in DOMAIN nd.ins |-> Backed(val, n, nd, p, c) * Slope(l, nd.ins[p])]

\* It is what the op was given, times its slope.
LEMMA HandsBack ==
    ASSUME IsTraced(model), NEW g, Well(g), Listed(model, g), Follows(model, g), NEW l,
           NEW n \in Forwards(g), TypeOf(n) = "op", NEW val, val = Computed(model, g),
           NEW c \in Int
    PROVE  /\ Handed(l, val, n, g.node[n], c) \in [1..Len(g.node[n].ins) -> Int]
           /\ \A p \in DOMAIN g.node[n].ins : Backed(val, n, g.node[n], p, c) \in Int
           /\ Cong(c * Slope(l, n), Total(Handed(l, val, n, g.node[n], c)))
  <1> DEFINE ins == g.node[n].ins
             role == g.node[n].role
             nd == g.node[n]
             H == Handed(l, val, n, nd, c)
  <1>1. n \notin Leaves
    BY LeavesAre
  <1>2. /\ n \in DOMAIN g.node
        /\ role \in {"Add", "Multiply", "Exp", "Nop"} /\ DOMAIN ins = 1..OpArity[role]
        /\ \A p \in DOMAIN ins : ins[p] \in Forwards(g) /\ ins[p] \in DOMAIN g.node
    BY ForwardReads
  <1>3. Sloped(l, val, n, nd)
    BY <1>1, SlopeIs
  <1>4. /\ \A x \in DOMAIN g.node : val[x] \in Int
        /\ \A x \in Forwards(g) : Slope(l, x) \in Int
    BY ComputedAre, ExactInt, SlopeInt
  <1>5. /\ role \in {"Add", "Multiply"} => DOMAIN ins = 1..2 /\ 1 \in DOMAIN ins /\ 2 \in DOMAIN ins
        /\ role \in {"Exp", "Nop"} => DOMAIN ins = 1..1 /\ 1 \in DOMAIN ins
        /\ DOMAIN ins = 1..Len(ins)
    BY <1>2, ForwardReads DEF OpArity
  <1>6. \A x \in Int : x % Modulus \in Int
    BY CongMod
  <1>7. \A p \in DOMAIN ins : Backed(val, n, nd, p, c) \in Int
    <2> SUFFICES ASSUME NEW p \in DOMAIN ins PROVE Backed(val, n, nd, p, c) \in Int
      OBVIOUS
    <2>1. CASE role \in {"Add", "Nop"}
      BY <2>1 DEF Backed
    <2>2. CASE role = "Multiply"
      <3>1. 3 - p \in DOMAIN ins
        BY <1>5, <2>2
      <3>2. val[ins[3 - p]] \in Int
        BY <1>2, <1>4, <3>1
      <3>3. c * val[ins[3 - p]] \in Int
        BY <3>2
      <3>4. Backed(val, n, nd, p, c) = (c * val[ins[3 - p]]) % Modulus
        BY <2>2 DEF Backed
      <3> QED
        BY <1>6, <3>3, <3>4
    <2>3. CASE role = "Exp"
      <3>1. val[n] * c \in Int
        BY <1>2, <1>4
      <3>2. Backed(val, n, nd, p, c) = (val[n] * c) % Modulus
        BY <2>3 DEF Backed
      <3> QED
        BY <1>6, <3>1, <3>2
    <2> QED
      BY <1>2, <2>1, <2>2, <2>3
  <1>8. \A p \in DOMAIN ins : /\ Slope(l, ins[p]) \in Int
                              /\ H[p] = Backed(val, n, nd, p, c) * Slope(l, ins[p])
                              /\ H[p] \in Int
    <2> SUFFICES ASSUME NEW p \in DOMAIN ins
                 PROVE  /\ Slope(l, ins[p]) \in Int
                        /\ H[p] = Backed(val, n, nd, p, c) * Slope(l, ins[p])
                        /\ H[p] \in Int
      OBVIOUS
    <2>1. H[p] = Backed(val, n, nd, p, c) * Slope(l, ins[p])
      BY DEF Handed
    <2>2. Slope(l, ins[p]) \in Int /\ Backed(val, n, nd, p, c) \in Int
      BY <1>2, <1>4, <1>7
    <2> QED
      BY <2>1, <2>2
  <1>9. DOMAIN H = 1..Len(ins) /\ H = [p \in DOMAIN ins |-> H[p]]
    BY <1>5 DEF Handed
  <1>10. H \in [1..Len(ins) -> Int]
    BY <1>5, <1>8, <1>9
  <1> HIDE DEF H
  <1>11. role \in {"Add", "Multiply"} => Total(H) = H[1] + H[2]
    <2> SUFFICES ASSUME role \in {"Add", "Multiply"} PROVE Total(H) = H[1] + H[2]
      OBVIOUS
    <2>1. H \in [1..2 -> Int]
      BY <1>5, <1>8, <1>9
    <2> QED
      BY <2>1, TotalFew
  <1>12. role \in {"Exp", "Nop"} => Total(H) = H[1]
    <2> SUFFICES ASSUME role \in {"Exp", "Nop"} PROVE Total(H) = H[1]
      OBVIOUS
    <2>1. H \in [1..1 -> Int]
      BY <1>5, <1>8, <1>9
    <2> QED
      BY <2>1, TotalFew
  <1>13. Cong(c * Slope(l, n), Total(H))
    <2>1. CASE role = "Nop"
      <3>1. Slope(l, n) = Slope(l, ins[1]) /\ Backed(val, n, nd, 1, c) = c /\ Slope(l, ins[1]) \in Int
        BY <1>3, <1>5, <1>8, <2>1 DEF Sloped, Backed
      <3>2. Total(H) = c * Slope(l, ins[1])
        BY <1>5, <1>8, <1>12, <2>1, <3>1
      <3>3. c * Slope(l, ins[1]) \in Int
        BY <3>1
      <3> QED
        BY <3>1, <3>2, <3>3, CongIs
    <2>2. CASE role = "Add"
      <3>1. /\ Slope(l, n) = (Slope(l, ins[1]) + Slope(l, ins[2])) % Modulus
            /\ Backed(val, n, nd, 1, c) = c /\ Backed(val, n, nd, 2, c) = c
        BY <1>3, <2>2 DEF Sloped, Backed
      <3>2. Slope(l, ins[1]) \in Int /\ Slope(l, ins[2]) \in Int
        BY <1>5, <1>8, <2>2
      <3>3. Total(H) = c * Slope(l, ins[1]) + c * Slope(l, ins[2])
        BY <1>5, <1>8, <1>11, <2>2, <3>1
      <3> QED
        BY <3>1, <3>2, <3>3, AddBack
    <2>3. CASE role = "Exp"
      <3>1. /\ Slope(l, n) = (Slope(l, ins[1]) * val[n]) % Modulus
            /\ Backed(val, n, nd, 1, c) = (val[n] * c) % Modulus
        BY <1>3, <2>3 DEF Sloped, Backed
      <3>2. Slope(l, ins[1]) \in Int /\ val[n] \in Int
        BY <1>2, <1>4, <1>5, <1>8, <2>3
      <3>3. Total(H) = ((val[n] * c) % Modulus) * Slope(l, ins[1])
        BY <1>5, <1>8, <1>12, <2>3, <3>1
      <3> QED
        BY <3>1, <3>2, <3>3, ExpBack
    <2>4. CASE role = "Multiply"
      <3>1. Slope(l, n) = (Slope(l, ins[1]) * val[ins[2]] + val[ins[1]] * Slope(l, ins[2])) % Modulus
        BY <1>3, <2>4 DEF Sloped
      <3>2. /\ Backed(val, n, nd, 1, c) = (c * val[ins[2]]) % Modulus
            /\ Backed(val, n, nd, 2, c) = (c * val[ins[1]]) % Modulus
        <4>1. 3 - 1 = 2 /\ 3 - 2 = 1
          OBVIOUS
        <4> QED
          BY <2>4, <4>1 DEF Backed
      <3>3. /\ Slope(l, ins[1]) \in Int /\ Slope(l, ins[2]) \in Int
            /\ val[ins[1]] \in Int /\ val[ins[2]] \in Int
        BY <1>2, <1>4, <1>5, <1>8, <2>4
      <3>4. Total(H) = ((c * val[ins[2]]) % Modulus) * Slope(l, ins[1])
                       + ((c * val[ins[1]]) % Modulus) * Slope(l, ins[2])
        BY <1>5, <1>8, <1>11, <2>4, <3>2
      <3> DEFINE s == Slope(l, ins[1])
                 t == Slope(l, ins[2])
                 v == val[ins[1]]
                 w == val[ins[2]]
      <3>5. /\ s \in Int /\ t \in Int /\ v \in Int /\ w \in Int
            /\ Slope(l, n) = (s * w + v * t) % Modulus
            /\ Total(H) = ((c * w) % Modulus) * s + ((c * v) % Modulus) * t
        BY Zenon, <3>1, <3>3, <3>4
      <3> HIDE DEF s, t, v, w
      <3>6. Cong(c * ((s * w + v * t) % Modulus),
                 ((c * w) % Modulus) * s + ((c * v) % Modulus) * t)
        BY <3>5, MultiplyBack
      <3> QED
        BY ONLY <3>5, <3>6
    <2> QED
      BY <1>2, <2>1, <2>2, <2>3, <2>4
  <1> QED
    BY <1>7, <1>10, <1>13 DEF H

\* The ops of the backward pass that carry gradients back to the operands.
LEMMA BackwardOpsAs ==
    \A role, p, ins, n, c :
        /\ role \in {"Add", "Nop"} =>
              BackwardOp(role, p, ins, n, c) = Node("op", "Nop", "bwd", <<c>>)
        /\ role = "Multiply" =>
              BackwardOp(role, p, ins, n, c) = Node("op", "Multiply", "bwd", <<c, ins[3 - p]>>)
        /\ role = "Exp" =>
              BackwardOp(role, p, ins, n, c) = Node("op", "Multiply", "bwd", <<n, c>>)
  BY DEF BackwardOp

\* What ops compute from one element and from two.
LEMMA AppliedIs ==
    /\ \A f, a : Apply("Nop", Mapped(f, <<a>>)) = f[a]
    /\ \A f, a, b : Apply("Multiply", Mapped(f, <<a, b>>)) = (f[a] * f[b]) % Modulus
    /\ \A f, a, b : Apply("Add", Mapped(f, <<a, b>>)) = (f[a] + f[b]) % Modulus
    /\ \A f, a, b : Apply("Subtract", Mapped(f, <<a, b>>)) = (f[a] - f[b]) % Modulus
  <1>1. \A f, a : Mapped(f, <<a>>)[1] = f[a]
    BY DEF Mapped
  <1>2. \A f, a, b : Mapped(f, <<a, b>>)[1] = f[a] /\ Mapped(f, <<a, b>>)[2] = f[b]
    BY DEF Mapped
  <1>3. \A args : /\ Apply("Nop", args) = args[1]
                  /\ Apply("Multiply", args) = (args[1] * args[2]) % Modulus
                  /\ Apply("Add", args) = (args[1] + args[2]) % Modulus
                  /\ Apply("Subtract", args) = (args[1] - args[2]) % Modulus
    BY DEF Apply
  <1> QED
    BY <1>1, <1>2, <1>3

\* An op of the backward pass computes what has to be handed back.
LEMMA BackwardComputed ==
    ASSUME IsTraced(model), NEW h, Well(h), Listed(model, h), NEW n \in Forwards(h),
           TypeOf(n) = "op", NEW p, NEW b \in DOMAIN h.node, b = <<"bw", n, p>>, NEW c,
           h.node[b] = BackwardOp(h.node[n].role, p, h.node[n].ins, n, c),
           NEW val, val = Computed(model, h)
    PROVE  val[b] = Backed(val, n, h.node[n], p, val[c])
  <1> DEFINE nd == h.node[n]
  <1>1. nd.role \in {"Add", "Multiply", "Exp", "Nop"}
    <2>1. n \in DOMAIN h.node /\ EpochOf(n) = "fwd" /\ nd.role \in RolesOf(n)
      BY DEF Forwards, Well, Whole, Fits
    <2>2. n \notin Leaves
      BY LeavesAre
    <2>3. n[1] \in FwdKinds /\ n[1] # "output"
      BY <2>1, <2>2 DEF EpochOf, TypeOf
    <2>4. RolesOf(n) = {"Add", "Multiply", "Exp", "Nop"}
      BY <2>2, <2>3 DEF RolesOf, FwdKinds, Leaves
    <2> QED
      BY <2>1, <2>4
  <1>2. b \notin Leaves /\ TypeOf(b) = "op"
    <2>1. b \notin Leaves /\ OneOf(b, {"bw", "combine", "recompute"})
      BY NotLeaves, KindsDiffer
    <2> QED
      BY <2>1, BackwardOpsAre
  <1>3. val[b] = Apply(h.node[b].role, Mapped(val, h.node[b].ins))
    BY <1>2, ValueAt DEF Value
  <1> HIDE DEF nd
  <1>4. h.node[b] = BackwardOp(nd.role, p, nd.ins, n, c)
    BY DEF nd
  <1>5. CASE nd.role \in {"Add", "Nop"}
    <2>1. h.node[b].role = "Nop" /\ h.node[b].ins = <<c>>
      BY <1>4, <1>5, BackwardOpsAs DEF Node
    <2>2. val[b] = val[c]
      BY <1>3, <2>1, AppliedIs
    <2> QED
      BY <1>5, <2>2 DEF Backed, nd
  <1>6. CASE nd.role = "Multiply"
    <2>1. h.node[b].role = "Multiply" /\ h.node[b].ins = <<c, nd.ins[3 - p]>>
      BY <1>4, <1>6, BackwardOpsAs DEF Node
    <2>2. val[b] = (val[c] * val[nd.ins[3 - p]]) % Modulus
      BY <1>3, <2>1, AppliedIs
    <2> QED
      BY <1>6, <2>2 DEF Backed, nd
  <1>7. CASE nd.role = "Exp"
    <2>1. h.node[b].role = "Multiply" /\ h.node[b].ins = <<n, c>>
      BY <1>4, <1>7, BackwardOpsAs DEF Node
    <2>2. val[b] = (val[n] * val[c]) % Modulus
      BY <1>3, <2>1, AppliedIs
    <2> QED
      BY <1>7, <2>2 DEF Backed, nd
  <1> QED
    BY <1>1, <1>5, <1>6, <1>7

\* The ports of an op's operands that need a gradient.
PortsOf(ins, rg) == Only([i \in DOMAIN ins |-> i], {i \in DOMAIN ins : ins[i] \in rg})

\* What they are, in the order of the backward ops.
LEMMA PortsAre ==
    ASSUME NEW D, NEW ins \in Seq(D), NEW rg
    PROVE  /\ [i \in DOMAIN ins |-> i] \in Seq(DOMAIN ins)
           /\ ToSet([i \in DOMAIN ins |-> i]) = DOMAIN ins
           /\ PortsOf(ins, rg) \in Seq(DOMAIN ins)
           /\ \A j \in DOMAIN PortsOf(ins, rg) : /\ PortsOf(ins, rg)[j] \in DOMAIN ins
                                                 /\ ins[PortsOf(ins, rg)[j]] \in rg
  <1> DEFINE s == [i \in DOMAIN ins |-> i]
             S == {i \in DOMAIN ins : ins[i] \in rg}
             t == PortsOf(ins, rg)
  <1>1. s \in Seq(DOMAIN ins) /\ ToSet(s) = DOMAIN ins
    <2>1. DOMAIN ins = 1..Len(ins) /\ Len(ins) \in Nat
      OBVIOUS
    <2>2. DOMAIN s = DOMAIN ins /\ \A i \in DOMAIN ins : s[i] = i
      OBVIOUS
    <2>3. s \in [1..Len(ins) -> DOMAIN ins]
      BY <2>1
    <2>4. s \in Seq(DOMAIN ins)
      BY ONLY <2>1, <2>3, ListIs
    <2> HIDE DEF s
    <2> QED
      BY <2>2, <2>4 DEF ToSet
  <1>2. t \in Seq(DOMAIN ins) /\ ToSet(t) = ToSet(s) \cap S
    BY <1>1, OnlyMembers DEF PortsOf
  <1>3. \A j \in DOMAIN t : t[j] \in ToSet(t)
    BY <1>2, Entries
  <1>4. \A j \in DOMAIN t : t[j] \in S
    BY <1>2, <1>3
  <1> HIDE DEF s, t
  <1>5. \A j \in DOMAIN t : t[j] \in DOMAIN ins /\ ins[t[j]] \in rg
    BY <1>4
  <1> QED
    BY <1>1, <1>2, <1>5 DEF s, t

\* The backward ops, one for each such port.
LEMMA BackwardOpsList ==
    ASSUME NEW n
    PROVE  BackwardOps(n) =
              [i \in DOMAIN PortsOf(graph.node[n].ins, requires_grad) |->
                  <<"bw", n, PortsOf(graph.node[n].ins, requires_grad)[i]>>]
  BY DEF BackwardOps, PortsOf

\* What is handed on, entry by entry.
HandedParts(l, val, ins, B) == [j \in DOMAIN B |-> val[B[j]] * Slope(l, ins[B[j][3]])]

\* The backward ops of n hand on what n was given, times its slope.
LEMMA HandsOn ==
    ASSUME IsTraced(model), Well(graph), Follows(model, graph), NEW l \in model.trained,
           Needs(model, graph, requires_grad), Listed(model, graph),
           NEW n \in Forwards(graph), TypeOf(n) = "op", NEW c,
           NEW val, val[c] \in Int, NEW old, old = Computed(model, graph),
           \A j \in DOMAIN BackwardOps(n) :
              val[BackwardOps(n)[j]] = Backed(old, n, graph.node[n], BackwardOps(n)[j][3], val[c])
    PROVE  /\ HandedParts(l, val, graph.node[n].ins, BackwardOps(n)) \in Seq(Int)
           /\ Cong(val[c] * Slope(l, n),
                   Total(HandedParts(l, val, graph.node[n].ins, BackwardOps(n))))
  <1> DEFINE ins == graph.node[n].ins
             nd == graph.node[n]
             ports == PortsOf(ins, requires_grad)
             s == [i \in DOMAIN ins |-> i]
             S == {i \in DOMAIN ins : ins[i] \in requires_grad}
             H == Handed(l, old, n, nd, val[c])
             B == BackwardOps(n)
             W == HandedParts(l, val, ins, B)
  <1>1. /\ n \in DOMAIN graph.node /\ ins \in Seq(Forwards(graph)) /\ n \notin Leaves
        /\ \A p \in DOMAIN ins : ins[p] \in Forwards(graph)
    BY ForwardReads, LeavesAre
  <1>2. /\ s \in Seq(DOMAIN ins) /\ ToSet(s) = DOMAIN ins /\ ports \in Seq(DOMAIN ins)
        /\ \A j \in DOMAIN ports : ports[j] \in DOMAIN ins
    BY <1>1, PortsAre
  <1>3. B = [i \in DOMAIN ports |-> <<"bw", n, ports[i]>>]
    BY BackwardOpsList
  <1>4. /\ H \in [1..Len(ins) -> Int]
        /\ \A p \in DOMAIN ins : Backed(old, n, nd, p, val[c]) \in Int
        /\ Cong(val[c] * Slope(l, n), Total(H))
    BY HandsBack
  <1>5. \A p \in DOMAIN ins : H[p] = Backed(old, n, nd, p, val[c]) * Slope(l, ins[p])
    BY DEF Handed
  <1>6. DOMAIN ins = 1..Len(ins)
    BY <1>1
  <1> HIDE DEF B, H, W
  <1>7. DOMAIN B = DOMAIN ports /\ \A j \in DOMAIN ports : B[j][3] = ports[j]
    BY <1>3, KindsDiffer
  <1>8. \A j \in DOMAIN B : val[B[j]] = Backed(old, n, nd, ports[j], val[c])
    BY <1>7 DEF B
  <1>9. W = Mapped(H, ports)
    <2>1. DOMAIN W = DOMAIN ports /\ W = [j \in DOMAIN ports |-> W[j]]
      BY <1>7 DEF W, HandedParts
    <2>2. \A j \in DOMAIN ports : W[j] = val[B[j]] * Slope(l, ins[ports[j]])
      BY <1>7 DEF W, HandedParts
    <2>3. \A j \in DOMAIN ports : W[j] = H[ports[j]]
      BY <1>2, <1>5, <1>7, <1>8, <2>2
    <2> HIDE DEF ports
    <2> QED
      BY <2>1, <2>3 DEF Mapped
  <1>10. \A x \in ToSet(s) : H[x] \in Int
    BY <1>2, <1>4, <1>6
  <1>11. /\ Mapped(H, ports) \in Seq(Int)
         /\ Total(Mapped(H, ports)) = Total(Masked(H, s, S))
    BY <1>2, <1>10, TotalOnly DEF PortsOf
  <1>12. Masked(H, s, S) = H
    <2>1. Masked(H, s, S) = [i \in DOMAIN ins |-> IF i \in S THEN H[i] ELSE 0]
      BY DEF Masked
    <2>2. ASSUME NEW i \in DOMAIN ins, i \notin S PROVE H[i] = 0
      <3>1. Slope(l, ins[i]) = 0
        BY <1>1, <2>2, SlopeZero
      <3>2. H[i] = Backed(old, n, nd, i, val[c]) * 0 /\ Backed(old, n, nd, i, val[c]) \in Int
        BY <1>4, <1>5, <3>1
      <3> QED
        BY <3>2
    <2>3. DOMAIN H = DOMAIN ins /\ H = [i \in DOMAIN ins |-> H[i]]
      BY <1>4, <1>6
    <2>4. \A i \in DOMAIN ins : (IF i \in S THEN H[i] ELSE 0) = H[i]
      BY <2>2
    <2> HIDE DEF S, ins
    <2> QED
      BY <2>1, <2>3, <2>4
  <1>13. W \in Seq(Int) /\ Cong(val[c] * Slope(l, n), Total(W))
    BY <1>4, <1>9, <1>11, <1>12
  <1> QED
    BY <1>13 DEF W, B

-----------------------------------------------------------------------------
\* The chain of Adds that combines the gradients of a node.

\* What a node that is added reads.
LEMMA AddNodesHas ==
    ASSUME NEW g, IsGraph(g), NEW s, NEW rec
    PROVE  \A m \in ToSet(s) : AddNodes(g, s, rec).node[m] = rec[m]
  BY DEF AddNodes, IsGraph

\* The chain of Adds: each takes the sum so far and the next gradient.
LEMMA CombinedAdds ==
    ASSUME IsGraph(graph), NEW n, NEW T, gradients[n] \in Seq(T)
    PROVE  \A i \in 2..Len(gradients[n]) :
              Combined(n).node[<<"combine", n, i>>]
                  = Node("op", "Add", "bwd", <<Sum(n, i - 1), gradients[n][i]>>)
  <1> DEFINE gs == gradients[n]
             L == Len(gs)
             sums == [i \in 1..(L - 1) |-> Sum(n, i + 1)]
             rec == [s \in ToSet(sums) |->
                        Node("op", "Add", "bwd", <<Sum(n, s[3] - 1), gs[s[3]]>>)]
  <1> SUFFICES ASSUME NEW i \in 2..L
               PROVE  Combined(n).node[<<"combine", n, i>>]
                          = Node("op", "Add", "bwd", <<Sum(n, i - 1), gs[i]>>)
    OBVIOUS
  <1>1. L \in Nat /\ i - 1 \in 1..(L - 1) /\ (i - 1) + 1 = i /\ i # 1
    BY Entries
  <1>2. Combined(n) = AddNodes(graph, sums, rec)
    BY DEF Combined
  <1>3. Sum(n, i) = <<"combine", n, i>>
    BY <1>1 DEF Sum
  <1>4. sums[i - 1] = Sum(n, (i - 1) + 1)
    BY <1>1
  <1>5. sums[i - 1] = <<"combine", n, i>> /\ i - 1 \in DOMAIN sums
    BY <1>1, <1>3, <1>4
  <1>6. <<"combine", n, i>> \in ToSet(sums)
    <2> HIDE DEF sums
    <2>1. sums[i - 1] \in ToSet(sums)
      BY <1>5 DEF ToSet
    <2> QED
      BY <1>5, <2>1
  <1>7. <<"combine", n, i>>[3] = i
    OBVIOUS
  <1>8. rec[<<"combine", n, i>>] = Node("op", "Add", "bwd", <<Sum(n, i - 1), gs[i]>>)
    <2> HIDE DEF sums, gs
    <2> QED
      BY <1>6, <1>7
  <1> HIDE DEF sums, rec
  <1> QED
    BY <1>2, <1>6, <1>8, AddNodesHas

\* The last of them has the sum of all gradients.
LEMMA SumsUp ==
    ASSUME NEW n, NEW T, gradients[n] \in Seq(T), gradients[n] # <<>>, NEW val,
           \A i \in DOMAIN gradients[n] : val[gradients[n][i]] \in Int,
           \A i \in 2..Len(gradients[n]) :
              val[<<"combine", n, i>>] = (val[Sum(n, i - 1)] + val[gradients[n][i]]) % Modulus
    PROVE  /\ Mapped(val, gradients[n]) \in Seq(Int)
           /\ val[Sum(n, Len(gradients[n]))] \in Int
           /\ Cong(val[Sum(n, Len(gradients[n]))], Total(Mapped(val, gradients[n])))
  <1> DEFINE gs == gradients[n]
             L == Len(gs)
             v == Mapped(val, gs)
             x(i) == val[Sum(n, i)]
  <1>1. L \in Nat /\ L >= 1 /\ DOMAIN gs = 1..L /\ 1 \in 1..L
    <2>1. L \in Nat /\ DOMAIN gs = 1..L
      BY Entries
    <2>2. L # 0
      BY EmptySeq
    <2> QED
      BY <2>1, <2>2
  <1>2. v \in Seq(Int) /\ Len(v) = L /\ DOMAIN v = 1..L /\ \A i \in 1..L : v[i] = val[gs[i]] /\ v[i] \in Int
    <2>1. DOMAIN v = 1..L /\ v = [i \in 1..L |-> v[i]] /\ \A i \in 1..L : v[i] = val[gs[i]]
      BY <1>1 DEF Mapped
    <2>2. \A i \in 1..L : v[i] \in Int
      BY <1>1, <2>1
    <2> HIDE DEF v
    <2>3. v \in [1..L -> Int]
      BY <2>1, <2>2
    <2> QED
      BY <1>1, <2>1, <2>2, <2>3, ListIs
  <1>3. Sum(n, 1) = gs[1] /\ \A i \in 2..L : Sum(n, i) = <<"combine", n, i>>
    BY <1>1 DEF Sum
  <1>4. \A i \in 2..L : x(i) = (x(i - 1) + val[gs[i]]) % Modulus
    BY <1>3
  <1>5. x(1) = val[gs[1]]
    BY <1>3
  <1>6. \A i \in DOMAIN gs : val[gs[i]] \in Int
    OBVIOUS
  <1> HIDE DEF gs, v, x, L
  <1>7. PICK sum : PartialSums(v, sum)
    BY <1>2, SumsExist
  <1>8. /\ sum \in [0..L -> Int] /\ sum[0] = 0
        /\ \A i \in 1..L : sum[i] = sum[i - 1] + v[i]
    BY <1>2, <1>7 DEF PartialSums, SumsTo
  <1>9. Total(v) = sum[L]
    BY <1>2, <1>7, TotalOf
  <1> DEFINE good == {i \in Nat : i + 1 \in 1..L => x(i + 1) \in Int /\ Cong(x(i + 1), sum[i + 1])}
  <1>10. \A i \in Nat : i \in good
    <2>1. 0 \in good
      <3>1. sum[1] = v[1] /\ v[1] = val[gs[1]] /\ v[1] \in Int
        <4>1. 1 - 1 = 0
          OBVIOUS
        <4>2. sum[1] = sum[0] + v[1] /\ v[1] \in Int
          BY <1>1, <1>2, <1>8, <4>1
        <4> QED
          BY <1>1, <1>2, <1>8, <4>2
      <3>2. x(1) = sum[1] /\ x(1) \in Int /\ Cong(x(1), sum[1])
        BY <1>5, <3>1, CongIs
      <3>3. 0 \in Nat /\ 0 + 1 = 1
        OBVIOUS
      <3> QED
        BY <3>2, <3>3
    <2>2. ASSUME NEW i \in Nat, i \in good PROVE i + 1 \in good
      <3> SUFFICES ASSUME i + 2 \in 1..L PROVE x(i + 2) \in Int /\ Cong(x(i + 2), sum[i + 2])
        <4>1. (i + 1) + 1 = i + 2 /\ i + 1 \in Nat
          OBVIOUS
        <4> QED
          BY <4>1
      <3>1. i + 1 \in 1..L /\ i + 2 \in 2..L /\ (i + 2) - 1 = i + 1 /\ i + 2 \in 1..L /\ i + 1 \in 0..L
        BY <1>1
      <3>2. x(i + 1) \in Int /\ Cong(x(i + 1), sum[i + 1]) /\ sum[i + 1] \in Int
        BY <2>2, <3>1, <1>8
      <3>3. x(i + 2) = (x(i + 1) + val[gs[i + 2]]) % Modulus
        BY <1>4, <3>1
      <3>4. sum[i + 2] = sum[i + 1] + val[gs[i + 2]] /\ val[gs[i + 2]] \in Int
        BY <1>2, <1>8, <3>1
      <3> DEFINE a == x(i + 1)
                 b == val[gs[i + 2]]
                 s == sum[i + 1]
      <3>5. a \in Int /\ b \in Int /\ s \in Int /\ Cong(a, s)
        BY <3>2, <3>4
      <3>6. x(i + 2) = (a + b) % Modulus /\ sum[i + 2] = s + b
        BY <3>3, <3>4
      <3> HIDE DEF a, b, s
      <3>7. Cong(b, b) /\ a + b \in Int /\ s + b \in Int
        BY <3>5, CongIs
      <3>8. Cong(a + b, s + b)
        BY <3>5, <3>7, CongPlus
      <3>9. (a + b) % Modulus \in Int /\ Cong((a + b) % Modulus, a + b)
        BY <3>7, CongMod
      <3> DEFINE y == (a + b) % Modulus
      <3>10. y \in Int /\ Cong(y, a + b) /\ x(i + 2) = y
        BY <3>6, <3>9
      <3> HIDE DEF y
      <3>11. Cong(y, s + b)
        BY <3>7, <3>8, <3>10, CongIs
      <3> QED
        BY <3>6, <3>10, <3>11
    <2> HIDE DEF good
    <2> QED
      BY ONLY <2>1, <2>2, SetInduction
  <1>11. L - 1 \in Nat /\ (L - 1) + 1 = L /\ L \in 1..L
    BY <1>1
  <1>12. x(L) \in Int /\ Cong(x(L), sum[L])
    BY <1>10, <1>11
  <1> QED
    BY <1>2, <1>9, <1>12 DEF x, gs, v, L

-----------------------------------------------------------------------------
\* The turn of a node: what was owed, what is handed back, what is owed now.

\* What the gradients of x add up to; what each node of td still has to hand back, times
\* its slope; and what l has already.
Brought(val, gr, x) == Total(Mapped(val, gr[x]))
Owed(l, val, gr, td) == [i \in DOMAIN td |-> Brought(val, gr, td[i]) * Slope(l, td[i])]
Kept(l, val, gr, td) == IF l \in ToSet(td) THEN 0 ELSE Brought(val, gr, l)

\* Together this is the gradient of l.
Chained(l, g, gr, td) ==
    Cong(Total(Owed(l, Computed(model, g), gr, td)) + Kept(l, Computed(model, g), gr, td),
         Gradient(l))

\* Every trained leaf of the graph gets all of its gradient.
AllChained(g, gr, td) == \A l \in model.trained \cap DOMAIN g.node : Chained(l, g, gr, td)

\* Sums of elements.
LEMMA MappedIs ==
    ASSUME NEW D, NEW s \in Seq(D), NEW val, \A x \in D : val[x] \in Int
    PROVE  /\ Mapped(val, s) \in Seq(Int) /\ Total(Mapped(val, s)) \in Int
           /\ s = <<>> => Total(Mapped(val, s)) = 0
           /\ \A new : (\A x \in D : new[x] = val[x]) => Mapped(new, s) = Mapped(val, s)
  <1>1. DOMAIN s = 1..Len(s) /\ Len(s) \in Nat /\ \A i \in 1..Len(s) : s[i] \in D
    BY Entries
  <1> DEFINE v == Mapped(val, s)
  <1>2. DOMAIN v = 1..Len(s) /\ v = [i \in 1..Len(s) |-> v[i]] /\ \A i \in 1..Len(s) : v[i] = val[s[i]]
    BY <1>1 DEF Mapped
  <1>3. \A i \in 1..Len(s) : v[i] \in Int
    BY <1>1, <1>2
  <1>4. s = <<>> => v = <<>>
    BY DEF Mapped
  <1> HIDE DEF v
  <1>5. v \in [1..Len(s) -> Int]
    BY <1>2, <1>3
  <1>6. v \in Seq(Int)
    BY <1>1, <1>5, ListIs
  <1>7. Total(v) \in Int /\ (s = <<>> => Total(v) = 0)
    BY <1>4, <1>6, TotalIs
  <1>8. ASSUME NEW new, \A x \in D : new[x] = val[x] PROVE Mapped(new, s) = Mapped(val, s)
    <2>1. \A i \in DOMAIN s : new[s[i]] = val[s[i]]
      BY <1>1, <1>8
    <2> QED
      BY <2>1 DEF Mapped
  <1> QED
    BY <1>6, <1>7, <1>8 DEF v

\* val has an integer for each node.
IntsOn(g, val) == \A x \in DOMAIN g.node : val[x] \in Int

\* Gradients of forward nodes that are in the graph.
Holds(g, gr, td) ==
    /\ DOMAIN gr = Forwards(g) /\ \A x \in Forwards(g) : gr[x] \in Seq(DOMAIN g.node)
    /\ td \in Seq(Forwards(g))

\* What is owed is an integer each.
LEMMA OwedIs ==
    ASSUME IsTraced(model), NEW g, Well(g), Listed(model, g), Follows(model, g),
           NEW gr, NEW td, Holds(g, gr, td), NEW val, IntsOn(g, val),
           NEW l
    PROVE  /\ Owed(l, val, gr, td) \in [1..Len(td) -> Int] /\ Owed(l, val, gr, td) \in Seq(Int)
           /\ Total(Owed(l, val, gr, td)) \in Int
           /\ \A x \in Forwards(g) : Brought(val, gr, x) \in Int /\ Slope(l, x) \in Int
           /\ \A i \in 1..Len(td) : /\ td[i] \in Forwards(g)
                                    /\ Owed(l, val, gr, td)[i] = Brought(val, gr, td[i]) * Slope(l, td[i])
  <1>1. DOMAIN td = 1..Len(td) /\ Len(td) \in Nat /\ \A i \in 1..Len(td) : td[i] \in Forwards(g)
    BY Entries DEF Holds
  <1>2. \A x \in Forwards(g) : Brought(val, gr, x) \in Int /\ Slope(l, x) \in Int
    <2> SUFFICES ASSUME NEW x \in Forwards(g) PROVE Brought(val, gr, x) \in Int /\ Slope(l, x) \in Int
      OBVIOUS
    <2>1. gr[x] \in Seq(DOMAIN g.node)
      BY DEF Holds
    <2>2. Brought(val, gr, x) \in Int
      BY <2>1, MappedIs DEF Brought, IntsOn
    <2> QED
      BY <2>2, SlopeInt
  <1> DEFINE w == Owed(l, val, gr, td)
  <1>3. /\ DOMAIN w = 1..Len(td) /\ w = [i \in 1..Len(td) |-> w[i]]
        /\ \A i \in 1..Len(td) : w[i] = Brought(val, gr, td[i]) * Slope(l, td[i])
    BY <1>1 DEF Owed
  <1> HIDE DEF w
  <1>4. \A i \in 1..Len(td) : w[i] \in Int
    <2> SUFFICES ASSUME NEW i \in 1..Len(td) PROVE w[i] \in Int
      OBVIOUS
    <2>1. Brought(val, gr, td[i]) \in Int /\ Slope(l, td[i]) \in Int
      BY <1>1, <1>2
    <2> QED
      BY <1>3, <2>1
  <1>5. w \in [1..Len(td) -> Int]
    BY <1>3, <1>4
  <1>6. w \in Seq(Int)
    BY <1>1, <1>5, ListIs
  <1>7. Total(w) \in Int
    BY <1>6, TotalIs
  <1> QED
    BY <1>1, <1>2, <1>3, <1>5, <1>6, <1>7 DEF w

\* What the first owes and what the rest owe.
OwesFirst(l, val, gr, td) ==
    Total(Owed(l, val, gr, td))
        = Brought(val, gr, Head(td)) * Slope(l, Head(td)) + Total(Owed(l, val, gr, Tail(td)))

\* They are all that is owed.
LEMMA OwedRest ==
    ASSUME IsTraced(model), NEW g, Well(g), Listed(model, g), Follows(model, g),
           NEW gr, NEW td, Holds(g, gr, td), td # <<>>,
           NEW val, IntsOn(g, val), NEW l
    PROVE  /\ OwesFirst(l, val, gr, td)
           /\ Holds(g, gr, Tail(td)) /\ Head(td) \in Forwards(g)
  <1>1. /\ td \in Seq(Forwards(g)) /\ Head(td) \in Forwards(g) /\ Tail(td) \in Seq(Forwards(g))
        /\ DOMAIN Tail(td) = 1..(Len(td) - 1) /\ Len(td) \in Nat \ {0} /\ Head(td) = td[1]
        /\ \A i \in 1..(Len(td) - 1) : Tail(td)[i] = td[i + 1]
    BY Rest DEF Holds
  <1>2. Holds(g, gr, Tail(td))
    BY <1>1 DEF Holds
  <1> DEFINE w == Owed(l, val, gr, td)
             u == Owed(l, val, gr, Tail(td))
  <1>3. /\ w \in Seq(Int) /\ w \in [1..Len(td) -> Int]
        /\ \A i \in 1..Len(td) : w[i] = Brought(val, gr, td[i]) * Slope(l, td[i])
    BY OwedIs
  <1>4. u = [i \in 1..(Len(td) - 1) |-> Brought(val, gr, Tail(td)[i]) * Slope(l, Tail(td)[i])]
    BY <1>1 DEF Owed
  <1> HIDE DEF w, u
  <1>5. \A i \in 1..(Len(td) - 1) : i + 1 \in 1..Len(td)
    BY <1>1
  <1>6. u = [i \in 1..(Len(td) - 1) |-> w[i + 1]]
    BY <1>1, <1>3, <1>4, <1>5
  <1>7. Len(w) = Len(td) /\ w # <<>> /\ 1 \in 1..Len(td)
    <2>1. DOMAIN w = 1..Len(td) /\ Len(td) \in Nat /\ Len(td) # 0
      BY <1>1, <1>3
    <2>2. Len(w) = Len(td)
      BY <1>1, <1>3, ListIs
    <2> QED
      BY <2>1, <2>2, <1>3, EmptySeq
  <1>8. Tail(w) = u /\ Head(w) = w[1]
    <2>1. /\ Head(w) = w[1] /\ Tail(w) \in Seq(Int) /\ DOMAIN Tail(w) = 1..(Len(w) - 1)
          /\ \A i \in 1..(Len(w) - 1) : Tail(w)[i] = w[i + 1]
      BY <1>3, <1>7, Rest
    <2> DEFINE t == Tail(w)
    <2>3. t \in Seq(Int) /\ DOMAIN t = 1..(Len(w) - 1)
      BY <2>1
    <2> HIDE DEF t
    <2>4. t = [i \in DOMAIN t |-> t[i]]
      BY <2>3
    <2>2. Tail(w) = [i \in 1..(Len(w) - 1) |-> Tail(w)[i]]
      BY <2>3, <2>4 DEF t
    <2> QED
      BY <2>1, <2>2, <1>6, <1>7
  <1>9. Total(w) = Head(w) + Total(Tail(w))
    BY <1>3, <1>7, TotalRest
  <1>10. Total(w) = Brought(val, gr, Head(td)) * Slope(l, Head(td)) + Total(u)
    BY <1>1, <1>3, <1>7, <1>8, <1>9
  <1> QED
    BY <1>1, <1>2, <1>10 DEF w, u, OwesFirst

\* The elements of a graph are integers.
LEMMA ComputedInt ==
    ASSUME NEW m, IsTraced(m), NEW g, Well(g), Listed(m, g)
    PROVE  IntsOn(g, Computed(m, g))
  <1>1. \A r : r \in Residues => r \in Int
    BY TensorAssumption DEF Residues
  <1> QED
    BY <1>1, ComputedAre DEF IntsOn

\* While the graph is being differentiated.
LEMMA HoldsDuring ==
    ASSUME NEW m, NEW g, NEW td, NEW rg, NEW gr, IsDifferentiating(m, g, td, rg, gr)
    PROVE  Holds(g, gr, td) /\ Needs(m, g, rg) /\ Distinct(td)
  BY DEF IsDifferentiating, Holds, Gathered, Forwards

\* A node without gradients owes nothing.
LEMMA ChainSkips ==
    ASSUME IsTraced(model), Well(graph), Listed(model, graph), Follows(model, graph),
           IsDifferentiating(model, graph, todo, requires_grad, gradients),
           todo # <<>>, gradients[Head(todo)] = <<>>, NEW l, Chained(l, graph, gradients, todo)
    PROVE  Chained(l, graph, gradients, Tail(todo))
  <1> DEFINE val == Computed(model, graph)
             n == Head(todo)
  <1>1. Holds(graph, gradients, todo) /\ IntsOn(graph, val)
    BY HoldsDuring, ComputedInt
  <1>2. Cong(Total(Owed(l, val, gradients, todo)) + Kept(l, val, gradients, todo), Gradient(l))
    BY DEF Chained
  <1> HIDE DEF val
  <1>30. /\ OwesFirst(l, val, gradients, todo)
         /\ Holds(graph, gradients, Tail(todo)) /\ n \in Forwards(graph)
    BY ONLY <1>1, IsTraced(model), Well(graph), Listed(model, graph), Follows(model, graph),
            todo # <<>>, OwedRest
  <1>3. /\ Total(Owed(l, val, gradients, todo))
               = Brought(val, gradients, n) * Slope(l, n) + Total(Owed(l, val, gradients, Tail(todo)))
        /\ Holds(graph, gradients, Tail(todo)) /\ n \in Forwards(graph)
    BY <1>30 DEF OwesFirst
  <1>4. Total(Owed(l, val, gradients, Tail(todo))) \in Int /\ Slope(l, n) \in Int
    BY <1>1, <1>3, OwedIs
  <1>5. Brought(val, gradients, n) = 0
    <2>1. gradients[n] \in Seq(DOMAIN graph.node)
      BY <1>1, <1>3 DEF Holds
    <2> QED
      BY <1>1, <2>1, MappedIs DEF Brought, IntsOn
  <1>6. ToSet(todo) = {n} \cup ToSet(Tail(todo))
    BY TurnOf
  <1>7. Kept(l, val, gradients, Tail(todo)) = Kept(l, val, gradients, todo)
    BY <1>5, <1>6 DEF Kept
  <1>8. Total(Owed(l, val, gradients, todo)) = Total(Owed(l, val, gradients, Tail(todo)))
    BY <1>3, <1>4, <1>5
  <1> QED
    BY <1>2, <1>7, <1>8 DEF Chained, val

\* What the Adds of n compute in a graph that has them.
LEMMA AddsCompute ==
    ASSUME IsTraced(model), NEW h, Well(h), Listed(model, h), NEW b \in DOMAIN h.node,
           NEW n, NEW i, b = <<"combine", n, i>>, NEW x, NEW y,
           h.node[b] = Node("op", "Add", "bwd", <<x, y>>)
    PROVE  Computed(model, h)[b] = (Computed(model, h)[x] + Computed(model, h)[y]) % Modulus
  <1> DEFINE val == Computed(model, h)
  <1>1. b \notin Leaves /\ OneOf(b, {"bw", "combine", "recompute"})
    BY NotLeaves, KindsDiffer
  <1>2. TypeOf(b) = "op"
    BY <1>1, BackwardOpsAre
  <1>3. h.node[b].role = "Add" /\ h.node[b].ins = <<x, y>>
    BY DEF Node
  <1>4. val[b] = Apply("Add", Mapped(val, <<x, y>>))
    BY <1>2, <1>3, ValueAt DEF Value
  <1> HIDE DEF val
  <1>5. val[b] = (val[x] + val[y]) % Modulus
    BY <1>4, AppliedIs
  <1> QED
    BY <1>5 DEF val

\* A graph that grew computes what the smaller one did.
LEMMA StillComputed ==
    ASSUME NEW m, IsTraced(m), NEW g, Well(g), Listed(m, g), NEW h, Well(h), Listed(m, h),
           NEW S, GrowsBy(g, h, S)
    PROVE  /\ \A x \in DOMAIN g.node : x \in DOMAIN h.node /\ h.node[x] = g.node[x]
           /\ \A x \in DOMAIN g.node : Computed(m, h)[x] = Computed(m, g)[x]
  <1>1. DOMAIN g.node \subseteq DOMAIN h.node /\ \A n \in DOMAIN g.node : h.node[n] = g.node[n]
    BY DEF GrowsBy
  <1> QED
    BY <1>1, ComputedGrows

\* c has in h what the gradients of n, as they are in graph, add up to.
AddsUp(n, h, c) ==
    /\ c \in DOMAIN h.node /\ Computed(model, h)[c] \in Int
    /\ Cong(Computed(model, h)[c], Brought(Computed(model, graph), gradients, n))
    /\ \A x \in DOMAIN graph.node : /\ x \in DOMAIN h.node /\ h.node[x] = graph.node[x]
                                    /\ Computed(model, h)[x] = Computed(model, graph)[x]

\* The last Add of n does.
LEMMA GathersUp ==
    ASSUME IsTraced(model), Well(graph), Listed(model, graph),
           IsDifferentiating(model, graph, todo, requires_grad, gradients),
           NEW n \in ToSet(todo), gradients[n] # <<>>,
           NEW h, Well(h), Listed(model, h), NEW S, GrowsBy(Combined(n), h, S)
    PROVE  AddsUp(n, h, Sum(n, Len(gradients[n])))
  <1> DEFINE val == Computed(model, h)
             old == Computed(model, graph)
             D == DOMAIN graph.node
             gs == gradients[n]
             c == Sum(n, Len(gs))
             C == {<<"combine", n, i>> : i \in 2..Len(gs)}
             k == Combined(n)
  <1>1. GrowsBy(graph, k, C) /\ c \in DOMAIN k.node
    BY CombinedIs
  <1>2. c \in DOMAIN h.node /\ \A x \in DOMAIN k.node : x \in DOMAIN h.node /\ h.node[x] = k.node[x]
    BY <1>1 DEF GrowsBy
  <1>3. GrowsBy(graph, h, C \cup S)
    BY <1>1, GrowsTwice
  <1>4. /\ \A x \in D : x \in DOMAIN h.node /\ h.node[x] = graph.node[x]
        /\ \A x \in D : val[x] = old[x]
    BY <1>3, StillComputed
  <1>5. gs \in Seq(D) /\ IsGraph(graph)
    <2>1. n \in Forwards(graph) /\ Holds(graph, gradients, todo)
      BY HoldsDuring, Entries DEF Holds
    <2> QED
      BY <2>1 DEF Holds, Well
  <1>6. \A x \in DOMAIN h.node : val[x] \in Int
    BY ComputedInt DEF IntsOn
  <1>7. \A i \in DOMAIN gs : gs[i] \in D
    BY <1>5
  <1>8. ASSUME NEW i \in 2..Len(gs)
        PROVE  val[<<"combine", n, i>>] = (val[Sum(n, i - 1)] + val[gs[i]]) % Modulus
    <2>1. <<"combine", n, i>> \in C
      OBVIOUS
    <2>2. <<"combine", n, i>> \in DOMAIN k.node
      BY <1>1, <2>1 DEF GrowsBy
    <2>3. k.node[<<"combine", n, i>>] = Node("op", "Add", "bwd", <<Sum(n, i - 1), gs[i]>>)
      BY <1>5, CombinedAdds
    <2>4. <<"combine", n, i>> \in DOMAIN h.node
          /\ h.node[<<"combine", n, i>>] = Node("op", "Add", "bwd", <<Sum(n, i - 1), gs[i]>>)
      BY <1>2, <2>2, <2>3
    <2> DEFINE b == <<"combine", n, i>>
               x == Sum(n, i - 1)
               y == gs[i]
    <2>5. b \in DOMAIN h.node /\ h.node[b] = Node("op", "Add", "bwd", <<x, y>>) /\ b = <<"combine", n, i>>
      BY <2>4
    <2> HIDE DEF b, x, y
    <2>6. val[b] = (val[x] + val[y]) % Modulus
      BY <2>5, AddsCompute
    <2> QED
      BY <2>6 DEF b, x, y
  <1> HIDE DEF val
  <1>9. \A i \in DOMAIN gs : val[gs[i]] \in Int
    BY <1>4, <1>6, <1>7
  <1>10. /\ val[Sum(n, Len(gradients[n]))] \in Int
         /\ Cong(val[Sum(n, Len(gradients[n]))], Total(Mapped(val, gradients[n])))
    BY <1>5, <1>8, <1>9, SumsUp
  <1>11. Mapped(val, gs) = Mapped(old, gs)
    <2>1. IntsOn(graph, old)
      BY ComputedInt
    <2> HIDE DEF old
    <2> QED
      BY <1>4, <1>5, <2>1, MappedIs DEF IntsOn
  <1> QED
    BY <1>2, <1>4, <1>10, <1>11 DEF AddsUp, Brought, val

\* Two functions that agree on a graph's nodes.
SameOn(g, val, new) == \A x \in DOMAIN g.node : new[x] = val[x]

\* What does not change is brought and owed as before.
LEMMA BroughtSame ==
    ASSUME NEW g, NEW gr, NEW td, Holds(g, gr, td), NEW val, IntsOn(g, val),
           NEW new, SameOn(g, val, new), NEW gr2, NEW x \in Forwards(g), gr2[x] = gr[x]
    PROVE  Brought(new, gr2, x) = Brought(val, gr, x)
  <1>1. gr[x] \in Seq(DOMAIN g.node)
    BY DEF Holds
  <1>2. Mapped(new, gr[x]) = Mapped(val, gr[x])
    BY <1>1, MappedIs DEF IntsOn, SameOn
  <1> QED
    BY <1>2 DEF Brought

\* The same gradients at the nodes of S.
LikeOn(S, gr, gr2) == \A x \in S : gr2[x] = gr[x]

\* What does not change is owed as before.
LEMMA OwedSame ==
    ASSUME NEW g, NEW gr, NEW td, Holds(g, gr, td), NEW val, IntsOn(g, val),
           NEW new, SameOn(g, val, new), NEW gr2, LikeOn(ToSet(td), gr, gr2), NEW l
    PROVE  Owed(l, new, gr2, td) = Owed(l, val, gr, td)
  <1>1. \A i \in DOMAIN td : td[i] \in ToSet(td) /\ td[i] \in Forwards(g)
    BY Entries DEF Holds
  <1>2. \A i \in DOMAIN td : Brought(new, gr2, td[i]) = Brought(val, gr, td[i])
    BY <1>1, BroughtSame DEF LikeOn
  <1> QED
    BY <1>2 DEF Owed

\* What nodes are handed, when n has only s.
OneGradient(gr, n, s) == [gr EXCEPT ![n] = <<s>>]

\* The gradient of a trained leaf leaves the graph.
LEMMA ChainSinks ==
    ASSUME IsTraced(model), Well(graph), Listed(model, graph), Follows(model, graph),
           IsDifferentiating(model, graph, todo, requires_grad, gradients),
           todo # <<>>, NEW n, n = Head(todo), n \in model.trained, gradients[n] # <<>>,
           NEW h, h = AddNode(Combined(n), Sink(n),
                              IF n \in Weights
                              THEN Node("queue", "grad_accumulator", "bwd",
                                        <<Sum(n, Len(gradients[n]))>>)
                              ELSE Node("output", "external", "bwd",
                                        <<Sum(n, Len(gradients[n]))>>)),
           NEW gr, gr = OneGradient(gradients, n, Sink(n)),
           NEW l \in model.trained, l \in DOMAIN graph.node, Chained(l, graph, gradients, todo)
    PROVE  Chained(l, h, gr, Tail(todo))
  <1> DEFINE old == Computed(model, graph)
             val == Computed(model, h)
             c == Sum(n, Len(gradients[n]))
             s == Sink(n)
  <1>1. /\ Well(h) /\ Listed(model, h)
        /\ GrowsBy(Combined(n), h, {s}) /\ h.node[s].ins = <<c>>
    BY LeafKeeps
  <1>2. /\ n \in ToSet(todo) /\ n \in DOMAIN gradients /\ n \notin ToSet(Tail(todo))
        /\ ToSet(todo) = {n} \cup ToSet(Tail(todo))
    BY TurnOf
  <1>3. AddsUp(n, h, c)
    BY <1>1, <1>2, GathersUp
  <1>4. /\ Holds(graph, gradients, todo) /\ IntsOn(graph, old) /\ SameOn(graph, old, val)
    BY <1>3, HoldsDuring, ComputedInt DEF AddsUp, SameOn
  <1>5. n \in Leaves /\ l \in Leaves /\ l \in Forwards(graph) /\ s \in DOMAIN h.node
    <2>1. n \in Leaves /\ l \in Leaves
      BY DEF IsTraced
    <2>2. l \in Forwards(graph)
      BY <2>1, LeavesAre DEF Forwards
    <2> QED
      BY <1>1, <2>1, <2>2 DEF GrowsBy
  <1>6. val[s] = val[c]
    <2>1. OneOf(s, SinkKinds)
      BY <1>5, NotLeaves DEF OneOf, Sink, SinkKinds
    <2>2. TypeOf(s) \in {"queue", "output"}
      BY <1>5, NamesAre DEF Sink
    <2>3. val[s] = val[h.node[s].ins[1]]
      <3> HIDE DEF old, c, s
      <3> QED
        BY <1>1, <1>5, <2>2, HandsThrough
    <2>4. h.node[s].ins = <<c>> /\ <<c>>[1] = c
      BY <1>1
    <2> HIDE DEF val, s, c
    <2> QED
      BY Zenon, <2>3, <2>4
  <1>7. gr[n] = <<s>> /\ \A x \in DOMAIN gradients : x # n => gr[x] = gradients[x]
    BY <1>2 DEF OneGradient
  <1>8. val[c] \in Int /\ Cong(val[c], Brought(old, gradients, n))
    BY <1>3 DEF AddsUp
  <1>9. Cong(Total(Owed(l, old, gradients, todo)) + Kept(l, old, gradients, todo), Gradient(l))
    BY DEF Chained
  <1>10. /\ OwesFirst(l, old, gradients, todo)
         /\ Holds(graph, gradients, Tail(todo)) /\ n \in Forwards(graph)
    BY <1>4, OwedRest
  <1>11. DOMAIN gradients = Forwards(graph)
    BY <1>4 DEF Holds
  <1> HIDE DEF old, val, c
  <1>12. /\ Total(Owed(l, old, gradients, todo))
               = Brought(old, gradients, n) * Slope(l, n) + Total(Owed(l, old, gradients, Tail(todo)))
    BY <1>10 DEF OwesFirst
  <1>13. Owed(l, val, gr, Tail(todo)) = Owed(l, old, gradients, Tail(todo))
    <2>1. \A x \in ToSet(Tail(todo)) : gr[x] = gradients[x]
      <3>1. \A x \in ToSet(Tail(todo)) : x \in Forwards(graph)
        BY <1>10, Entries DEF Holds
      <3> QED
        BY <1>2, <1>7, <1>11, <3>1
    <2>2. LikeOn(ToSet(Tail(todo)), gradients, gr)
      BY <2>1 DEF LikeOn
    <2> QED
      BY <1>4, <1>10, <2>2, OwedSame
  <1> DEFINE T == Total(Owed(l, old, gradients, Tail(todo)))
             A == Brought(old, gradients, n)
  <1>14. T \in Int /\ A \in Int /\ \A x \in Forwards(graph) : Brought(old, gradients, x) \in Int
    BY <1>4, <1>10, OwedIs
  <1>15. Slope(l, n) = IF n = l THEN 1 ELSE 0
    BY <1>5, LeafSlope
  <1>16. Gradient(l) \in Int
    BY GradientIs, ExactInt
  <1> HIDE DEF T, A, s
  <1>17. CASE n = l
    <2>1. Kept(l, old, gradients, todo) = 0
      BY <1>2, <1>17 DEF Kept
    <2>2. Kept(l, val, gr, Tail(todo)) = val[c]
      <3>1. Brought(val, gr, l) = Total(Mapped(val, <<s>>))
        BY <1>7, <1>17 DEF Brought
      <3>2. Mapped(val, <<s>>) = <<val[s]>>
        BY DEF Mapped
      <3>3. <<val[s]>> \in [1..1 -> Int] /\ <<val[s]>>[1] = val[c]
        BY <1>6, <1>8
      <3>4. Total(<<val[s]>>) = val[c]
        BY <3>3, TotalFew
      <3> QED
        BY <1>2, <1>17, <3>1, <3>2, <3>4 DEF Kept
    <2>3. Cong(A + T, Gradient(l))
      <3>1. Total(Owed(l, old, gradients, todo)) = A * 1 + T
        BY <1>12, <1>15, <1>17 DEF A, T
      <3>2. A * 1 + T = A + T /\ A + T + 0 = A + T /\ A + T \in Int
        BY <1>14
      <3> QED
        BY <1>9, <2>1, <3>1, <3>2
    <2>4. Cong(val[c], A)
      BY <1>8 DEF A
    <2>5. Cong(T + val[c], T + A)
      BY <1>8, <1>14, <2>4, CongIs, CongPlus
    <2>6. T + val[c] \in Int /\ T + A \in Int /\ T + A = A + T
      BY <1>8, <1>14
    <2>7. Cong(T + val[c], Gradient(l))
      BY <1>16, <2>3, <2>5, <2>6, CongIs
    <2>8. Total(Owed(l, val, gr, Tail(todo))) = T
      BY <1>13 DEF T
    <2> QED
      BY <2>2, <2>7, <2>8 DEF Chained, val
  <1>18. CASE n # l
    <2>1. Kept(l, val, gr, Tail(todo)) = Kept(l, old, gradients, todo)
      <3>1. gr[l] = gradients[l]
        BY <1>5, <1>7, <1>11, <1>18
      <3>2. Brought(val, gr, l) = Brought(old, gradients, l)
        BY ONLY <1>4, <1>5, <3>1, BroughtSame
      <3> QED
        BY <1>2, <1>18, <3>2 DEF Kept
    <2>2. Total(Owed(l, old, gradients, todo)) = T
      <3>1. Total(Owed(l, old, gradients, todo)) = A * 0 + T
        BY <1>12, <1>15, <1>18 DEF A, T
      <3>2. A * 0 + T = T
        BY <1>14
      <3> QED
        BY <3>1, <3>2
    <2>3. Total(Owed(l, val, gr, Tail(todo))) = T
      BY <1>13 DEF T
    <2> QED
      BY <1>9, <2>1, <2>2, <2>3 DEF Chained, val
  <1> QED
    BY <1>17, <1>18

\* More gradients add up to more.
LEMMA BroughtMore ==
    ASSUME NEW D, NEW s \in Seq(D), NEW B \in Seq(D), NEW S, NEW val, \A x \in D : val[x] \in Int
    PROVE  /\ Masked(val, B, S) \in Seq(Int)
           /\ Total(Mapped(val, s \o Only(B, S))) = Total(Mapped(val, s)) + Total(Masked(val, B, S))
           /\ Total(Mapped(val, s)) \in Int /\ Total(Masked(val, B, S)) \in Int
  <1> DEFINE t == Only(B, S)
             a == Mapped(val, s)
             b == Mapped(val, t)
             w == Mapped(val, s \o t)
  <1>1. t \in Seq(D)
    BY OnlyMembers
  <1>2. a \in Seq(Int) /\ b \in Seq(Int) /\ Total(a) \in Int
    <2> HIDE DEF t
    <2> QED
      BY <1>1, MappedIs
  <1>3. \A x \in ToSet(B) : val[x] \in Int
    BY Entries
  <1>4. Masked(val, B, S) \in Seq(Int) /\ Total(b) = Total(Masked(val, B, S))
    BY <1>3, TotalOnly
  <1>5. w = a \o b
    <2> HIDE DEF t
    <2>1. /\ s \o t \in Seq(D) /\ DOMAIN s = 1..Len(s) /\ DOMAIN t = 1..Len(t)
          /\ Len(s) \in Nat /\ Len(t) \in Nat
          /\ Len(s \o t) = Len(s) + Len(t) /\ DOMAIN (s \o t) = 1..(Len(s) + Len(t))
          /\ \A i \in 1..(Len(s) + Len(t)) :
                (s \o t)[i] = IF i <= Len(s) THEN s[i] ELSE t[i - Len(s)]
      BY <1>1
    <2>2. DOMAIN a = 1..Len(s) /\ DOMAIN b = 1..Len(t) /\ Len(a) = Len(s) /\ Len(b) = Len(t)
      BY <1>2, <2>1 DEF Mapped
    <2>3. /\ \A i \in 1..Len(s) : a[i] = val[s[i]]
          /\ \A i \in 1..Len(t) : b[i] = val[t[i]]
      BY <2>1 DEF Mapped
    <2> DEFINE j == s \o t
    <2>4. /\ DOMAIN w = 1..(Len(s) + Len(t)) /\ w = [i \in 1..(Len(s) + Len(t)) |-> w[i]]
          /\ \A i \in 1..(Len(s) + Len(t)) : w[i] = val[j[i]]
      BY <2>1 DEF Mapped
    <2> HIDE DEF a, b, w
    <2>5. /\ a \o b = [i \in 1..(Len(s) + Len(t)) |-> (a \o b)[i]]
          /\ \A i \in 1..(Len(s) + Len(t)) :
                (a \o b)[i] = IF i <= Len(s) THEN a[i] ELSE b[i - Len(s)]
      <3> DEFINE jj == a \o b
      <3>1. /\ jj \in Seq(Int) /\ Len(jj) = Len(a) + Len(b) /\ DOMAIN jj = 1..(Len(a) + Len(b))
            /\ \A i \in 1..(Len(a) + Len(b)) : jj[i] = IF i <= Len(a) THEN a[i] ELSE b[i - Len(a)]
        BY ONLY <1>2, b \in Seq(Int)
      <3> HIDE DEF jj
      <3>2. jj = [i \in DOMAIN jj |-> jj[i]]
        BY <3>1
      <3>3. /\ jj = [i \in 1..(Len(s) + Len(t)) |-> jj[i]]
            /\ \A i \in 1..(Len(s) + Len(t)) : jj[i] = IF i <= Len(s) THEN a[i] ELSE b[i - Len(s)]
        BY <2>2, <3>1, <3>2
      <3> QED
        BY <3>3 DEF jj
    <2>6. \A i \in 1..(Len(s) + Len(t)) : w[i] = (a \o b)[i]
      <3> SUFFICES ASSUME NEW i \in 1..(Len(s) + Len(t)) PROVE w[i] = (a \o b)[i]
        OBVIOUS
      <3>1. CASE i <= Len(s)
        <4>1. i \in 1..Len(s)
          BY <2>1, <3>1
        <4> QED
          BY <2>1, <2>3, <2>4, <2>5, <3>1, <4>1
      <3>2. CASE ~(i <= Len(s))
        <4>1. i - Len(s) \in 1..Len(t)
          BY <2>1, <3>2
        <4> QED
          BY <2>1, <2>3, <2>4, <2>5, <3>2, <4>1
      <3> QED
        BY <3>1, <3>2
    <2> QED
      BY <2>4, <2>5, <2>6
  <1>6. Total(w) = Total(a) + Total(b)
    <2> HIDE DEF a, b, w
    <2> QED
      BY <1>2, <1>5, TotalJoin
  <1>7. Total(Masked(val, B, S)) \in Int
    BY <1>4, TotalIs
  <1> QED
    BY <1>2, <1>4, <1>6, <1>7

\* The backward ops of n in a graph that has them.
LEMMA OpsCompute ==
    ASSUME IsTraced(model), Well(graph), Listed(model, graph), Follows(model, graph),
           IsDifferentiating(model, graph, todo, requires_grad, gradients),
           NEW n \in ToSet(todo), TypeOf(n) = "op", gradients[n] # <<>>,
           NEW h, Well(h), Listed(model, h), NEW c, c = Sum(n, Len(gradients[n])),
           h = Differentiated(n, Combined(n), c), AddsUp(n, h, c)
    PROVE  /\ BackwardOps(n) \in Seq(DOMAIN h.node)
           /\ \A j \in DOMAIN BackwardOps(n) :
                 Computed(model, h)[BackwardOps(n)[j]]
                     = Backed(Computed(model, graph), n, graph.node[n], BackwardOps(n)[j][3],
                              Computed(model, h)[c])
  <1> DEFINE val == Computed(model, h)
             old == Computed(model, graph)
             ins == graph.node[n].ins
             ports == PortsOf(ins, requires_grad)
             B == BackwardOps(n)
             k == Combined(n)
             rec == [b \in ToSet(B) |-> BackwardOp(graph.node[n].role, b[3], ins, n, c)]
  <1>1. n \in Forwards(graph)
    BY HoldsDuring, Entries DEF Holds
  <1>2. /\ n \in DOMAIN graph.node /\ ins \in Seq(Forwards(graph))
        /\ \A p \in DOMAIN ins : ins[p] \in Forwards(graph) /\ ins[p] \in DOMAIN graph.node
        /\ DOMAIN ins = 1..OpArity[graph.node[n].role]
    BY <1>1, ForwardReads
  <1>3. /\ ports \in Seq(DOMAIN ins) /\ \A j \in DOMAIN ports : ports[j] \in DOMAIN ins
    BY <1>2, PortsAre
  <1>4. B = [i \in DOMAIN ports |-> <<"bw", n, ports[i]>>]
    BY BackwardOpsList
  <1>5. \A x \in DOMAIN graph.node : /\ x \in DOMAIN h.node /\ h.node[x] = graph.node[x]
                                     /\ val[x] = old[x]
    BY DEF AddsUp
  <1>6. IsGraph(k)
    BY CombinedIs
  <1>7. h = AddNodes(k, B, rec)
    BY DEF Differentiated
  <1> HIDE DEF B, k
  <1>8. DOMAIN B = DOMAIN ports /\ \A j \in DOMAIN ports : B[j] = <<"bw", n, ports[j]>> /\ B[j] \in ToSet(B)
    <2>1. DOMAIN B = DOMAIN ports /\ \A j \in DOMAIN ports : B[j] = <<"bw", n, ports[j]>>
      BY <1>4
    <2> QED
      BY <2>1 DEF ToSet
  <1>9. \A j \in DOMAIN B : rec[B[j]] = BackwardOp(graph.node[n].role, ports[j], ins, n, c)
    BY <1>8
  <1>10. \A j \in DOMAIN B : h.node[B[j]] = BackwardOp(graph.node[n].role, ports[j], ins, n, c)
    <2> HIDE DEF rec
    <2> QED
      BY <1>6, <1>7, <1>8, <1>9, AddNodesHas
  <1>11. DOMAIN h.node = DOMAIN k.node \cup ToSet(B)
    BY <1>6, <1>7 DEF AddNodes, IsGraph
  <1>12. \A j \in DOMAIN B : B[j] \in DOMAIN h.node
    BY <1>8, <1>11
  <1>13. B \in Seq(DOMAIN h.node)
    <2>1. DOMAIN B = 1..Len(ports) /\ Len(ports) \in Nat
      BY <1>3, <1>8, Entries
    <2>2. B \in [1..Len(ports) -> DOMAIN h.node]
      BY <1>4, <1>12, <2>1
    <2> QED
      BY <2>1, <2>2, ListIs
  <1>14. ASSUME NEW j \in DOMAIN B
         PROVE  val[B[j]] = Backed(old, n, graph.node[n], B[j][3], val[c])
    <2> DEFINE p == ports[j]
               b == B[j]
    <2>1. /\ b \in DOMAIN h.node /\ b = <<"bw", n, p>> /\ b[3] = p /\ p \in DOMAIN ins
          /\ n \in Forwards(h) /\ h.node[n] = graph.node[n]
      BY <1>1, <1>2, <1>3, <1>5, <1>8, <1>12, <1>14, KindsDiffer DEF Forwards
    <2>2. h.node[b] = BackwardOp(h.node[n].role, p, h.node[n].ins, n, c)
      BY <1>10, <1>14, <2>1
    <2> HIDE DEF b, p, ports, val, old
    <2>3. val[b] = Backed(val, n, h.node[n], p, val[c])
      BY <2>1, <2>2, BackwardComputed DEF val
    <2>4. graph.node[n].role = "Multiply" => 3 - p \in DOMAIN ins
      BY <1>2, <2>1 DEF OpArity
    <2>5. Backed(val, n, h.node[n], p, val[c]) = Backed(old, n, graph.node[n], p, val[c])
      <3>1. h.node[n] = graph.node[n] /\ val[n] = old[n]
        BY <1>2, <1>5, <2>1
      <3>2. graph.node[n].role = "Multiply" => val[ins[3 - p]] = old[ins[3 - p]]
        BY <1>2, <1>5, <2>4
      <3> QED
        BY <3>1, <3>2 DEF Backed
    <2> QED
      BY <2>1, <2>3, <2>5 DEF b
  <1> QED
    BY <1>13, <1>14 DEF B

\* What the ops of B carry back goes to the operands they are named for, behind what
\* these have.
HandsTo(gr, gr2, td, ins, B) ==
    /\ \A x \in ToSet(td) : gr2[x] = gr[x] \o Only(B, {b \in ToSet(B) : ins[b[3]] = x})
    /\ \A j \in DOMAIN B : ins[B[j][3]] \in ToSet(td)

\* What is owed then: what was owed before, and what is handed on.
OwesMore(l, old, val, gr, gr2, td, ins, B) ==
    Total(Owed(l, val, gr2, td)) = Total(Owed(l, old, gr, td)) + Total(HandedParts(l, val, ins, B))

\* What is handed on is owed by those it is handed to.
LEMMA OwedMore ==
    ASSUME IsTraced(model), NEW g, Well(g), Listed(model, g), Follows(model, g),
           NEW h, DOMAIN g.node \subseteq DOMAIN h.node,
           NEW gr, NEW td, Holds(g, gr, td), Distinct(td), NEW gr2, Holds(h, gr2, td),
           Well(h), Listed(model, h), Follows(model, h),
           NEW old, IntsOn(g, old), NEW val, SameOn(g, old, val), IntsOn(h, val),
           NEW ins, NEW B \in Seq(DOMAIN h.node), HandsTo(gr, gr2, td, ins, B), NEW l,
           HandedParts(l, val, ins, B) \in Seq(Int)
    PROVE  OwesMore(l, old, val, gr, gr2, td, ins, B)
  <1> DEFINE n == Len(td)
             k == Len(B)
             S(x) == {b \in ToSet(B) : ins[b[3]] = x}
             at == [j \in 1..k |-> CHOOSE i \in 1..n : td[i] = ins[B[j][3]]]
             v == [j \in 1..k |-> val[B[j]]]
             d == [i \in 1..n |-> Slope(l, td[i])]
             got == [i \in 1..n |-> Total(Masked(val, B, S(td[i]))) * d[i]]
             given == HandedParts(l, val, ins, B)
             u == Owed(l, old, gr, td)
             w == Owed(l, val, gr2, td)
  <1>1. /\ td \in Seq(Forwards(g)) /\ DOMAIN td = 1..n /\ n \in Nat
        /\ \A i \in 1..n : td[i] \in Forwards(g) /\ td[i] \in ToSet(td)
    BY Entries DEF Holds
  <1>2. DOMAIN B = 1..k /\ k \in Nat /\ \A j \in 1..k : B[j] \in ToSet(B) /\ B[j] \in DOMAIN h.node
    BY Entries
  <1>3. at \in [1..k -> 1..n] /\ \A j \in 1..k : td[at[j]] = ins[B[j][3]]
    <2> SUFFICES ASSUME NEW j \in 1..k
                 PROVE  at[j] \in 1..n /\ td[at[j]] = ins[B[j][3]]
      OBVIOUS
    <2>1. ins[B[j][3]] \in ToSet(td)
      BY <1>2 DEF HandsTo
    <2>2. \E i \in 1..n : td[i] = ins[B[j][3]]
      BY <1>1, <2>1 DEF ToSet
    <2> QED
      BY <2>2
  <1>4. v \in [1..k -> Int]
    BY <1>2 DEF IntsOn
  <1>5. /\ d \in [1..n -> Int] /\ u \in [1..n -> Int] /\ w \in [1..n -> Int]
        /\ \A i \in 1..n : /\ d[i] = Slope(l, td[i])
                           /\ u[i] = Brought(old, gr, td[i]) * Slope(l, td[i])
                           /\ Brought(old, gr, td[i]) \in Int
    <2>1. /\ u \in [1..n -> Int]
          /\ \A x \in Forwards(g) : Brought(old, gr, x) \in Int /\ Slope(l, x) \in Int
      BY ONLY IsTraced(model), Well(g), Listed(model, g), Follows(model, g), Holds(g, gr, td),
              IntsOn(g, old), OwedIs
    <2>2. w \in [1..n -> Int]
      BY ONLY IsTraced(model), Well(h), Listed(model, h), Follows(model, h), Holds(h, gr2, td),
              IntsOn(h, val), OwedIs
    <2>3. \A i \in 1..n : u[i] = Brought(old, gr, td[i]) * Slope(l, td[i])
      BY <1>1 DEF Owed
    <2> HIDE DEF u, w
    <2> QED
      BY <1>1, <2>1, <2>2, <2>3
  <1>6. \A i \in 1..n : w[i] = Brought(val, gr2, td[i]) * Slope(l, td[i])
    BY <1>1 DEF Owed
  <1>7. ASSUME NEW i \in 1..n
        PROVE  /\ Total(Masked(val, B, S(td[i]))) \in Int
               /\ Brought(val, gr2, td[i]) = Brought(old, gr, td[i]) + Total(Masked(val, B, S(td[i])))
               /\ Masked(val, B, S(td[i])) = Portion(k, at, v, i)
    <2> DEFINE x == td[i]
    <2>1. x \in ToSet(td) /\ x \in Forwards(g)
      BY <1>1
    <2>2. gr[x] \in Seq(DOMAIN g.node)
      BY <2>1 DEF Holds
    <2>3. gr[x] \in Seq(DOMAIN h.node)
      BY <2>2
    <2>4. \A y \in DOMAIN h.node : val[y] \in Int
      BY DEF IntsOn
    <2>5. gr2[x] = gr[x] \o Only(B, S(x))
      BY <2>1 DEF HandsTo
    <2> HIDE DEF x
    <2>6. /\ Total(Mapped(val, gr[x] \o Only(B, S(x)))) = Total(Mapped(val, gr[x])) + Total(Masked(val, B, S(x)))
          /\ Total(Masked(val, B, S(x))) \in Int
      <3> DEFINE SS == S(x)
      <3> HIDE DEF SS
      <3>1. /\ Total(Mapped(val, gr[x] \o Only(B, SS))) = Total(Mapped(val, gr[x])) + Total(Masked(val, B, SS))
            /\ Total(Masked(val, B, SS)) \in Int
        BY <2>3, <2>4, BroughtMore
      <3> QED
        BY <3>1 DEF SS
    <2>7. Mapped(val, gr[x]) = Mapped(old, gr[x])
      <3>1. \A y \in DOMAIN g.node : old[y] \in Int /\ val[y] = old[y]
        BY DEF IntsOn, SameOn
      <3> DEFINE s == gr[x]
                 D == DOMAIN g.node
      <3>2. s \in Seq(D)
        BY <2>2
      <3> HIDE DEF s
      <3>3. Mapped(val, s) = Mapped(old, s)
        BY ONLY <3>1, <3>2, MappedIs
      <3> QED
        BY <3>3 DEF s
    <2>8. Brought(val, gr2, x) = Brought(old, gr, x) + Total(Masked(val, B, S(x)))
      BY <2>5, <2>6, <2>7 DEF Brought
    <2>9. \A j \in 1..k : B[j] \in S(x) <=> at[j] = i
      <3> SUFFICES ASSUME NEW j \in 1..k PROVE B[j] \in S(x) <=> at[j] = i
        OBVIOUS
      <3>1. B[j] \in S(x) <=> td[at[j]] = td[i]
        BY <1>2, <1>3 DEF x
      <3>2. at[j] \in DOMAIN td /\ i \in DOMAIN td
        BY <1>1, <1>3
      <3> HIDE DEF at
      <3> QED
        BY <3>1, <3>2 DEF Distinct
    <2>10. Masked(val, B, S(x)) = [j \in 1..k |-> IF B[j] \in S(x) THEN val[B[j]] ELSE 0]
      BY <1>2 DEF Masked
    <2>11. Masked(val, B, S(x)) = [j \in 1..k |-> IF at[j] = i THEN v[j] ELSE 0]
      <3> HIDE DEF at, S
      <3> QED
        BY <2>9, <2>10
    <2> QED
      BY <2>6, <2>8, <2>11 DEF x, Portion
  <1>8. got \in [1..n -> Int]
        /\ \A i \in 1..n : got[i] = Total(Portion(k, at, v, i)) * d[i]
    <2> HIDE DEF at, v, d, S
    <2>1. \A i \in 1..n : got[i] = Total(Masked(val, B, S(td[i]))) * d[i]
      OBVIOUS
    <2>2. \A i \in 1..n : Total(Masked(val, B, S(td[i]))) * d[i] \in Int
      <3> SUFFICES ASSUME NEW i \in 1..n PROVE Total(Masked(val, B, S(td[i]))) * d[i] \in Int
        OBVIOUS
      <3>1. d[i] \in Int /\ Total(Masked(val, B, S(td[i]))) \in Int
        BY <1>5, <1>7
      <3> QED
        BY <3>1
    <2> QED
      BY <1>7, <2>1, <2>2
  <1>9. given \in [1..k -> Int] /\ \A j \in 1..k : given[j] = v[j] * d[at[j]]
    <2>1. DOMAIN given = 1..k /\ \A j \in 1..k : given[j] = val[B[j]] * Slope(l, ins[B[j][3]])
      BY <1>2 DEF HandedParts
    <2>2. given \in [1..k -> Int]
      <3> HIDE DEF given
      <3>1. given \in Seq(Int)
        BY DEF given
      <3> QED
        BY <2>1, <3>1
    <2>3. ASSUME NEW j \in 1..k PROVE given[j] = v[j] * d[at[j]]
      <3>1. at[j] \in 1..n /\ td[at[j]] = ins[B[j][3]]
        BY <1>3
      <3> HIDE DEF given, at
      <3>2. d[at[j]] = Slope(l, ins[B[j][3]]) /\ v[j] = val[B[j]]
        BY <3>1
      <3> QED
        BY <2>1, <3>2
    <2> QED
      BY <2>2, <2>3
  <1>10. Total(got) = Total(given)
    <2> HIDE DEF at, v, d, got, given
    <2>1. Distributes(n, k, at, v, d, got, given)
      BY <1>1, <1>2, <1>3, <1>4, <1>5, <1>8, <1>9 DEF Distributes
    <2> HIDE DEF n, k
    <2> QED
      BY ONLY <2>1, TotalDistributes
  <1>11. \A i \in 1..n : w[i] = u[i] + got[i]
    <2> SUFFICES ASSUME NEW i \in 1..n PROVE w[i] = u[i] + got[i]
      OBVIOUS
    <2> DEFINE a == Brought(old, gr, td[i])
               b == Total(Masked(val, B, S(td[i])))
               s == Slope(l, td[i])
    <2>1. a \in Int /\ b \in Int /\ s \in Int
      BY <1>5, <1>7
    <2>2. w[i] = (a + b) * s /\ u[i] = a * s /\ got[i] = b * s
      <3>1. d[i] = s
        OBVIOUS
      <3>2. got[i] = b * d[i]
        BY DEF got
      <3> HIDE DEF d, got, w, u
      <3> QED
        BY <1>5, <1>6, <1>7, <3>1, <3>2
    <2> HIDE DEF a, b, s, got, w, u
    <2>3. (a + b) * s = a * s + b * s
      BY <2>1
    <2> QED
      BY <2>2, <2>3
  <1>12. Total(w) = Total(u) + Total(got)
    <2> HIDE DEF w, u, got
    <2> QED
      BY <1>1, <1>5, <1>8, <1>11, TotalPlus
  <1> QED
    BY <1>10, <1>12 DEF OwesMore

\* What the operands of n are handed, and what the others keep.
LEMMA HandsToOperands ==
    ASSUME IsTraced(model), Well(graph), Listed(model, graph),
           IsDifferentiating(model, graph, todo, requires_grad, gradients),
           todo # <<>>, NEW n, n = Head(todo), TypeOf(n) = "op", gradients[n] # <<>>, NEW c
    PROVE  /\ HandsTo(gradients, HandedOn(n, c), Tail(todo), graph.node[n].ins, BackwardOps(n))
           /\ \A l \in DOMAIN gradients : l # n /\ l \notin ToSet(Tail(todo)) =>
                 HandedOn(n, c)[l] = gradients[l]
  <1> DEFINE ins == graph.node[n].ins
             B == BackwardOps(n)
             gr == HandedOn(n, c)
             td == Tail(todo)
             S(x) == {b \in ToSet(B) : ins[b[3]] = x}
             ports == PortsOf(ins, requires_grad)
  <1>1. /\ n \in DOMAIN graph.node /\ ToSet(td) \subseteq DOMAIN gradients /\ n \notin ToSet(td)
        /\ \A x \in ToSet(ins) : x \in ToSet(td)
    BY TurnOf
  <1>2. \A x \in DOMAIN gradients : x # n => gr[x] = gradients[x] \o Only(B, S(x))
    BY DEF HandedOn
  <1>3. ins \in Seq(DOMAIN graph.node)
    BY <1>1 DEF Well, IsGraph, Records
  <1>4. /\ ports \in Seq(DOMAIN ins) /\ \A j \in DOMAIN ports : ports[j] \in DOMAIN ins
    BY <1>3, PortsAre
  <1>5. B = [i \in DOMAIN ports |-> <<"bw", n, ports[i]>>]
    BY BackwardOpsList
  <1>6. \A j \in DOMAIN B : B[j][3] \in DOMAIN ins
    BY <1>4, <1>5
  <1>7. \A j \in DOMAIN B : ins[B[j][3]] \in ToSet(td)
    <2> HIDE DEF B, td
    <2>1. \A p \in DOMAIN ins : ins[p] \in ToSet(ins)
      BY <1>3, Entries
    <2> QED
      BY <1>1, <1>6, <2>1
  <1>8. HandsTo(gradients, gr, td, ins, B)
    <2>1. \A x \in ToSet(td) : gr[x] = gradients[x] \o Only(B, S(x))
      BY <1>1, <1>2
    <2> HIDE DEF gr, td, ins, B
    <2> QED
      BY <1>7, <2>1 DEF HandsTo
  <1>9. ASSUME NEW l \in DOMAIN gradients, l # n, l \notin ToSet(td)
        PROVE  gr[l] = gradients[l]
    <2>1. S(l) = {}
      <3> SUFFICES ASSUME NEW b \in ToSet(B) PROVE ins[b[3]] # l
        OBVIOUS
      <3>1. PICK j \in DOMAIN B : b = B[j]
        BY DEF ToSet
      <3> HIDE DEF B, td
      <3> QED
        BY <1>7, <1>9, <3>1
    <2>2. B \in Seq(ToSet(B))
      BY <1>1, BackwardOpsOf DEF Well
    <2>3. Only(B, S(l)) = <<>>
      <3> DEFINE s == Only(B, {})
      <3> HIDE DEF B
      <3>1. s \in Seq(ToSet(B)) /\ ToSet(s) = {}
        BY <2>2, OnlyMembers
      <3> HIDE DEF s
      <3>2. s = <<>>
        BY <3>1, Entries
      <3> QED
        BY <2>1, <3>2 DEF s
    <2>4. gradients[l] \in Seq(DOMAIN graph.node)
      BY HoldsDuring DEF Holds
    <2>5. gradients[l] \o <<>> = gradients[l]
      <3> DEFINE s == gradients[l]
      <3>1. s \in Seq(DOMAIN graph.node)
        BY <2>4
      <3> HIDE DEF s
      <3>2. s \o <<>> = s
        BY <3>1
      <3> QED
        BY <3>2 DEF s
    <2> QED
      BY <1>2, <1>9, <2>3, <2>5
  <1> QED
    BY <1>8, <1>9

\* The gradient of an op goes on to its operands.
LEMMA ChainHands ==
    ASSUME IsTraced(model), Well(graph), Listed(model, graph), Follows(model, graph),
           IsDifferentiating(model, graph, todo, requires_grad, gradients),
           todo # <<>>, NEW n, n = Head(todo), TypeOf(n) = "op", gradients[n] # <<>>,
           NEW h, h = Differentiated(n, Combined(n), Sum(n, Len(gradients[n]))),
           NEW gr, gr = HandedOn(n, Sum(n, Len(gradients[n]))),
           NEW l \in model.trained, l \in DOMAIN graph.node, Chained(l, graph, gradients, todo)
    PROVE  Chained(l, h, gr, Tail(todo))
  <1> DEFINE c == Sum(n, Len(gradients[n]))
             old == Computed(model, graph)
             val == Computed(model, h)
             ins == graph.node[n].ins
             B == BackwardOps(n)
             td == Tail(todo)
             given == HandedParts(l, val, ins, B)
  <1>1. /\ n \in ToSet(todo) /\ n \notin ToSet(td) /\ ToSet(todo) = {n} \cup ToSet(td)
        /\ graph.node[n].type = "op"
    BY TurnOf
  <1>2. /\ Well(h) /\ Listed(model, h) /\ SameForwards(graph, h)
        /\ IsDifferentiating(model, h, td, requires_grad, gr)
        /\ GrowsBy(Combined(n), h, ToSet(B))
    BY <1>1, OpKeeps
  <1>3. AddsUp(n, h, c)
    BY <1>1, <1>2, GathersUp
  <1>4. /\ Holds(graph, gradients, todo) /\ Needs(model, graph, requires_grad) /\ Distinct(todo)
        /\ Holds(h, gr, td) /\ Distinct(td)
    BY <1>2, HoldsDuring
  <1>5. /\ IntsOn(graph, old) /\ IntsOn(h, val) /\ SameOn(graph, old, val)
        /\ DOMAIN graph.node \subseteq DOMAIN h.node
    BY <1>2, <1>3, ComputedInt DEF AddsUp, SameOn
  <1>6. n \in Forwards(graph)
    BY <1>1, <1>4, Entries DEF Holds
  <1>7. /\ B \in Seq(DOMAIN h.node)
        /\ \A j \in DOMAIN B : val[B[j]] = Backed(old, n, graph.node[n], B[j][3], val[c])
    BY <1>1, <1>2, <1>3, OpsCompute
  <1>8. val[c] \in Int /\ Cong(val[c], Brought(old, gradients, n))
    BY <1>3 DEF AddsUp
  <1>9. given \in Seq(Int) /\ Cong(val[c] * Slope(l, n), Total(given))
    <2> HIDE DEF val, c
    <2> QED
      BY <1>4, <1>6, <1>7, <1>8, HandsOn
  <1>10. /\ HandsTo(gradients, gr, td, ins, B)
         /\ \A x \in DOMAIN gradients : x # n /\ x \notin ToSet(td) => gr[x] = gradients[x]
    BY HandsToOperands
  <1>11. Follows(model, h)
    BY <1>2, SameFollows
  <1>12. /\ OwesFirst(l, old, gradients, todo) /\ Holds(graph, gradients, td)
    BY <1>4, <1>5, OwedRest
  <1>13. OwesMore(l, old, val, gradients, gr, td, ins, B)
    <2> HIDE DEF old, val, td, ins, B, c
    <2> QED
      BY ONLY IsTraced(model), Well(graph), Listed(model, graph), Follows(model, graph),
              <1>2, <1>4, <1>5, <1>7, <1>9, <1>10, <1>11, <1>12, OwedMore DEF given
  <1> DEFINE T == Total(Owed(l, old, gradients, td))
             A == Brought(old, gradients, n)
             W == Total(Owed(l, val, gr, td))
             G == Total(given)
             K == Kept(l, old, gradients, todo)
             s == Slope(l, n)
  <1>14. l \in Forwards(graph) /\ l # n
    <2>1. l \in Leaves
      BY DEF IsTraced
    <2>2. l \in Forwards(graph) /\ TypeOf(l) = "input"
      BY <2>1, LeavesAre DEF Forwards
    <2> QED
      BY <2>2
  <1>15. /\ T \in Int /\ A \in Int /\ s \in Int /\ W \in Int /\ G \in Int
         /\ Brought(old, gradients, l) \in Int
    <2>1. T \in Int /\ \A x \in Forwards(graph) : Brought(old, gradients, x) \in Int /\ Slope(l, x) \in Int
      BY ONLY IsTraced(model), Well(graph), Listed(model, graph), Follows(model, graph),
              <1>5, <1>12, OwedIs
    <2>2. W \in Int
      BY ONLY IsTraced(model), <1>2, <1>4, <1>5, <1>11, OwedIs
    <2>3. G \in Int
      BY <1>9, TotalIs
    <2> QED
      BY <1>6, <1>14, <2>1, <2>2, <2>3
  <1>16. K \in Int
    BY <1>15 DEF Kept
  <1>17. Kept(l, val, gr, td) = K
    <2>1. CASE l \in ToSet(td)
      BY <1>1, <2>1 DEF Kept
    <2>2. CASE l \notin ToSet(td)
      <3>1. l \in DOMAIN gradients
        BY <1>4, <1>14 DEF Holds
      <3>2. gr[l] = gradients[l]
        BY <1>10, <1>14, <2>2, <3>1
      <3>3. Brought(val, gr, l) = Brought(old, gradients, l)
        BY ONLY <1>4, <1>5, <1>14, <3>2, BroughtSame
      <3> QED
        BY <1>1, <1>14, <2>2, <3>3 DEF Kept
    <2> QED
      BY <2>1, <2>2
  <1>18. Total(Owed(l, old, gradients, todo)) = A * s + T
    BY <1>12 DEF OwesFirst
  <1>19. W = T + G
    BY <1>13 DEF OwesMore
  <1>20. Cong(A * s + T + K, Gradient(l))
    <2> HIDE DEF A, s, T, K
    <2> QED
      BY <1>18 DEF Chained, K
  <1>21. Gradient(l) \in Int
    BY GradientIs, ExactInt
  <1>22. Cong(val[c] * s, G) /\ Cong(val[c], A) /\ val[c] \in Int
    BY <1>8, <1>9
  <1> HIDE DEF A, s, T, K, W, G
  <1>23. Cong(A * s, val[c] * s)
    <2>1. Cong(A, val[c])
      BY <1>15, <1>22, CongIs
    <2> HIDE DEF val, c
    <2> QED
      BY <1>15, <1>22, <2>1, CongTimes
  <1>24. A * s \in Int /\ val[c] * s \in Int
    BY <1>15, <1>22
  <1>25. Cong(A * s, G)
    <2> HIDE DEF val, c
    <2> QED
      BY <1>15, <1>22, <1>23, <1>24, CongIs
  <1>26. Cong(A * s + (T + K), G + (T + K))
    <2>1. T + K \in Int /\ Cong(T + K, T + K)
      BY <1>15, <1>16, CongIs
    <2> QED
      BY ONLY <1>15, <1>24, <1>25, <2>1, CongPlus
  <1>27. Cong(W + K, Gradient(l))
    <2> DEFINE x == A * s
    <2>0. x \in Int
      BY <1>24
    <2>00. Cong(x + T + K, Gradient(l)) /\ Cong(x + (T + K), G + (T + K))
      BY <1>20, <1>26
    <2> HIDE DEF x
    <2>1. x + T + K = x + (T + K) /\ W + K = G + (T + K)
      BY <1>15, <1>16, <1>19, <2>0
    <2>2. x + (T + K) \in Int /\ G + (T + K) \in Int
      BY <1>15, <1>16, <2>0
    <2>3. Cong(x + (T + K), Gradient(l)) /\ Cong(x + (T + K), W + K) /\ W + K \in Int
      BY <2>00, <2>1, <2>2
    <2> QED
      BY <1>21, <2>2, <2>3, CongIs
  <1> QED
    BY <1>17, <1>27 DEF Chained, W, K

-----------------------------------------------------------------------------
\* The outputs send the gradients they are given.

\* What the outputs that had their turn have sent to n.
SentIn(g, td, rg, n) ==
    [i \in DOMAIN model.outs |->
        IF /\ Output(model.outs[i]) \notin ToSet(td) /\ n \in rg
           /\ g.node[Output(model.outs[i])].ins[1] = n
        THEN Seed[i] ELSE 0]

\* It is what the gradients of n add up to.
AllSentIn(g, gr, td, rg) ==
    \A n \in Forwards(g) : Brought(Computed(model, g), gr, n) = Total(SentIn(g, td, rg, n))

\* What is sent are integers.
LEMMA SentInIs ==
    ASSUME IsTraced(model), NEW g, NEW td, NEW rg, NEW n
    PROVE  /\ SentIn(g, td, rg, n) \in [1..Len(model.outs) -> Int] /\ Len(model.outs) \in Nat
           /\ DOMAIN model.outs = 1..Len(model.outs)
           /\ \A i \in 1..Len(model.outs) : Seed[i] \in Int
           /\ \A i \in 1..Len(model.outs) :
                 SentIn(g, td, rg, n)[i] =
                    IF /\ Output(model.outs[i]) \notin ToSet(td) /\ n \in rg
                       /\ g.node[Output(model.outs[i])].ins[1] = n
                    THEN Seed[i] ELSE 0
  BY SeedsAre DEF SentIn

\* The outputs are told apart, and each of them is in the graph.
LEMMA OutputNodesAre ==
    ASSUME IsTraced(model), NEW g, Well(g), Listed(model, g)
    PROVE  /\ \A i, j \in DOMAIN model.outs :
                 Output(model.outs[i]) = Output(model.outs[j]) => i = j
           /\ \A i \in DOMAIN model.outs :
                 /\ Output(model.outs[i]) \in DOMAIN g.node
                 /\ Output(model.outs[i]) \in Forwards(g)
                 /\ Output(model.outs[i]) \in OutputNodes(model)
                 /\ g.node[Output(model.outs[i])].type = "output"
                 /\ g.node[Output(model.outs[i])].ins[1] \in ToSet(g.node[Output(model.outs[i])].ins)
                 /\ g.node[Output(model.outs[i])].ins[1] \in DOMAIN g.node
           /\ \A o \in OutputNodes(model) : \E i \in DOMAIN model.outs : o = Output(model.outs[i])
  <1>1. OutputNodes(model) = {Output(t) : t \in ToSet(model.outs)}
    BY OutputsAre
  <1>2. \A i, j \in DOMAIN model.outs : Output(model.outs[i]) = Output(model.outs[j]) => i = j
    <2>1. \A x, y : Output(x) = Output(y) => x = y
      BY KindsDiffer DEF Output
    <2>2. Distinct(model.outs)
      BY DEF IsTraced
    <2> QED
      BY <2>1, <2>2 DEF Distinct
  <1>3. \A o \in OutputNodes(model) : \E i \in DOMAIN model.outs : o = Output(model.outs[i])
    BY <1>1 DEF ToSet
  <1>4. ASSUME NEW i \in DOMAIN model.outs
        PROVE  LET o == Output(model.outs[i])
               IN  /\ o \in DOMAIN g.node /\ o \in Forwards(g) /\ o \in OutputNodes(model)
                   /\ g.node[o].type = "output" /\ g.node[o].ins[1] \in ToSet(g.node[o].ins)
                   /\ g.node[o].ins[1] \in DOMAIN g.node
    <2> DEFINE o == Output(model.outs[i])
    <2>1. o \in OutputNodes(model)
      BY <1>1 DEF ToSet
    <2>2. OutputNodes(model) \subseteq DOMAIN g.node
      <3>1. ModuleOutputs(model) \in Seq(DOMAIN g.node)
        BY DEF Listed, Well, IsGraph
      <3> QED
        BY <3>1, Entries DEF OutputNodes
    <2>3. TypeOf(o) = "output" /\ EpochOf(o) = "fwd"
      BY NamesAre DEF Output
    <2> HIDE DEF o
    <2>4. o \in DOMAIN g.node
      BY <2>1, <2>2
    <2>5. Whole(o, g.node[o]) /\ g.node[o].ins \in Seq(DOMAIN g.node)
      BY <2>4 DEF Well, IsGraph, Records
    <2>6. g.node[o].type = "output" /\ Len(g.node[o].ins) = 1
      BY <2>3, <2>5 DEF Whole, Fits, Ports
    <2>7. g.node[o].ins[1] \in ToSet(g.node[o].ins) /\ g.node[o].ins[1] \in DOMAIN g.node
      <3> DEFINE s == g.node[o].ins
      <3>1. s \in Seq(DOMAIN g.node) /\ Len(s) = 1
        BY <2>5, <2>6
      <3> HIDE DEF s
      <3>2. 1 \in DOMAIN s /\ s[1] \in ToSet(s) /\ s[1] \in DOMAIN g.node
        BY <3>1, Entries
      <3> QED
        BY <3>2 DEF s
    <2>8. o \in Forwards(g)
      BY <2>3, <2>4 DEF Forwards
    <2> QED
      BY <2>1, <2>4, <2>6, <2>7, <2>8 DEF o
  <1> QED
    BY <1>2, <1>3, <1>4

\* Before the first turn nothing is sent.
LEMMA NothingSent ==
    ASSUME IsTraced(model), Well(graph), Listed(model, graph), IsTrace(model, graph),
           NEW gr, gr = [n \in DOMAIN graph.node |-> <<>>], NEW td, td = OfType(graph, "output"),
           NEW rg
    PROVE  AllSentIn(graph, gr, td, rg)
  <1> SUFFICES ASSUME NEW n \in Forwards(graph)
               PROVE  Brought(Computed(model, graph), gr, n) = Total(SentIn(graph, td, rg, n))
    BY DEF AllSentIn
  <1> DEFINE v == SentIn(graph, td, rg, n)
             k == Len(model.outs)
             val == Computed(model, graph)
  <1>1. ToSet(td) = {x \in DOMAIN graph.node : graph.node[x].type = "output"}
    BY OfTypeIs DEF Well
  <1>2. \A i \in 1..k : Output(model.outs[i]) \in ToSet(td)
    BY <1>1, OutputNodesAre, SentInIs
  <1>3. v \in [1..k -> Int] /\ k \in Nat /\ \A i \in 1..k : v[i] = 0
    BY <1>2, SentInIs
  <1>4. Total(v) = 0
    <2> HIDE DEF v, k
    <2> QED
      BY <1>3, TotalZero
  <1>5. gr[n] = <<>>
    BY DEF Forwards
  <1>6. Brought(val, gr, n) = 0
    <2>1. Mapped(val, <<>>) = <<>>
      BY DEF Mapped
    <2>2. <<>> \in Seq(Int)
      OBVIOUS
    <2>3. Total(<<>>) = 0
      BY <2>2, TotalIs
    <2> QED
      BY <1>5, <2>1, <2>3 DEF Brought
  <1> QED
    BY <1>4, <1>6

\* An output that passes no gradient on sends nothing.
LEMMA SeedSkipped ==
    ASSUME IsTraced(model), Well(graph), Listed(model, graph),
           IsSeeding(model, graph, todo, requires_grad, gradients), todo # <<>>,
           graph.node[Head(todo)].ins[1] \notin requires_grad,
           AllSentIn(graph, gradients, todo, requires_grad)
    PROVE  AllSentIn(graph, gradients, Tail(todo), requires_grad)
  <1> DEFINE o == Head(todo)
             S == ToSet(todo)
             S2 == ToSet(Tail(todo))
  <1>1. S = {o} \cup S2 /\ graph.node[o].ins[1] \notin requires_grad
    BY Rest DEF IsSeeding
  <1> SUFFICES ASSUME NEW n \in Forwards(graph)
               PROVE  SentIn(graph, todo, requires_grad, n)
                         = SentIn(graph, Tail(todo), requires_grad, n)
    BY DEF AllSentIn
  <1> HIDE DEF o, S, S2
  <1>2. \A t : (/\ Output(t) \notin S /\ n \in requires_grad /\ graph.node[Output(t)].ins[1] = n)
               <=> (/\ Output(t) \notin S2 /\ n \in requires_grad /\ graph.node[Output(t)].ins[1] = n)
    BY <1>1
  <1> QED
    BY <1>2 DEF SentIn, S, S2

\* One gradient more adds its element.
LEMMA BroughtOneMore ==
    ASSUME NEW D, NEW s \in Seq(D), NEW x, NEW old, \A y \in D : old[y] \in Int, NEW val,
           \A y \in D : val[y] = old[y], val[x] \in Int
    PROVE  Total(Mapped(val, Append(s, x))) = Total(Mapped(old, s)) + val[x]
  <1> DEFINE a == Mapped(old, s)
             t == Append(s, x)
             w == Mapped(val, t)
             b == Append(a, val[x])
  <1>1. a \in Seq(Int) /\ Total(a) \in Int
    BY MappedIs
  <1>2. /\ DOMAIN t = 1..(Len(s) + 1) /\ DOMAIN s = 1..Len(s) /\ Len(s) \in Nat
        /\ \A i \in DOMAIN s : t[i] = s[i] /\ s[i] \in D
        /\ t[Len(s) + 1] = x
    BY AppendMembers
  <1>3. DOMAIN a = DOMAIN s /\ \A i \in DOMAIN s : a[i] = old[s[i]]
    BY DEF Mapped
  <1>4. Len(a) = Len(s)
    <2> HIDE DEF a
    <2> QED
      BY <1>1, <1>2, <1>3
  <1>5. /\ DOMAIN w = 1..(Len(s) + 1) /\ w = [i \in 1..(Len(s) + 1) |-> w[i]]
        /\ \A i \in 1..(Len(s) + 1) : w[i] = val[t[i]]
    <2> HIDE DEF t
    <2> QED
      BY <1>2 DEF Mapped
  <1> HIDE DEF a
  <1>6. /\ b \in Seq(Int) /\ DOMAIN b = 1..(Len(s) + 1)
        /\ \A i \in 1..Len(s) : b[i] = a[i]
        /\ b[Len(s) + 1] = val[x]
    <2> DEFINE v == val[x]
    <2>1. v \in Int
      OBVIOUS
    <2> HIDE DEF v
    <2>2. /\ Append(a, v) \in Seq(Int) /\ DOMAIN Append(a, v) = 1..(Len(a) + 1)
          /\ DOMAIN a = 1..Len(a)
          /\ \A i \in DOMAIN a : Append(a, v)[i] = a[i]
          /\ Append(a, v)[Len(a) + 1] = v
      BY <1>1, <2>1, AppendMembers
    <2> QED
      BY <1>4, <2>2 DEF v
  <1> HIDE DEF b, w, t
  <1>7. b = [i \in 1..(Len(s) + 1) |-> b[i]]
    BY <1>6
  <1>8. \A i \in 1..(Len(s) + 1) : w[i] = b[i]
    <2> SUFFICES ASSUME NEW i \in 1..(Len(s) + 1) PROVE w[i] = b[i]
      OBVIOUS
    <2>1. CASE i = Len(s) + 1
      BY <1>2, <1>5, <1>6, <2>1
    <2>2. CASE i # Len(s) + 1
      <3>1. i \in 1..Len(s) /\ i \in DOMAIN s
        BY <1>2, <2>2
      <3>2. t[i] = s[i] /\ s[i] \in D
        BY <1>2, <3>1
      <3> QED
        BY <1>3, <1>5, <1>6, <3>1, <3>2
    <2> QED
      BY <2>1, <2>2
  <1>9. w = b
    BY <1>5, <1>7, <1>8
  <1>10. Total(b) = Total(a) + val[x]
    <2> DEFINE v == val[x]
    <2>1. v \in Int
      OBVIOUS
    <2> HIDE DEF v
    <2>2. Total(Append(a, v)) = Total(a) + v
      BY <1>1, <2>1, TotalAppend
    <2> QED
      BY <2>2 DEF b, v
  <1> QED
    BY <1>9, <1>10 DEF w, t, a

\* What a node is brought, one gradient more for p among it.
OneMore(gr, p, grad) == [gr EXCEPT ![p] = Append(@, grad)]

\* An output that passes a gradient on sends it to what it reads.
LEMMA SeedSent ==
    ASSUME IsTraced(model), Well(graph), Listed(model, graph),
           IsSeeding(model, graph, todo, requires_grad, gradients), todo # <<>>,
           NEW o, o = Head(todo), NEW p, p = graph.node[o].ins[1], p \in requires_grad,
           NEW grad, grad = <<"gradient", o>>,
           NEW h, Well(h), Listed(model, h), GrowsBy(graph, h, {grad}),
           SameForwards(graph, h),
           NEW gr, gr = OneMore(gradients, p, grad),
           AllSentIn(graph, gradients, todo, requires_grad)
    PROVE  AllSentIn(h, gr, Tail(todo), requires_grad)
  <1> DEFINE old == Computed(model, graph)
             val == Computed(model, h)
             S == ToSet(todo)
             S2 == ToSet(Tail(todo))
             k == Len(model.outs)
  <1>1. /\ o \in OutputNodes(model) /\ S = {o} \cup S2 /\ o \notin S2
        /\ Gathered(graph, requires_grad, gradients)
    BY Rest DEF IsSeeding
  <1>2. PICK j \in DOMAIN model.outs : o = Output(model.outs[j])
    BY <1>1, OutputNodesAre
  <1>3. grad \in DOMAIN h.node /\ grad \notin DOMAIN graph.node
    BY DEF GrowsBy
  <1>4. val[grad] = Seed[j] /\ Seed[j] \in Int
    <2>1. TypeOf(grad) = "input"
      BY NamesAre
    <2>2. val[grad] = Given(model, grad)
      BY <1>3, <2>1, ValueAt DEF Value
    <2>3. Given(model, <<"gradient", Output(model.outs[j])>>) = Seed[j]
      BY GivenIs
    <2> HIDE DEF val
    <2> QED
      BY <1>2, <2>2, <2>3, SeedsAre
  <1>5. IntsOn(graph, old) /\ \A x \in DOMAIN graph.node : val[x] = old[x] /\ old[x] \in Int
    <2>1. IntsOn(graph, old)
      BY ComputedInt
    <2>2. \A x \in DOMAIN graph.node : val[x] = old[x]
      BY ONLY IsTraced(model), Well(graph), Listed(model, graph), Well(h), Listed(model, h),
              GrowsBy(graph, h, {grad}), StillComputed
    <2> HIDE DEF val, old
    <2> QED
      BY <2>1, <2>2 DEF IntsOn
  <1>6. /\ Forwards(h) = Forwards(graph) /\ DOMAIN gradients = Forwards(graph)
        /\ \A x \in Forwards(graph) : gradients[x] \in Seq(DOMAIN graph.node)
        /\ \A x \in Forwards(graph) : h.node[x] = graph.node[x]
    BY <1>1 DEF SameForwards, Gathered, Forwards
  <1>7. p \in Forwards(graph)
    BY DEF IsSeeding, Needs, Forwards
  <1>8. \A i \in DOMAIN model.outs : h.node[Output(model.outs[i])] = graph.node[Output(model.outs[i])]
    BY <1>6, OutputNodesAre
  <1>9. /\ DOMAIN model.outs = 1..k /\ k \in Nat /\ j \in 1..k
        /\ \A i \in 1..k : Output(model.outs[i]) = o <=> i = j
    BY <1>2, OutputNodesAre, SentInIs
  <1> SUFFICES ASSUME NEW n \in Forwards(graph)
               PROVE  Brought(val, gr, n) = Total(SentIn(h, Tail(todo), requires_grad, n))
    BY <1>6 DEF AllSentIn
  <1> DEFINE u == SentIn(graph, todo, requires_grad, n)
             w == SentIn(h, Tail(todo), requires_grad, n)
             sd == Seed[j]
             e == [i \in 1..k |-> IF i = j /\ n = p THEN sd ELSE 0]
  <1>10. Brought(old, gradients, n) = Total(u)
    BY DEF AllSentIn
  <1>11. u \in [1..k -> Int] /\ w \in [1..k -> Int]
    BY SentInIs
  <1>12. e \in [1..k -> Int] /\ \A i \in 1..k : e[i] = IF i = j /\ n = p THEN Seed[j] ELSE 0
    <2>1. sd \in Int /\ Seed[j] = sd
      BY <1>4
    <2> HIDE DEF sd, k
    <2> QED
      BY <2>1
  <1>13. ASSUME NEW i \in 1..k PROVE w[i] = u[i] + e[i]
    <2> DEFINE q == Output(model.outs[i])
               x == graph.node[q].ins[1]
    <2>1. /\ u[i] = IF q \notin S /\ n \in requires_grad /\ x = n THEN Seed[i] ELSE 0
          /\ w[i] = IF q \notin S2 /\ n \in requires_grad /\ h.node[q].ins[1] = n THEN Seed[i] ELSE 0
          /\ Seed[i] \in Int
      <3>1. i \in DOMAIN model.outs /\ Seed[i] \in Int
        BY <1>9, <1>13, SeedsAre
      <3> QED
        BY <3>1 DEF SentIn
    <2>2. h.node[q].ins[1] = x /\ (q = o <=> i = j)
      BY <1>8, <1>9, <1>13
    <2>3. CASE i = j
      <3>1. q = o /\ q \in S /\ q \notin S2 /\ x = p
        BY <1>1, <2>2, <2>3
      <3>2. u[i] = 0 /\ w[i] = IF n = p THEN Seed[j] ELSE 0
        <4> HIDE DEF u, w, q, x, S, S2
        <4> QED
          BY <2>1, <2>2, <2>3, <3>1
      <3> HIDE DEF u, w, e
      <3>3. e[i] = w[i] /\ e[i] \in Int
        BY <1>9, <1>12, <2>3, <3>2
      <3>4. u[i] = 0
        BY <3>2
      <3> QED
        BY ONLY <3>3, <3>4
    <2>4. CASE i # j
      <3>1. q \in S <=> q \in S2
        BY <1>1, <2>2, <2>4
      <3>2. u[i] = w[i] /\ u[i] \in Int
        <4> HIDE DEF u, w, q, x, S, S2
        <4> QED
          BY <2>1, <2>2, <3>1
      <3>3. e[i] = 0
        BY <1>12, <2>4
      <3> HIDE DEF u, w, e
      <3> QED
        BY <3>2, <3>3
    <2> QED
      BY <2>3, <2>4
  <1>14. Total(w) = Total(u) + Total(e)
    <2> HIDE DEF u, w, e, k
    <2> QED
      BY <1>9, <1>11, <1>12, <1>13, TotalPlus
  <1>15. Total(e) = IF n = p THEN Seed[j] ELSE 0
    <2> HIDE DEF e, k
    <2>1. CASE n = p
      <3>1. \A i \in 1..k : i # j => e[i] = 0
        BY <1>12
      <3>2. Total(e) = e[j]
        BY <1>9, <1>12, <3>1, TotalPoint
      <3> QED
        BY <1>9, <1>12, <2>1, <3>2
    <2>2. CASE n # p
      <3>1. \A i \in 1..k : e[i] = 0
        BY <1>12, <2>2
      <3>2. Total(e) = 0
        BY <1>9, <1>12, <3>1, TotalZero
      <3> QED
        BY <2>2, <3>2
    <2> QED
      BY <2>1, <2>2
  <1>16. Brought(val, gr, n) = Brought(old, gradients, n) + IF n = p THEN Seed[j] ELSE 0
    <2>1. gradients[n] \in Seq(DOMAIN graph.node)
      BY <1>6
    <2>2. CASE n = p
      <3>1. gr[n] = Append(gradients[n], grad)
        BY <1>6, <1>7, <2>2 DEF OneMore
      <3> HIDE DEF val, old
      <3>2. Total(Mapped(val, Append(gradients[n], grad)))
                = Total(Mapped(old, gradients[n])) + val[grad]
        BY <1>4, <1>5, <2>1, BroughtOneMore
      <3> QED
        BY Zenon, <1>4, <2>2, <3>1, <3>2 DEF Brought
    <2>3. CASE n # p
      <3>1. gr[n] = gradients[n]
        BY <1>6, <2>3 DEF OneMore
      <3> HIDE DEF val, old
      <3>2. Mapped(val, gradients[n]) = Mapped(old, gradients[n])
            /\ Total(Mapped(old, gradients[n])) \in Int
        <4> DEFINE s == gradients[n]
                   D == DOMAIN graph.node
        <4>1. s \in Seq(D)
          BY <2>1
        <4> HIDE DEF s
        <4>2. Mapped(val, s) = Mapped(old, s) /\ Total(Mapped(old, s)) \in Int
          BY ONLY <1>5, <4>1, MappedIs
        <4> QED
          BY <4>2 DEF s
      <3> QED
        BY <2>3, <3>1, <3>2 DEF Brought
    <2> QED
      BY <2>2, <2>3
  <1> QED
    <2> HIDE DEF u, w, e, val, old
    <2>1. Brought(val, gr, n) = Total(w)
      BY <1>10, <1>14, <1>15, <1>16
    <2> QED
      BY <2>1 DEF w

\* An output has the slope of what it reads.
LEMMA OutputSlope ==
    ASSUME IsTraced(model), Well(graph), Listed(model, graph), Follows(model, graph), NEW l,
           NEW i \in DOMAIN model.outs
    PROVE  Slope(l, graph.node[Output(model.outs[i])].ins[1]) = Derivative(l)[model.outs[i]]
  <1> DEFINE o == Output(model.outs[i])
             val == Computed(model, graph)
  <1>1. o \in Forwards(graph) /\ graph.node[o].type = "output"
    BY OutputNodesAre
  <1>2. o \notin Leaves /\ TypeOf(o) = "output" /\ TensorOf(o) = model.outs[i]
    BY NotLeaves, NamesAre, KindsDiffer DEF Output, TensorOf
  <1> HIDE DEF o
  <1>3. Sloped(l, val, o, graph.node[o])
    BY <1>1, <1>2, SlopeIs
  <1>4. Slope(l, o) = Slope(l, graph.node[o].ins[1])
    BY <1>2, <1>3 DEF Sloped
  <1> QED
    BY <1>2, <1>4 DEF Slope, o

\* Once every output had its turn, what the nodes have to hand back is all that the
\* outputs pass on.
LEMMA ChainStarts ==
    ASSUME IsTraced(model), Well(graph), Listed(model, graph), Follows(model, graph),
           NEW td, td \in Seq(Forwards(graph)), Distinct(td), ToSet(td) = Forwards(graph),
           Needs(model, graph, requires_grad), Holds(graph, gradients, td),
           AllSentIn(graph, gradients, <<>>, requires_grad)
    PROVE  AllChained(graph, gradients, td)
  <1> SUFFICES ASSUME NEW l \in model.trained, l \in DOMAIN graph.node
               PROVE  Chained(l, graph, gradients, td)
    BY DEF AllChained
  <1> DEFINE rg == requires_grad
             val == Computed(model, graph)
             n == Len(td)
             k == Len(model.outs)
             x(j) == graph.node[Output(model.outs[j])].ins[1]
             at == [j \in 1..k |-> CHOOSE i \in 1..n : td[i] = x(j)]
             v == [j \in 1..k |-> IF x(j) \in rg THEN Seed[j] ELSE 0]
             d == [i \in 1..n |-> Slope(l, td[i])]
             got == Owed(l, val, gradients, td)
             given == PassedOn(l)
  <1>1. /\ DOMAIN td = 1..n /\ n \in Nat /\ \A i \in 1..n : td[i] \in Forwards(graph)
    BY Entries
  <1>2. /\ DOMAIN model.outs = 1..k /\ k \in Nat /\ \A j \in 1..k : Seed[j] \in Int
    BY SeedsAre
  <1>3. \A j \in 1..k : x(j) \in Forwards(graph)
    <2> SUFFICES ASSUME NEW j \in 1..k PROVE x(j) \in Forwards(graph)
      OBVIOUS
    <2> DEFINE o == Output(model.outs[j])
    <2>1. o \in Forwards(graph) /\ graph.node[o].ins[1] \in ToSet(graph.node[o].ins)
      BY <1>2, OutputNodesAre
    <2> HIDE DEF o
    <2>2. graph.node[o].ins \in Seq(Forwards(graph))
      BY <2>1, ForwardReads
    <2>3. ToSet(graph.node[o].ins) \subseteq Forwards(graph)
      BY <2>2, Entries
    <2> QED
      BY <2>1, <2>3 DEF o
  <1> HIDE DEF x
  <1>4. at \in [1..k -> 1..n] /\ \A j \in 1..k : td[at[j]] = x(j)
    <2> SUFFICES ASSUME NEW j \in 1..k PROVE at[j] \in 1..n /\ td[at[j]] = x(j)
      OBVIOUS
    <2>1. \E i \in 1..n : td[i] = x(j)
      BY <1>1, <1>3 DEF ToSet
    <2> QED
      BY <2>1
  <1>5. v \in [1..k -> Int] /\ \A j \in 1..k : v[j] = IF x(j) \in rg THEN Seed[j] ELSE 0
    BY <1>2
  <1>6. d \in [1..n -> Int] /\ \A i \in 1..n : d[i] = Slope(l, td[i])
    <2>1. \A i \in 1..n : Slope(l, td[i]) \in Int
      BY <1>1, SlopeInt
    <2> QED
      BY <2>1
  <1>7. IntsOn(graph, val)
    BY ComputedInt
  <1>8. got \in [1..n -> Int]
    <2> HIDE DEF val
    <2> QED
      BY <1>7, OwedIs
  <1>9. given \in [1..k -> Int]
        /\ \A j \in 1..k : given[j] = Seed[j] * Derivative(l)[model.outs[j]]
    BY <1>2, PassedOnIs
  <1>10. ASSUME NEW i \in 1..n
         PROVE  got[i] = Total(Portion(k, at, v, i)) * d[i]
    <2>1. got[i] = Brought(val, gradients, td[i]) * Slope(l, td[i])
      BY <1>1 DEF Owed
    <2>2. Brought(val, gradients, td[i]) = Total(SentIn(graph, <<>>, rg, td[i]))
      BY <1>1 DEF AllSentIn
    <2>3. SentIn(graph, <<>>, rg, td[i]) = Portion(k, at, v, i)
      <3> DEFINE s == SentIn(graph, <<>>, rg, td[i])
      <3>1. s = [j \in 1..k |-> IF td[i] \in rg /\ x(j) = td[i] THEN Seed[j] ELSE 0]
        <4>1. ToSet(<<>>) = {}
          BY DEF ToSet
        <4> QED
          BY <1>2, <4>1 DEF SentIn, x
      <3>2. ASSUME NEW j \in 1..k
            PROVE  (IF td[i] \in rg /\ x(j) = td[i] THEN Seed[j] ELSE 0)
                      = IF at[j] = i THEN v[j] ELSE 0
        <4>1. x(j) = td[i] <=> at[j] = i
          <5>1. at[j] \in DOMAIN td /\ i \in DOMAIN td /\ td[at[j]] = x(j)
            BY <1>1, <1>4
          <5> HIDE DEF at
          <5> QED
            BY <5>1 DEF Distinct
        <4> HIDE DEF at, v
        <4> QED
          BY <1>5, <4>1
      <3> HIDE DEF at, v, s
      <3> QED
        BY <3>1, <3>2 DEF Portion, s
    <2>4. d[i] = Slope(l, td[i])
      OBVIOUS
    <2> HIDE DEF got, d, at, v
    <2> QED
      BY <2>1, <2>2, <2>3, <2>4
  <1>11. ASSUME NEW j \in 1..k PROVE given[j] = v[j] * d[at[j]]
    <2>1. Slope(l, x(j)) = Derivative(l)[model.outs[j]]
      BY <1>2, OutputSlope DEF x
    <2>2. x(j) \notin rg => Slope(l, x(j)) = 0
      BY <1>3, SlopeZero
    <2>3. at[j] \in 1..n /\ td[at[j]] = x(j)
      BY <1>4
    <2> HIDE DEF at, d, v, given
    <2>4. d[at[j]] = Slope(l, x(j))
      BY <1>6, <2>3
    <2>5. given[j] = Seed[j] * Slope(l, x(j)) /\ v[j] = IF x(j) \in rg THEN Seed[j] ELSE 0
      BY <1>5, <1>9, <2>1
    <2> DEFINE a == Seed[j]
               s == Slope(l, x(j))
    <2>6. a \in Int
      BY <1>2
    <2>7. given[j] = a * s /\ v[j] = (IF x(j) \in rg THEN a ELSE 0) /\ d[at[j]] = s
      BY <2>4, <2>5
    <2>8. x(j) \notin rg => s = 0
      BY <2>2
    <2> HIDE DEF a, s
    <2>9. CASE x(j) \in rg
      BY <2>7, <2>9
    <2>10. CASE x(j) \notin rg
      <3>1. s = 0 /\ v[j] = 0
        BY <2>7, <2>8, <2>10
      <3>2. a * 0 = 0 /\ 0 * 0 = 0
        BY <2>6
      <3> QED
        BY <2>7, <3>1, <3>2
    <2> QED
      BY <2>9, <2>10
  <1>12. Total(got) = Total(given)
    <2> HIDE DEF at, v, d, got, given
    <2>1. Distributes(n, k, at, v, d, got, given)
      BY <1>1, <1>2, <1>4, <1>5, <1>6, <1>8, <1>9, <1>10, <1>11 DEF Distributes
    <2> HIDE DEF n, k
    <2> QED
      BY ONLY <2>1, TotalDistributes
  <1>13. Kept(l, val, gradients, td) = 0
    <2>1. l \in Leaves
      BY DEF IsTraced
    <2>2. l \in Forwards(graph)
      BY <2>1, LeavesAre DEF Forwards
    <2> QED
      BY <2>2 DEF Kept
  <1>14. Cong(Gradient(l), Total(given)) /\ Gradient(l) \in Int /\ Total(given) \in Int
    <2>1. Gradient(l) \in Residues /\ Residues \subseteq Int
      BY GradientIs, ExactInt
    <2>2. Total(given) \in Int
      BY PassedOnIs, TotalIs
    <2>3. Cong(Gradient(l), Total(given))
      BY GradientIs
    <2> QED
      BY <2>1, <2>2, <2>3
  <1>15. Total(got) + 0 = Total(given)
    <2> HIDE DEF got, given
    <2> QED
      BY <1>12, <1>14
  <1>16. Cong(Total(got) + 0, Gradient(l))
    <2> HIDE DEF got, given
    <2> QED
      BY <1>14, <1>15, CongIs
  <1> QED
    BY <1>13, <1>16 DEF Chained

-----------------------------------------------------------------------------
\* Whoever needs a gradient gets one.

\* Every forward node but the outputs is an operand.
AllReadIn(g) == \A n \in Forwards(g) : TypeOf(n) # "output" => Read(g, n)

\* The first graph has outputs only.
LEMMA ReadFirst ==
    ASSUME AutogradInit
    PROVE  AllReadIn(graph)
  <1>1. IsTraced(model) /\ DOMAIN graph.node = OutputNodes(model)
    BY InitIsTraced, InitIsTracing
  <1>2. OutputNodes(model) = {Output(t) : t \in ToSet(model.outs)}
    BY <1>1, OutputsAre
  <1>3. \A t : TypeOf(Output(t)) = "output"
    BY NamesAre DEF Output
  <1> QED
    BY <1>1, <1>2, <1>3 DEF AllReadIn, Forwards

\* What comes is read, and what was read still is.
LEMMA ReadVisits ==
    ASSUME IsTraced(model), IsTracing(model, graph, todo), VisitTensor, AllReadIn(graph)
    PROVE  AllReadIn(graph')
  <1>1. PICK N, x, fresh : Arrives(model, graph, todo, graph', N, x, fresh)
    BY VisitArrives
  <1>2. todo # <<>>
    BY VisitArrives
  <1> DEFINE user == Head(todo).user
             D == DOMAIN graph.node
  <1>3. user \in D
    BY <1>2, HeadOfTodo
  <1> HIDE DEF user
  <1>4. /\ DOMAIN graph'.node = D \cup N /\ \A n \in N : Read(graph', n)
        /\ \A n \in D \ {user} : graph'.node[n] = graph.node[n]
        /\ graph'.node[user].ins = Append(graph.node[user].ins, x)
    BY Zenon, <1>1 DEF Arrives, Rereads, user
  <1>5. ASSUME NEW n, Read(graph, n) PROVE Read(graph', n)
    <2>1. PICK u \in D : n \in ToSet(graph.node[u].ins)
      BY <1>5 DEF Read
    <2>2. CASE u = user
      <3> DEFINE s == graph.node[user].ins
      <3>1. s \in Seq(D)
        BY <1>3 DEF IsTracing, IsGraph, Records
      <3>2. graph'.node[user].ins = Append(s, x) /\ n \in ToSet(s)
        BY <1>4, <2>1, <2>2
      <3> HIDE DEF s
      <3>3. n \in ToSet(Append(s, x))
        BY <3>1, <3>2, AppendMembers
      <3> QED
        BY <1>3, <1>4, <3>2, <3>3 DEF Read
    <2>3. CASE u # user
      BY <1>4, <2>1, <2>3 DEF Read
    <2> QED
      BY <2>2, <2>3
  <1> SUFFICES ASSUME NEW n \in Forwards(graph'), TypeOf(n) # "output"
               PROVE  Read(graph', n)
    BY DEF AllReadIn
  <1>6. CASE n \in N
    BY <1>4, <1>6
  <1>7. CASE n \in D
    <2>1. n \in Forwards(graph)
      BY <1>7 DEF Forwards
    <2> QED
      BY <1>5, <2>1 DEF AllReadIn
  <1> QED
    BY <1>4, <1>6, <1>7 DEF Forwards

\* While the outputs get their gradients: a node that needs one has one, or is read by
\* an op or by an output whose turn is still to come.
Reaches(g, gr, td, rg) ==
    \A n \in rg : TypeOf(n) = "output" \/ gr[n] # <<>> \/
        \E u \in Forwards(g) : /\ n \in ToSet(g.node[u].ins)
                               /\ TypeOf(u) = "op" \/ u \in ToSet(td)

\* At first nobody has any.
LEMMA ReachesFirst ==
    ASSUME IsTraced(model), Well(graph), Listed(model, graph), IsTrace(model, graph),
           NEW rg, Needs(model, graph, rg), AllReadIn(graph),
           NEW td, td = OfType(graph, "output"), NEW gr
    PROVE  Reaches(graph, gr, td, rg)
  <1>1. ToSet(td) = {x \in DOMAIN graph.node : graph.node[x].type = "output"}
    BY OfTypeIs DEF Well
  <1> SUFFICES ASSUME NEW n \in rg, TypeOf(n) # "output"
               PROVE  \E u \in Forwards(graph) : /\ n \in ToSet(graph.node[u].ins)
                                                 /\ TypeOf(u) = "op" \/ u \in ToSet(td)
    BY DEF Reaches
  <1>2. n \in Forwards(graph)
    BY DEF Needs, Forwards
  <1>3. PICK u \in DOMAIN graph.node : n \in ToSet(graph.node[u].ins)
    BY <1>2 DEF AllReadIn, Read
  <1>4. /\ TraceName(model, graph, u) /\ graph.node[u].type = TypeOf(u)
        /\ graph.node[u].ins \in Seq(DOMAIN graph.node)
        /\ u \in Leaves <=> graph.node[u].type = "input"
    BY TraceReads DEF IsTrace
  <1>5. u \notin Leaves
    <2>1. u \in Leaves => graph.node[u].ins = <<>>
      BY DEF IsTrace, ReadsAsTraced
    <2> QED
      BY <1>3, <2>1 DEF ToSet
  <1>6. EpochOf(u) = "fwd" /\ TypeOf(u) \in {"op", "output"}
    BY <1>4, <1>5, TraceKinds
  <1> QED
    BY <1>1, <1>3, <1>4, <1>6 DEF Forwards

\* An output that passes no gradient on reads nothing that needs one.
LEMMA ReachesSkipped ==
    ASSUME IsTraced(model), Well(graph), Listed(model, graph),
           IsSeeding(model, graph, todo, requires_grad, gradients), todo # <<>>,
           graph.node[Head(todo)].ins[1] \notin requires_grad,
           Reaches(graph, gradients, todo, requires_grad)
    PROVE  Reaches(graph, gradients, Tail(todo), requires_grad)
  <1> DEFINE o == Head(todo)
  <1>1. ToSet(todo) = {o} \cup ToSet(Tail(todo)) /\ o \in OutputNodes(model)
    BY Rest DEF IsSeeding
  <1>2. o \in DOMAIN graph.node /\ graph.node[o].type = "output"
    BY <1>1, OutputNodesAre
  <1>3. graph.node[o].ins \in Seq(DOMAIN graph.node) /\ Len(graph.node[o].ins) = 1
    BY <1>2 DEF Well, IsGraph, Records, Whole, Fits, Ports
  <1>4. \A n \in ToSet(graph.node[o].ins) : n = graph.node[o].ins[1]
    <2> DEFINE s == graph.node[o].ins
    <2>1. s \in Seq(DOMAIN graph.node) /\ Len(s) = 1
      BY <1>3
    <2> HIDE DEF s
    <2>2. \A n \in ToSet(s) : n = s[1]
      BY <2>1 DEF ToSet
    <2> QED
      BY <2>2 DEF s
  <1>5. graph.node[o].ins[1] \notin requires_grad
    OBVIOUS
  <1> HIDE DEF o
  <1> QED
    BY <1>1, <1>4, <1>5 DEF Reaches

\* An output that passes a gradient on passes it to what it reads.
LEMMA ReachesSent ==
    ASSUME IsTraced(model), Well(graph), Listed(model, graph),
           IsSeeding(model, graph, todo, requires_grad, gradients), todo # <<>>,
           NEW o, o = Head(todo), NEW p, p = graph.node[o].ins[1], p \in requires_grad,
           NEW grad, NEW h, SameForwards(graph, h),
           NEW gr, gr = OneMore(gradients, p, grad),
           Reaches(graph, gradients, todo, requires_grad)
    PROVE  Reaches(h, gr, Tail(todo), requires_grad)
  <1>1. ToSet(todo) = {o} \cup ToSet(Tail(todo)) /\ o \in OutputNodes(model)
    BY Rest DEF IsSeeding
  <1>2. o \in DOMAIN graph.node /\ graph.node[o].type = "output"
    BY <1>1, OutputNodesAre
  <1>3. graph.node[o].ins \in Seq(DOMAIN graph.node) /\ Len(graph.node[o].ins) = 1
    BY <1>2 DEF Well, IsGraph, Records, Whole, Fits, Ports
  <1>4. \A n \in ToSet(graph.node[o].ins) : n = p
    <2> DEFINE s == graph.node[o].ins
    <2>1. s \in Seq(DOMAIN graph.node) /\ Len(s) = 1 /\ p = s[1]
      BY <1>3
    <2> HIDE DEF s
    <2>2. \A n \in ToSet(s) : n = s[1]
      BY <2>1 DEF ToSet
    <2> QED
      BY <2>1, <2>2 DEF s
  <1>5. /\ DOMAIN gradients = Forwards(graph) /\ p \in Forwards(graph)
        /\ \A x \in Forwards(graph) : gradients[x] \in Seq(DOMAIN graph.node)
        /\ requires_grad \subseteq Forwards(graph)
    BY DEF IsSeeding, Gathered, Needs, Forwards
  <1>6. gr[p] # <<>> /\ \A x \in Forwards(graph) : x # p => gr[x] = gradients[x]
    <2>1. gr[p] = Append(gradients[p], grad)
      BY <1>5 DEF OneMore
    <2> DEFINE s == gradients[p]
    <2>2. s \in Seq(DOMAIN graph.node)
      BY <1>5
    <2> HIDE DEF s
    <2>3. grad \in ToSet(Append(s, grad)) /\ ToSet(<<>>) = {}
      <3>1. ToSet(<<>>) = {}
        BY DEF ToSet
      <3> QED
        BY <2>2, <3>1, AppendMembers
    <2>4. Append(s, grad) # <<>>
      BY ONLY <2>3
    <2>5. gr[p] # <<>>
      BY Zenon, <2>1, <2>4 DEF s
    <2>6. \A x \in Forwards(graph) : x # p => gr[x] = gradients[x]
      BY <1>5 DEF OneMore
    <2> QED
      BY <2>5, <2>6
  <1>7. Forwards(h) = Forwards(graph) /\ \A u \in Forwards(graph) : h.node[u] = graph.node[u]
    BY DEF SameForwards
  <1> SUFFICES ASSUME NEW n \in requires_grad, TypeOf(n) # "output", n # p, gradients[n] = <<>>
               PROVE  \E u \in Forwards(graph) : /\ n \in ToSet(graph.node[u].ins)
                                                 /\ TypeOf(u) = "op" \/ u \in ToSet(Tail(todo))
    BY <1>5, <1>6, <1>7 DEF Reaches
  <1>8. PICK u \in Forwards(graph) : /\ n \in ToSet(graph.node[u].ins)
                                     /\ TypeOf(u) = "op" \/ u \in ToSet(todo)
    BY DEF Reaches
  <1>9. u # o
    BY <1>4, <1>8
  <1> QED
    BY <1>1, <1>8, <1>9

\* A node that needs a gradient has one, or is read by an op whose turn is still to come.
ReachesBack(g, gr, td, rg) ==
    \A n \in rg : TypeOf(n) = "output" \/ gr[n] # <<>> \/
        \E u \in ToSet(td) : TypeOf(u) = "op" /\ n \in ToSet(g.node[u].ins)

\* Once every output had its turn.
LEMMA ReachesOn ==
    ASSUME NEW g, NEW gr, NEW rg, Reaches(g, gr, <<>>, rg), NEW td, ToSet(td) = Forwards(g)
    PROVE  ReachesBack(g, gr, td, rg)
  <1>1. ToSet(<<>>) = {}
    BY DEF ToSet
  <1> QED
    BY <1>1 DEF Reaches, ReachesBack

\* An op that needs a gradient has one when its turn comes: nobody is left to hand it one.
LEMMA HeadHas ==
    ASSUME Well(graph), IsDifferentiating(model, graph, todo, requires_grad, gradients),
           todo # <<>>, NEW n, n = Head(todo), TypeOf(n) = "op", n \in requires_grad,
           ReachesBack(graph, gradients, todo, requires_grad)
    PROVE  gradients[n] # <<>>
  <1> SUFFICES ASSUME gradients[n] = <<>> PROVE FALSE
    OBVIOUS
  <1> DEFINE td == todo
  <1>1. /\ td \in Seq(DOMAIN gradients) /\ Distinct(td)
        /\ \A i \in DOMAIN td : \A x \in ToSet(graph.node[td[i]].ins) :
              \E j \in DOMAIN td : i < j /\ td[j] = x
    BY DEF IsDifferentiating
  <1>2. PICK u \in ToSet(td) : n \in ToSet(graph.node[u].ins)
    BY DEF ReachesBack
  <1>3. PICK i \in DOMAIN td : td[i] = u
    BY <1>2 DEF ToSet
  <1>4. PICK j \in DOMAIN td : i < j /\ td[j] = n
    BY <1>1, <1>2, <1>3
  <1>5. n = td[1] /\ DOMAIN td = 1..Len(td) /\ Len(td) \in Nat \ {0}
    BY <1>1, Rest
  <1>6. 1 \in DOMAIN td
    BY <1>5
  <1>7. j = 1
    BY <1>1, <1>4, <1>5, <1>6 DEF Distinct
  <1> QED
    BY <1>4, <1>5, <1>7

\* The turn of a node that leaves every gradient, and hands one to each operand that
\* needs it.
LEMMA BackPasses ==
    ASSUME Well(graph), IsDifferentiating(model, graph, todo, requires_grad, gradients),
           todo # <<>>, NEW n, n = Head(todo),
           ReachesBack(graph, gradients, todo, requires_grad),
           NEW h, SameForwards(graph, h), NEW gr,
           \A x \in requires_grad : gradients[x] # <<>> => gr[x] # <<>>,
           TypeOf(n) = "op" =>
               \A x \in requires_grad : x \in ToSet(graph.node[n].ins) => gr[x] # <<>>
    PROVE  ReachesBack(h, gr, Tail(todo), requires_grad)
  <1>1. ToSet(todo) = {n} \cup ToSet(Tail(todo)) /\ ToSet(todo) \subseteq Forwards(graph)
    <2>1. ToSet(todo) = {n} \cup ToSet(Tail(todo))
      BY TurnOf
    <2>2. todo \in Seq(Forwards(graph))
      BY HoldsDuring DEF Holds
    <2> QED
      BY <2>1, <2>2, Entries
  <1>2. \A u \in Forwards(graph) : h.node[u] = graph.node[u]
    BY DEF SameForwards
  <1> QED
    BY <1>1, <1>2 DEF ReachesBack

\* So whoever needs a gradient gets one.
LEMMA ReachesBackKeeps ==
    ASSUME IsTraced(model), Well(graph), Listed(model, graph),
           IsDifferentiating(model, graph, todo, requires_grad, gradients), Differentiate,
           ReachesBack(graph, gradients, todo, requires_grad)
    PROVE  ReachesBack(graph', gradients', todo', requires_grad)
  <1> DEFINE n == Head(todo)
             h == graph'
             gr == gradients'
             ins == graph.node[n].ins
  <1>1. todo # <<>> /\ todo' = Tail(todo) /\ (PassesOver(n) \/ PassesBack(n) \/ PassesOut(n))
    BY DifferentiateTurns
  <1>2. SameForwards(graph, h)
    BY DifferentiateKeeps
  <1>3. /\ n \in DOMAIN gradients /\ n \in DOMAIN graph.node /\ EpochOf(n) = "fwd"
        /\ \A x \in ToSet(ins) : x \in DOMAIN gradients /\ x # n
        /\ DOMAIN gradients = Forwards(graph) /\ requires_grad \subseteq Forwards(graph)
    <2>1. DOMAIN gradients = Forwards(graph)
      BY HoldsDuring DEF Holds
    <2>2. requires_grad \subseteq Forwards(graph)
      BY DEF IsDifferentiating, Needs, Forwards
    <2> QED
      BY <1>1, <2>1, <2>2, TurnOf
  <1>4. CASE PassesOver(n)
    <2>1. h = graph /\ gr = gradients /\ gradients[n] = <<>>
      BY <1>4 DEF PassesOver
    <2>2. TypeOf(n) = "op" => \A x \in requires_grad : x \notin ToSet(ins)
      <3> SUFFICES ASSUME TypeOf(n) = "op", NEW x \in requires_grad, x \in ToSet(ins)
                   PROVE  FALSE
        OBVIOUS
      <3>1. n \notin Leaves
        BY DEF TypeOf
      <3>2. n \in requires_grad
        BY <1>3, <3>1 DEF IsDifferentiating, Needs
      <3> QED
        BY <1>1, <2>1, <3>2, HeadHas
    <2> HIDE DEF n, h, gr, ins
    <2>3. ReachesBack(h, gr, Tail(todo), requires_grad)
      BY <1>1, <1>2, <2>1, <2>2, BackPasses DEF n, ins
    <2> QED
      BY <1>1, <2>3 DEF h, gr
  <1>5. CASE PassesOut(n)
    <2>1. gr = [gradients EXCEPT ![n] = <<Sink(n)>>] /\ n \in Leaves
      BY <1>5 DEF PassesOut, IsTraced
    <2>2. \A x \in requires_grad : gradients[x] # <<>> => gr[x] # <<>>
      <3>1. \A x \in DOMAIN gradients : gr[x] = IF x = n THEN <<Sink(n)>> ELSE gradients[x]
        BY <2>1
      <3>2. <<Sink(n)>> # <<>>
        OBVIOUS
      <3> HIDE DEF gr, n
      <3> QED
        BY <1>3, <3>1, <3>2
    <2>3. TypeOf(n) # "op"
      BY <2>1 DEF TypeOf
    <2> HIDE DEF n, h, gr, ins
    <2>4. ReachesBack(h, gr, Tail(todo), requires_grad)
      BY <1>1, <1>2, <2>2, <2>3, BackPasses DEF n
    <2> QED
      BY <1>1, <2>4 DEF h, gr
  <1>6. CASE PassesBack(n)
    <2> DEFINE B == BackwardOps(n)
               c == Sum(n, Len(gradients[n]))
    <2>1. gr = HandedOn(n, c) /\ TypeOf(n) = "op" /\ gradients[n] # <<>>
      BY <1>6 DEF PassesBack
    <2>2. \A x \in DOMAIN gradients :
             gr[x] = IF x = n THEN <<c>>
                     ELSE gradients[x] \o Only(B, {b \in ToSet(B) : ins[b[3]] = x})
      BY <2>1 DEF HandedOn
    <2>3. /\ B \in Seq(ToSet(B))
          /\ \A p \in DOMAIN ins : ins[p] \in requires_grad => <<"bw", n, p>> \in ToSet(B)
      BY <1>3, BackwardOpsOf DEF Well
    <2>4. \A x \in Forwards(graph) : gradients[x] \in Seq(DOMAIN graph.node)
      BY HoldsDuring DEF Holds
    <2> HIDE DEF B, c, gr, ins, n
    <2>5. ASSUME NEW x \in requires_grad, x # n
          PROVE  /\ gradients[x] # <<>> => gr[x] # <<>>
                 /\ x \in ToSet(ins) => gr[x] # <<>>
      <3> DEFINE s == gradients[x]
                 S == {b \in ToSet(B) : ins[b[3]] = x}
                 t == Only(B, S)
      <3>1. s \in Seq(DOMAIN graph.node) /\ t \in Seq(ToSet(B)) /\ ToSet(t) = ToSet(B) \cap S
        BY <1>3, <2>3, <2>4, OnlyMembers
      <3>2. gr[x] = s \o t
        BY <1>3, <2>2, <2>5
      <3>3. x \in ToSet(ins) => t # <<>>
        <4> SUFFICES ASSUME x \in ToSet(ins) PROVE t # <<>>
          OBVIOUS
        <4>1. PICK p \in DOMAIN ins : ins[p] = x
          BY DEF ToSet
        <4>2. <<"bw", n, p>> \in ToSet(B)
          BY <2>3, <4>1
        <4>3. <<"bw", n, p>> \in S
          BY <4>1, <4>2
        <4>4. <<"bw", n, p>> \in ToSet(t)
          BY <3>1, <4>2, <4>3
        <4>5. ToSet(<<>>) = {}
          BY DEF ToSet
        <4> QED
          BY ONLY <4>4, <4>5
      <3> DEFINE T == DOMAIN graph.node \cup ToSet(B)
      <3>4. s \in Seq(T) /\ t \in Seq(T)
        BY <3>1
      <3> HIDE DEF s, t, S, T
      <3>5. s # <<>> \/ t # <<>> => s \o t # <<>>
        BY <3>4
      <3> QED
        BY <3>2, <3>3, <3>5 DEF s
    <2>6. gr[n] # <<>>
      <3>1. <<c>> # <<>>
        OBVIOUS
      <3> QED
        BY <1>3, <2>2, <3>1
    <2>7. n \notin ToSet(ins)
      BY <1>3
    <2> HIDE DEF h
    <2>8. ReachesBack(h, gr, Tail(todo), requires_grad)
      BY <1>1, <1>2, <2>5, <2>6, <2>7, BackPasses DEF n, ins
    <2> QED
      BY <1>1, <2>8 DEF h, gr
  <1> QED
    BY <1>1, <1>4, <1>5, <1>6

-----------------------------------------------------------------------------
\* The gradients stay complete: optimizer, passes, clones and the removal of Nops.

\* Every trained leaf has one gradient, which leaves the graph and is the leaf's.
Completed(g, gr) ==
    \A l \in model.trained \cap DOMAIN g.node :
        /\ Sink(l) \in DOMAIN g.node /\ gr[l] = <<Sink(l)>>
        /\ Computed(model, g)[Sink(l)] = Gradient(l)

\* When nothing is left to differentiate, what the leaves have is all of their gradients.
LEMMA ChainEnds ==
    ASSUME IsTraced(model), Well(graph), Listed(model, graph), Follows(model, graph),
           todo = <<>>, IsDifferentiating(model, graph, todo, requires_grad, gradients),
           AllChained(graph, gradients, todo),
           ReachesBack(graph, gradients, todo, requires_grad)
    PROVE  Completed(graph, gradients)
  <1> SUFFICES ASSUME NEW l \in model.trained, l \in DOMAIN graph.node
               PROVE  /\ Sink(l) \in DOMAIN graph.node /\ gradients[l] = <<Sink(l)>>
                      /\ Computed(model, graph)[Sink(l)] = Gradient(l)
    BY DEF Completed
  <1> DEFINE val == Computed(model, graph)
             s == Sink(l)
  <1>1. l \in Leaves /\ l \in Forwards(graph) /\ TypeOf(l) = "input"
    BY DEF IsTraced, Forwards, EpochOf, TypeOf
  <1>2. ToSet(todo) = {}
    BY DEF ToSet
  <1>3. Holds(graph, gradients, todo) /\ Needs(model, graph, requires_grad)
    BY HoldsDuring
  <1>4. l \in requires_grad
    BY <1>1, <1>3 DEF Needs, Forwards
  <1>5. gradients[l] # <<>>
    BY <1>1, <1>2, <1>4 DEF ReachesBack
  <1>6. gradients[l] = <<s>>
    <2>1. Sunk(model, gradients, DOMAIN gradients \ ToSet(todo)) /\ l \in DOMAIN gradients
      BY <1>1, <1>3 DEF IsDifferentiating, Holds
    <2> QED
      BY <1>2, <1>5, <2>1 DEF Sunk
  <1>7. gradients[l] \in Seq(DOMAIN graph.node)
    BY <1>1, <1>3 DEF Holds
  <1>8. s \in DOMAIN graph.node
    <2> HIDE DEF s
    <2>1. <<s>> \in Seq(DOMAIN graph.node) /\ 1 \in DOMAIN <<s>> /\ <<s>>[1] = s
      BY <1>6, <1>7
    <2>2. <<s>>[1] \in DOMAIN graph.node
      BY <2>1, Entries
    <2> QED
      BY <2>1, <2>2
  <1>9. Chained(l, graph, gradients, todo)
    BY DEF AllChained
  <1>10. IntsOn(graph, val) /\ val[s] \in Residues /\ val[s] \in Int
    BY <1>8, ComputedAre, ComputedInt DEF IntsOn
  <1> HIDE DEF val, s
  <1>11. Total(Owed(l, val, gradients, todo)) = 0
    <2> DEFINE o == Owed(l, val, gradients, todo)
    <2>1. o \in [1..Len(todo) -> Int]
      BY <1>3, <1>10, OwedIs
    <2>2. o \in Seq(Int) /\ Len(o) = Len(todo)
      <3>1. Len(todo) \in Nat
        OBVIOUS
      <3> HIDE DEF o
      <3> QED
        BY <2>1, <3>1, ListIs
    <2> HIDE DEF o
    <2>3. o = <<>>
      BY <2>2
    <2>4. Total(o) = 0
      BY <2>2, <2>3, TotalIs
    <2> QED
      BY <2>4 DEF o
  <1>12. Kept(l, val, gradients, todo) = val[s]
    <2>1. Kept(l, val, gradients, todo) = Total(Mapped(val, <<s>>))
      BY <1>2, <1>6 DEF Kept, Brought
    <2> DEFINE v == Mapped(val, <<s>>)
    <2>2. v \in [1..1 -> Int] /\ v[1] = val[s]
      BY <1>10 DEF Mapped
    <2> HIDE DEF v
    <2>3. Total(v) = val[s]
      BY <2>2, TotalFew
    <2> QED
      BY <2>1, <2>3 DEF v
  <1>13. Cong(0 + val[s], Gradient(l))
    BY <1>9, <1>11, <1>12 DEF Chained, val
  <1>14. Gradient(l) \in Residues
    BY GradientIs
  <1>15. val[s] = Gradient(l)
    <2>1. 0 + val[s] = val[s]
      BY <1>10
    <2>2. Cong(val[s], Gradient(l))
      BY <1>13, <2>1
    <2> QED
      BY <1>10, <1>14, <2>2, CongMod DEF Residues
  <1> QED
    BY <1>6, <1>8, <1>15 DEF val, s

\* The gradients of trained leaves are in h, and h computes for them what g does.
ComputesAlike(g, h) ==
    \A l \in model.trained \cap DOMAIN h.node :
        /\ l \in DOMAIN g.node
        /\ Sink(l) \in DOMAIN g.node =>
              /\ Sink(l) \in DOMAIN h.node
              /\ Computed(model, h)[Sink(l)] = Computed(model, g)[Sink(l)]

\* Then what was complete still is.
LEMMA CompletedStays ==
    ASSUME NEW g, NEW gr, Completed(g, gr), NEW h, ComputesAlike(g, h)
    PROVE  Completed(h, gr)
  BY DEF Completed, ComputesAlike

\* The optimizer adds nodes.
LEMMA OptimizeComputes ==
    ASSUME IsTraced(model), Well(graph), Listed(model, graph),
           IsOptimizing(model, graph, todo, gradients, loopback), OptimizeParameter,
           Completed(graph, gradients)
    PROVE  Completed(graph', gradients)
  <1> DEFINE h == graph'
  <1>1. Well(h) /\ Listed(model, h) /\ SameForwards(graph, h) /\ StaysIn(graph, h)
    BY OptimizeKeeps
  <1> HIDE DEF h
  <1>2. \A n \in DOMAIN graph.node :
           n \in DOMAIN h.node /\ Computed(model, h)[n] = Computed(model, graph)[n]
    BY <1>1, ComputedGrows DEF StaysIn
  <1>3. \A l \in model.trained \cap DOMAIN h.node : l \in DOMAIN graph.node
    <2>1. \A l \in model.trained : EpochOf(l) = "fwd"
      BY DEF IsTraced, EpochOf
    <2> QED
      BY <1>1, <2>1 DEF SameForwards, Forwards
  <1>4. ComputesAlike(graph, h)
    BY <1>2, <1>3 DEF ComputesAlike
  <1> QED
    BY <1>4, CompletedStays DEF h

\* The node a clone is a clone of; every other node is its own.
Cloned(n) == IF OneOf(n, {"recompute"}) THEN n[2] ELSE n

\* Operands that are cloned have what their clones have.
LEMMA ClonesMapped ==
    ASSUME NEW D, NEW s \in Seq(D), \A x \in D : ~OneOf(x, {"recompute"}),
           NEW O, NEW t, IsCloning(s, t, O), NEW val, NEW f,
           \A x \in D : f[x] = val[x], \A x \in O \cap D : f[<<"recompute", x>>] = val[x]
    PROVE  Mapped(f, t) = Mapped(val, s) /\ (1 \in DOMAIN s => f[t[1]] = val[s[1]])
  <1>1. \A i \in DOMAIN s : s[i] \in D
    BY Entries
  <1>2. t = [i \in DOMAIN s |-> IF s[i] \in O THEN <<"recompute", s[i]>> ELSE s[i]]
    BY DEF IsCloning
  <1>3. \A i \in DOMAIN s : f[t[i]] = val[s[i]]
    BY <1>1, <1>2
  <1>4. DOMAIN t = DOMAIN s
    BY <1>2
  <1> QED
    BY <1>3, <1>4 DEF Mapped

\* A graph with clones computes for each of its nodes what the graph without them did,
\* and for each clone what its op computes.
LEMMA ClonesCompute ==
    ASSUME IsTraced(model), NEW g, Well(g), Listed(model, g),
           \A n \in DOMAIN g.node : ~OneOf(n, {"recompute"}),
           NEW h, Well(h), Listed(model, h), IsRecomputed(g, h, ForwardOps(g))
    PROVE  \A n \in DOMAIN g.node :
              n \in DOMAIN h.node /\ Computed(model, h)[n] = Computed(model, g)[n]
  <1> DEFINE D == DOMAIN g.node
             O == ForwardOps(g)
             val == Computed(model, g)
             f == [n \in DOMAIN h.node |-> val[Cloned(n)]]
  <1>1. /\ DOMAIN h.node = D \cup {<<"recompute", x>> : x \in O}
        /\ \A n \in D : IF EpochOf(n) = "bwd"
                        THEN /\ Rereads(h.node[n], g.node[n], h.node[n].ins)
                             /\ Recloned(g.node[n].ins, h.node[n].ins, O)
                        ELSE h.node[n] = g.node[n]
        /\ \A x \in O : /\ h.node[<<"recompute", x>>].role = g.node[x].role
                        /\ Recloned(g.node[x].ins, h.node[<<"recompute", x>>].ins, O)
    BY DEF IsRecomputed
  <1>2. O \subseteq D /\ \A x \in O : TypeOf(x) = "op"
    BY DEF ForwardOps
  <1>3. \A x : OneOf(<<"recompute", x>>, {"recompute"}) /\ TypeOf(<<"recompute", x>>) = "op"
    <2>1. \A x : OneOf(<<"recompute", x>>, {"recompute"})
      BY NotLeaves DEF OneOf
    <2>2. \A x : OneOf(<<"recompute", x>>, {"bw", "combine", "recompute"})
      BY <2>1 DEF OneOf
    <2> QED
      BY <2>1, <2>2, BackwardOpsAre
  <1>4. (\A n \in D : Cloned(n) = n) /\ \A x \in O : Cloned(<<"recompute", x>>) = x
    BY <1>3 DEF Cloned
  <1>5. (\A n \in D : f[n] = val[n]) /\ \A x \in O : f[<<"recompute", x>>] = val[x]
    BY <1>1, <1>4
  <1>6. \A n \in D : val[n] = Value(model, g, val, n)
    BY ComputedAre DEF Runs
  <1>7. \A n \in D : g.node[n].ins \in Seq(D) /\ (TypeOf(n) # "input" => 1 \in DOMAIN g.node[n].ins)
    BY ComputedRuns
  <1> HIDE DEF f, val, O
  <1>8. ASSUME NEW n \in D, NEW t, IsCloning(g.node[n].ins, t, O) \/ t = g.node[n].ins
        PROVE  /\ Mapped(f, t) = Mapped(val, g.node[n].ins)
               /\ TypeOf(n) # "input" => f[t[1]] = val[g.node[n].ins[1]]
    <2> DEFINE s == g.node[n].ins
    <2>1. s \in Seq(D) /\ (TypeOf(n) # "input" => 1 \in DOMAIN s)
      BY <1>7
    <2>2. IsCloning(s, t, O) \/ t = s
      BY <1>8
    <2> HIDE DEF s
    <2>3. CASE IsCloning(s, t, O)
      <3>1. Mapped(f, t) = Mapped(val, s) /\ (1 \in DOMAIN s => f[t[1]] = val[s[1]])
        BY <1>5, <2>1, <2>3, ClonesMapped
      <3> QED
        BY <2>1, <3>1 DEF s
    <2>4. CASE t = s
      <3>1. \A i \in DOMAIN s : f[s[i]] = val[s[i]]
        BY <1>5, <2>1, Entries
      <3>2. Mapped(f, s) = Mapped(val, s) /\ (1 \in DOMAIN s => f[s[1]] = val[s[1]])
        BY <3>1 DEF Mapped
      <3> QED
        BY <2>1, <2>4, <3>2 DEF s
    <2> QED
      BY <2>2, <2>3, <2>4
  <1>9. ASSUME NEW n \in D PROVE f[n] = Value(model, h, f, n)
    <2> DEFINE t == h.node[n].ins
    <2>1. /\ IsCloning(g.node[n].ins, t, O) \/ t = g.node[n].ins
          /\ h.node[n].role = g.node[n].role
      BY <1>1 DEF Rereads, Recloned
    <2> HIDE DEF t
    <2>2. /\ Mapped(f, t) = Mapped(val, g.node[n].ins)
          /\ TypeOf(n) # "input" => f[t[1]] = val[g.node[n].ins[1]]
      BY <1>8, <2>1
    <2>3. Value(model, h, f, n) = Value(model, g, val, n)
      <3>1. CASE TypeOf(n) = "input"
        BY <3>1 DEF Value
      <3>2. CASE TypeOf(n) = "op"
        BY <2>1, <2>2, <3>2 DEF Value, t
      <3>3. CASE TypeOf(n) \notin {"input", "op"}
        BY <2>2, <3>3 DEF Value, t
      <3> QED
        BY <3>1, <3>2, <3>3
    <2> QED
      BY <1>5, <1>6, <2>3
  <1>10. ASSUME NEW x \in O
         PROVE  f[<<"recompute", x>>] = Value(model, h, f, <<"recompute", x>>)
    <2> DEFINE c == <<"recompute", x>>
               t == h.node[c].ins
    <2>1. IsCloning(g.node[x].ins, t, O) /\ h.node[c].role = g.node[x].role /\ TypeOf(c) = "op"
      BY <1>1, <1>3 DEF Recloned
    <2>2. x \in D /\ TypeOf(x) = "op" /\ f[c] = val[x]
      BY <1>2, <1>5
    <2> HIDE DEF t, c
    <2>3. Mapped(f, t) = Mapped(val, g.node[x].ins)
      BY <1>8, <2>1, <2>2
    <2>4. Value(model, h, f, c) = Apply(g.node[x].role, Mapped(f, t))
      BY <2>1 DEF Value, t
    <2>5. Value(model, g, val, x) = Apply(g.node[x].role, Mapped(val, g.node[x].ins))
      BY <2>2 DEF Value
    <2> QED
      BY <1>6, <2>2, <2>3, <2>4, <2>5 DEF c
  <1>11. Runs(model, h, f)
    BY <1>1, <1>9, <1>10 DEF Runs
  <1>12. \A n \in DOMAIN h.node : f[n] = Computed(model, h)[n]
    BY <1>11, ComputedOnly
  <1> QED
    BY <1>1, <1>5, <1>12 DEF val

\* Nothing is lost when the backward pass reads clones.
LEMMA RecomputeComputes ==
    ASSUME IsTraced(model), Well(graph), Listed(model, graph),
           IsOptimizing(model, graph, todo, gradients, loopback), InsertRecomputeOps,
           Completed(graph, gradients)
    PROVE  Completed(graph', gradients)
  <1>1. CASE model.recompute
    <2> DEFINE k == graph'
    <2>1. PICK h : Recomputes(h)
      BY <1>1, RecomputesOnce
    <2>2. /\ IsRecomputed(graph, h, ForwardOps(graph)) /\ Well(h) /\ Listed(model, h)
          /\ OnlyClonesGone(h, k) /\ Well(k) /\ Listed(model, k)
      BY <2>1 DEF Recomputes
    <2>3. \A n \in DOMAIN graph.node : ~OneOf(n, {"recompute"})
      BY DEF IsOptimizing, OnlyKinds, OneOf
    <2> HIDE DEF k
    <2>4. \A n \in DOMAIN graph.node :
             n \in DOMAIN h.node /\ Computed(model, h)[n] = Computed(model, graph)[n]
      BY <2>2, <2>3, ClonesCompute
    <2>5. \A n \in DOMAIN k.node : Computed(model, h)[n] = Computed(model, k)[n]
      BY <2>2, ComputedGrows DEF OnlyClonesGone
    <2>6. ASSUME NEW l \in model.trained, l \in DOMAIN k.node PROVE l \in DOMAIN graph.node
      <3>1. l \in Leaves
        BY DEF IsTraced
      <3>2. l \in DOMAIN h.node
        BY <2>2, <2>6 DEF OnlyClonesGone
      <3>3. \A x : <<"recompute", x>> # l
        BY <3>1, NotLeaves
      <3> QED
        BY <2>2, <3>2, <3>3 DEF IsRecomputed
    <2>7. \A n \in DOMAIN graph.node : n \in DOMAIN k.node
      BY <2>2, <2>3, <2>4 DEF OnlyClonesGone
    <2>8. ComputesAlike(graph, k)
      BY <2>4, <2>5, <2>6, <2>7 DEF ComputesAlike
    <2> QED
      BY <2>8, CompletedStays DEF k
  <1>2. CASE ~model.recompute
    BY <1>2 DEF InsertRecomputeOps
  <1> QED
    BY <1>1, <1>2

\* Where a Nop is read, its operand has the same element.
LEMMA BypassComputes ==
    ASSUME NEW m, IsTraced(m), NEW g, NEW lb, Well(g), Listed(m, g), IsTrainable(m, g, lb),
           NEW n \in DOMAIN g.node, g.node[n].role = "Nop", NEW h, h = Bypassed(g, n)
    PROVE  \A u \in DOMAIN g.node \ {n} :
              u \in DOMAIN h.node /\ Computed(m, h)[u] = Computed(m, g)[u]
  <1> DEFINE x == g.node[n].ins[1]
             val == Computed(m, g)
  <1>1. /\ Well(h) /\ Listed(m, h) /\ DOMAIN h.node = DOMAIN g.node \ {n}
        /\ \A u \in DOMAIN h.node :
              Rereads(h.node[u], g.node[u], Replaced(g.node[u].ins, n, x))
    BY BypassKeeps
  <1>2. TypeOf(n) = "op" /\ g.node[n].ins \in Seq(DOMAIN g.node) /\ Len(g.node[n].ins) = 1
    BY NopIs DEF IsTrainable
  <1>3. \A u \in DOMAIN g.node : val[u] = Value(m, g, val, u)
    BY ComputedAre DEF Runs
  <1>4. \A u \in DOMAIN g.node : TypeOf(u) # "input" => 1 \in DOMAIN g.node[u].ins
    BY ComputedRuns
  <1> HIDE DEF val
  <1>5. val[n] = val[x]
    <2>1. val[n] = Apply("Nop", Mapped(val, g.node[n].ins))
      BY <1>2, <1>3 DEF Value
    <2>2. Mapped(val, g.node[n].ins)[1] = val[x]
      <3>1. 1 \in DOMAIN g.node[n].ins
        BY <1>2, <1>4
      <3> QED
        BY <3>1 DEF Mapped
    <2>3. Apply("Nop", Mapped(val, g.node[n].ins)) = Mapped(val, g.node[n].ins)[1]
      BY NopApplied
    <2> QED
      BY <2>1, <2>2, <2>3
  <1> HIDE DEF x
  <1>6. ASSUME NEW u \in DOMAIN h.node PROVE val[u] = Value(m, h, val, u)
    <2> DEFINE s == g.node[u].ins
               t == h.node[u].ins
    <2>1. t = Replaced(s, n, x) /\ h.node[u].role = g.node[u].role /\ u \in DOMAIN g.node
      BY <1>1 DEF Rereads
    <2>2. TypeOf(u) # "input" => 1 \in DOMAIN s
      BY <1>4, <2>1
    <2> HIDE DEF s, t
    <2>3. DOMAIN t = DOMAIN s /\ \A i \in DOMAIN s : val[t[i]] = val[s[i]]
      BY <1>5, <2>1 DEF Replaced
    <2>4. Mapped(val, t) = Mapped(val, s) /\ (TypeOf(u) # "input" => val[t[1]] = val[s[1]])
      BY <2>2, <2>3 DEF Mapped
    <2>5. Value(m, h, val, u) = Value(m, g, val, u)
      BY <2>1, <2>4 DEF Value, s, t
    <2> QED
      BY <1>3, <2>1, <2>5
  <1>7. Runs(m, h, val)
    BY <1>6 DEF Runs
  <1>8. \A u \in DOMAIN h.node : val[u] = Computed(m, h)[u]
    BY <1>1, <1>7, ComputedOnly
  <1> QED
    BY <1>1, <1>8 DEF val

\* Nothing is lost when a Nop goes.
LEMMA RemoveNopComputes ==
    ASSUME IsTraced(model), Well(graph), Listed(model, graph),
           IsTrainable(model, graph, loopback), IsRemoving(graph, todo), RemoveNop,
           Completed(graph, gradients)
    PROVE  Completed(graph', gradients)
  <1> DEFINE n == Head(todo)
             h == graph'
  <1>1. todo # <<>> /\ h = Bypassed(graph, n)
    BY DEF RemoveNop
  <1>2. n \in DOMAIN graph.node /\ graph.node[n].role = "Nop"
    BY <1>1, Rest DEF IsRemoving
  <1> HIDE DEF n, h
  <1>3. \A u \in DOMAIN graph.node \ {n} :
           u \in DOMAIN h.node /\ Computed(model, h)[u] = Computed(model, graph)[u]
    BY <1>1, <1>2, BypassComputes
  <1>4. DOMAIN h.node = DOMAIN graph.node \ {n}
    BY <1>1, <1>2, BypassKeeps
  <1>5. \A l : Sink(l) # n
    <2>1. ~OneOf(n, SinkKinds)
      BY <1>2, NopIs DEF IsTrainable
    <2>2. \A l : OneOf(Sink(l), SinkKinds)
      BY NotLeaves DEF Sink, OneOf, SinkKinds
    <2> QED
      BY <2>1, <2>2
  <1>6. ComputesAlike(graph, h)
    BY <1>3, <1>4, <1>5 DEF ComputesAlike
  <1> QED
    BY <1>6, CompletedStays DEF h

-----------------------------------------------------------------------------
\* How far the gradients have come, in every stage.

\* What is said of a module that does not change.
LEMMA SameGradients ==
    ASSUME model' = model, NEW l
    PROVE  Derivative(l)' = Derivative(l) /\ Gradient(l)' = Gradient(l)
  <1>1. Exact' = Exact
    BY DEF Exact, OpOf, Args
  <1>2. Derivative(l)' = Derivative(l)
    BY <1>1 DEF Derivative, OpOf, Args
  <1>3. Gradient(l)' = Gradient(l)
    BY <1>2 DEF Gradient
  <1> QED
    BY <1>2, <1>3

\* With the module, what the outputs have sent is said of the new graph as of any other.
LEMMA SameSent ==
    ASSUME model' = model, AllSentIn(graph', gradients', todo', requires_grad')
    PROVE  AllSentIn(graph, gradients, todo, requires_grad)'
  BY DEF AllSentIn, SentIn

\* And so is what the leaves will have.
LEMMA SameChained ==
    ASSUME model' = model, AllChained(graph', gradients', todo')
    PROVE  AllChained(graph, gradients, todo)'
  <1>1. \A l : Derivative(l)' = Derivative(l) /\ Gradient(l)' = Gradient(l)
    BY SameGradients
  <1>2. ASSUME NEW l, Chained(l, graph', gradients', todo')
        PROVE  Chained(l, graph, gradients, todo)'
    BY <1>1, <1>2 DEF Chained, Owed, Kept, Slope
  <1> QED
    BY <1>2 DEF AllChained

\* And what they have.
LEMMA SameCompleted ==
    ASSUME model' = model, Completed(graph', gradients')
    PROVE  Completed(graph, gradients)'
  <1>1. \A l : Gradient(l)' = Gradient(l)
    BY SameGradients
  <1> QED
    BY <1>1 DEF Completed

\* How far the gradients have come: the outputs have sent what they pass on, the nodes
\* whose turn is still to come owe the leaves the rest, and in the end the leaves have all.
Flows ==
    /\ stage \in {"trace", "propagate"} => AllReadIn(graph)
    /\ stage = "outputs" => /\ AllSentIn(graph, gradients, todo, requires_grad)
                            /\ Reaches(graph, gradients, todo, requires_grad)
    /\ stage = "differentiate" => /\ AllChained(graph, gradients, todo)
                                  /\ ReachesBack(graph, gradients, todo, requires_grad)
    /\ stage \notin Early => Completed(graph, gradients)

FlowInv ==
    /\ StepInv
    /\ stage # "trace" => Follows(model, graph)
    /\ Flows

\* What the stages of the autograd engine start from.
LEMMA FlowStages ==
    ASSUME FlowInv
    PROVE  /\ IsTraced(model)
           /\ stage = "trace" => IsTracing(model, graph, todo) /\ AllReadIn(graph)
           /\ stage # "trace" => Well(graph) /\ Listed(model, graph) /\ Follows(model, graph)
           /\ stage = "propagate" => IsTrace(model, graph) /\ AllReadIn(graph)
           /\ stage = "outputs" =>
                 /\ IsSeeding(model, graph, todo, requires_grad, gradients)
                 /\ AllSentIn(graph, gradients, todo, requires_grad)
                 /\ Reaches(graph, gradients, todo, requires_grad)
           /\ stage = "differentiate" =>
                 /\ IsDifferentiating(model, graph, todo, requires_grad, gradients)
                 /\ AllChained(graph, gradients, todo)
                 /\ ReachesBack(graph, gradients, todo, requires_grad)
           /\ stage = "optimizer" =>
                 IsOptimizing(model, graph, todo, gradients, loopback)
           /\ stage = "nops" => IsTrainable(model, graph, loopback) /\ IsRemoving(graph, todo)
           /\ stage \notin Early => Completed(graph, gradients)
  BY DEF FlowInv, Flows, StepInv, SplitInv, AutogradInv, Early

\* The trace.
LEMMA TraceFlows ==
    ASSUME FlowInv, VisitTensor \/ RegisterModule
    PROVE  Flows'
  <1>1. stage = "trace" /\ IsTraced(model) /\ IsTracing(model, graph, todo) /\ AllReadIn(graph)
    BY Zenon, FlowStages DEF VisitTensor, RegisterModule
  <1>2. CASE VisitTensor
    <2>1. AllReadIn(graph')
      BY <1>1, <1>2, ReadVisits
    <2>2. stage' = "trace"
      BY Zenon, <1>1, <1>2 DEF VisitTensor
    <2> QED
      BY <2>1, <2>2 DEF Flows, Early
  <1>3. CASE RegisterModule
    <2>1. graph'.node = graph.node /\ stage' = "propagate"
      <3>1. graph' = [graph EXCEPT !.inputs = Named(graph, Activations), !.outputs = Outputs]
        BY <1>3 DEF RegisterModule
      <3>2. graph = [nodes |-> graph.nodes, node |-> graph.node, inputs |-> graph.inputs,
                     outputs |-> graph.outputs]
        BY <1>1 DEF IsTracing, IsGraph
      <3> QED
        BY <3>1, <3>2, <1>3 DEF RegisterModule
    <2>2. AllReadIn(graph')
      BY <2>1, <1>1 DEF AllReadIn, Forwards, Read
    <2> QED
      BY <2>1, <2>2 DEF Flows, Early
  <1> QED
    BY <1>2, <1>3

\* Who needs a gradient is found out.
LEMMA PropagateFlows ==
    ASSUME FlowInv, PropagateRequiresGrad
    PROVE  Flows'
  <1>1. /\ stage = "propagate" /\ stage' = "outputs" /\ graph' = graph /\ model' = model
        /\ gradients' = [n \in DOMAIN graph.node |-> <<>>] /\ todo' = OfType(graph, "output")
    BY DEF PropagateRequiresGrad
  <1>2. IsTraced(model) /\ Well(graph) /\ Listed(model, graph) /\ IsTrace(model, graph)
        /\ AllReadIn(graph)
    BY <1>1, FlowStages
  <1>3. IsSeeding(model, graph, todo', requires_grad', gradients')
    BY <1>2, PropagateGivesSeeding
  <1> DEFINE rg == requires_grad'
             gr == gradients'
             td == todo'
  <1>4. /\ Needs(model, graph, rg) /\ gr = [n \in DOMAIN graph.node |-> <<>>]
        /\ td = OfType(graph, "output")
    BY <1>1, <1>3 DEF IsSeeding
  <1> HIDE DEF rg, gr, td
  <1>5. AllSentIn(graph, gr, td, rg)
    BY <1>2, <1>4, NothingSent
  <1>6. Reaches(graph, gr, td, rg)
    BY <1>2, <1>4, ReachesFirst
  <1>7. AllSentIn(graph, gradients, todo, requires_grad)'
    BY <1>1, <1>5, SameSent DEF rg, gr, td
  <1>8. Reaches(graph, gradients, todo, requires_grad)'
    BY <1>1, <1>6 DEF rg, gr, td
  <1> QED
    BY <1>1, <1>7, <1>8 DEF Flows, Early

\* An output sends its gradient to what it reads.
LEMMA CreateFlows ==
    ASSUME FlowInv, CreateGradientInput
    PROVE  Flows'
  <1> DEFINE o == Head(todo)
             p == graph.node[o].ins[1]
             grad == <<"gradient", o>>
             h == graph'
             gr == gradients'
  <1>1. /\ stage = "outputs" /\ stage' = "outputs" /\ model' = model
        /\ requires_grad' = requires_grad /\ todo # <<>> /\ todo' = Tail(todo)
    BY DEF CreateGradientInput
  <1>2. /\ IsTraced(model) /\ Well(graph) /\ Listed(model, graph)
        /\ IsSeeding(model, graph, todo, requires_grad, gradients)
        /\ AllSentIn(graph, gradients, todo, requires_grad)
        /\ Reaches(graph, gradients, todo, requires_grad)
    BY <1>1, FlowStages
  <1>3. SameForwards(graph, h)
    BY <1>2, CreateKeepsSeeding
  <1> HIDE DEF h, gr
  <1>4. AllSentIn(h, gr, Tail(todo), requires_grad) /\ Reaches(h, gr, Tail(todo), requires_grad)
    <2>1. CASE p \notin requires_grad
      <3>1. h = graph /\ gr = gradients
        BY Zenon, <2>1 DEF CreateGradientInput, h, gr
      <3>2. AllSentIn(graph, gradients, Tail(todo), requires_grad)
        BY <1>1, <1>2, <2>1, SeedSkipped
      <3>3. Reaches(graph, gradients, Tail(todo), requires_grad)
        BY <1>1, <1>2, <2>1, ReachesSkipped
      <3> QED
        BY <3>1, <3>2, <3>3
    <2>2. CASE p \in requires_grad
      <3>1. gr = OneMore(gradients, p, grad)
        BY Zenon, <2>2 DEF CreateGradientInput, OneMore, gr
      <3>2. o \in OutputNodes(model) /\ grad \notin DOMAIN graph.node
        BY <1>1, <1>2, Rest DEF IsSeeding
      <3>3. Well(h) /\ Listed(model, h) /\ GrowsBy(graph, h, {grad})
        <4>1. h = [AddNode(graph, grad, Node("input", "gradient", "bwd", <<>>))
                      EXCEPT !.inputs = Append(@, grad)]
          BY Zenon, <2>2 DEF CreateGradientInput, h
        <4> HIDE DEF o, p, grad
        <4> QED
          BY <1>2, <3>2, <4>1, GradientInputIs DEF grad
      <3> HIDE DEF o, p, grad
      <3>4. o = Head(todo) /\ p = graph.node[o].ins[1] /\ grad = <<"gradient", o>>
        BY DEF o, p, grad
      <3>5. AllSentIn(h, gr, Tail(todo), requires_grad)
        BY <1>1, <1>2, <1>3, <2>2, <3>1, <3>3, <3>4, SeedSent
      <3>6. Reaches(h, gr, Tail(todo), requires_grad)
        BY <1>1, <1>2, <1>3, <2>2, <3>1, <3>4, ReachesSent
      <3> QED
        BY <3>5, <3>6
    <2> QED
      BY <2>1, <2>2
  <1>5. AllSentIn(graph, gradients, todo, requires_grad)'
    BY <1>1, <1>4, SameSent DEF h, gr
  <1>6. Reaches(graph, gradients, todo, requires_grad)'
    BY <1>1, <1>4 DEF h, gr
  <1> QED
    BY <1>1, <1>5, <1>6 DEF Flows, Early

\* When all are sent, the nodes owe them to the leaves.
LEMMA StartFlows ==
    ASSUME FlowInv, StartDifferentiation
    PROVE  Flows'
  <1> DEFINE td == todo'
  <1>1. /\ stage = "outputs" /\ stage' = "differentiate" /\ graph' = graph /\ model' = model
        /\ gradients' = gradients /\ requires_grad' = requires_grad
        /\ todo = <<>> /\ td = BackwardOrder(graph)
    BY DEF StartDifferentiation
  <1>2. /\ IsTraced(model) /\ Well(graph) /\ Listed(model, graph) /\ Follows(model, graph)
        /\ IsSeeding(model, graph, todo, requires_grad, gradients)
        /\ AllSentIn(graph, gradients, todo, requires_grad)
        /\ Reaches(graph, gradients, todo, requires_grad)
    BY <1>1, FlowStages
  <1>3. IsDifferentiating(model, graph, td, requires_grad, gradients)
    BY <1>2, StartGivesDifferentiating
  <1>4. td \in Seq(Forwards(graph)) /\ Distinct(td) /\ ToSet(td) = Forwards(graph)
    BY <1>1, <1>2, BackwardOrderIs
  <1> HIDE DEF td
  <1>5. Holds(graph, gradients, td) /\ Needs(model, graph, requires_grad)
    BY <1>3, HoldsDuring
  <1>6. AllChained(graph, gradients, td)
    BY <1>1, <1>2, <1>4, <1>5, ChainStarts
  <1>7. ReachesBack(graph, gradients, td, requires_grad)
    BY <1>1, <1>2, <1>4, ReachesOn
  <1>8. AllChained(graph, gradients, todo)'
    BY <1>1, <1>6, SameChained DEF td
  <1>9. ReachesBack(graph, gradients, todo, requires_grad)'
    BY <1>1, <1>7 DEF td
  <1> QED
    BY <1>1, <1>8, <1>9 DEF Flows, Early

\* A node pays what it owes to its operands.
LEMMA DifferentiateFlows ==
    ASSUME FlowInv, Differentiate
    PROVE  Flows'
  <1> DEFINE n == Head(todo)
             h == graph'
             gr == gradients'
  <1>1. /\ stage = "differentiate" /\ stage' = "differentiate" /\ model' = model
        /\ requires_grad' = requires_grad
    BY DEF Differentiate
  <1>2. /\ IsTraced(model) /\ Well(graph) /\ Listed(model, graph) /\ Follows(model, graph)
        /\ IsDifferentiating(model, graph, todo, requires_grad, gradients)
        /\ AllChained(graph, gradients, todo)
        /\ ReachesBack(graph, gradients, todo, requires_grad)
    BY <1>1, FlowStages
  <1>3. todo # <<>> /\ todo' = Tail(todo) /\ (PassesOver(n) \/ PassesBack(n) \/ PassesOut(n))
    BY <1>2, DifferentiateTurns
  <1>4. SameForwards(graph, h)
    BY <1>2, DifferentiateKeeps
  <1>5. ReachesBack(h, gr, todo', requires_grad)
    BY <1>2, ReachesBackKeeps
  <1>6. \A l \in model.trained \cap DOMAIN h.node : l \in DOMAIN graph.node
    <2>1. \A l \in model.trained : EpochOf(l) = "fwd"
      BY <1>2 DEF IsTraced, EpochOf
    <2> HIDE DEF h
    <2> QED
      BY <1>4, <2>1 DEF SameForwards, Forwards
  <1>7. ASSUME NEW l \in model.trained, l \in DOMAIN graph.node
        PROVE  Chained(l, h, gr, Tail(todo))
    <2>1. Chained(l, graph, gradients, todo)
      BY <1>2, <1>7 DEF AllChained
    <2>2. CASE PassesOver(n)
      <3>1. h = graph /\ gr = gradients /\ gradients[n] = <<>>
        BY <2>2 DEF PassesOver
      <3>2. Chained(l, graph, gradients, Tail(todo))
        BY <1>2, <1>3, <2>1, <3>1, ChainSkips
      <3> QED
        BY <3>1, <3>2
    <2>3. CASE PassesBack(n)
      BY <1>2, <1>3, <1>7, <2>1, <2>3, ChainHands DEF PassesBack
    <2>4. CASE PassesOut(n)
      BY <1>2, <1>3, <1>7, <2>1, <2>4, ChainSinks DEF PassesOut, OneGradient
    <2> QED
      BY <1>3, <2>2, <2>3, <2>4
  <1> HIDE DEF h, gr
  <1>8. AllChained(h, gr, Tail(todo))
    BY <1>6, <1>7 DEF AllChained
  <1>9. AllChained(graph, gradients, todo)'
    BY <1>1, <1>3, <1>8, SameChained DEF h, gr
  <1>10. ReachesBack(graph, gradients, todo, requires_grad)'
    BY <1>1, <1>5 DEF h, gr
  <1> QED
    BY <1>1, <1>9, <1>10 DEF Flows, Early

\* From then on the leaves have all of their gradients.
LEMMA CompletedFlows ==
    ASSUME FlowInv, StartOptimizer \/ OptimizeParameter \/ InsertRecomputeOps \/ RemoveNop
    PROVE  Flows'
  <1>1. /\ model' = model /\ gradients' = gradients /\ stage' \in {"optimizer", "nops"}
    BY DEF StartOptimizer, OptimizeParameter, InsertRecomputeOps, RemoveNop
  <1>2. Completed(graph', gradients)
    <2>1. CASE StartOptimizer
      <3>1. stage = "differentiate" /\ todo = <<>> /\ graph' = graph
        BY <2>1 DEF StartOptimizer
      <3>2. Completed(graph, gradients)
        BY <3>1, FlowStages, ChainEnds
      <3> QED
        BY <3>1, <3>2
    <2>2. CASE OptimizeParameter
      <3>1. stage = "optimizer"
        BY <2>2 DEF OptimizeParameter
      <3> QED
        BY <2>2, <3>1, FlowStages, OptimizeComputes DEF Early
    <2>3. CASE InsertRecomputeOps
      <3>1. stage = "optimizer"
        BY <2>3 DEF InsertRecomputeOps
      <3> QED
        BY <2>3, <3>1, FlowStages, RecomputeComputes DEF Early
    <2>4. CASE RemoveNop
      <3>1. stage = "nops"
        BY <2>4 DEF RemoveNop
      <3> QED
        BY <2>4, <3>1, FlowStages, RemoveNopComputes DEF Early
    <2> QED
      BY <2>1, <2>2, <2>3, <2>4
  <1>3. Completed(graph, gradients)'
    BY <1>1, <1>2, SameCompleted
  <1> QED
    BY <1>1, <1>3 DEF Flows, Early

\* Every step keeps the invariant.
LEMMA FlowKeeps ==
    ASSUME FlowInv, [Next]_stepVars
    PROVE  FlowInv'
  <1>1. StepInv'
    BY StepKeeps DEF FlowInv
  <1>2. CASE Next
    <2>1. stage' # "trace" => Follows(model', graph')
      BY <1>2, FollowsOn DEF FlowInv
    <2>2. Flows'
      <3> DEFINE Old == {"trace", "propagate", "outputs", "differentiate"}
      <3>1. ASSUME stage \notin Old, stage' \notin Old,
                   UNCHANGED <<model, graph, gradients>>
            PROVE  Flows'
        <4>1. Completed(graph, gradients)
          BY <3>1, FlowStages DEF Early
        <4>2. Completed(graph, gradients)'
          BY <3>1, <4>1, SameCompleted
        <4> QED
          BY <3>1, <4>2 DEF Flows
      <3>2. CASE ExtractForward \/ ExtractBackward \/ ExtractOptimizer
        BY <3>1, <3>2 DEF ExtractForward, ExtractBackward, ExtractOptimizer, Extract
      <3>3. CASE Call \/ LossBackward \/ RunBackward \/ Step \/ Finished
        <4>1. stage \in Running
          BY <3>3 DEF Call, LossBackward, RunBackward, Step, Finished, Running
        <4>2. stage' \in Running /\ UNCHANGED <<model, graph, gradients>>
          BY <3>3, <4>1 DEF Call, LossBackward, RunBackward, Step, Finished, RunProgram, Running,
             stepVars, splitVars, autogradVars
        <4> QED
          BY <3>1, <4>1, <4>2 DEF Running
      <3>4. CASE VisitTensor \/ RegisterModule \/ PropagateRequiresGrad \/ CreateGradientInput
                 \/ StartDifferentiation \/ Differentiate
        BY <3>4, TraceFlows, PropagateFlows, CreateFlows, StartFlows, DifferentiateFlows
      <3>5. CASE StartOptimizer \/ OptimizeParameter \/ InsertRecomputeOps \/ RemoveNop
        BY <3>5, CompletedFlows
      <3> QED
        BY <1>2, <3>1, <3>2, <3>3, <3>4, <3>5 DEF Next, Compile, SplitNext, AutogradNext
    <2> QED
      BY <1>1, <2>1, <2>2 DEF FlowInv
  <1>3. CASE UNCHANGED stepVars
    <2>1. UNCHANGED <<model, stage, todo, graph, requires_grad, gradients>>
      BY <1>3 DEF stepVars, splitVars, autogradVars
    <2>2. stage' # "trace" => Follows(model', graph')
      BY <2>1 DEF FlowInv
    <2>3. Flows'
      <3>1. stage = "outputs" => AllSentIn(graph, gradients, todo, requires_grad)'
        BY <2>1, SameSent DEF FlowInv, Flows
      <3>2. stage = "differentiate" => AllChained(graph, gradients, todo)'
        BY <2>1, SameChained DEF FlowInv, Flows
      <3>3. stage \notin Early => Completed(graph, gradients)'
        BY <2>1, SameCompleted DEF FlowInv, Flows
      <3> QED
        BY <2>1, <3>1, <3>2, <3>3 DEF FlowInv, Flows
    <2> QED
      BY <1>1, <2>2, <2>3 DEF FlowInv
  <1> QED
    BY <1>2, <1>3

\* Whatever the module: when the graph has been differentiated, every leaf that is
\* trained and takes part in it has one gradient, and a run of the graph makes it the
\* derivative of the outputs, weighted by what they are given, by the leaf
\* (autograd.cpp:231-310).  Neither the optimizer's nodes, nor the recomputed ops, nor
\* the removal of Nops changes it.
THEOREM GradientsAlwaysComplete == Spec => []GradientsAreComplete
  <1>1. Init => FlowInv
    <2> SUFFICES ASSUME Init PROVE FlowInv
      OBVIOUS
    <2>1. AutogradInit /\ stage = "trace"
      BY DEF Init, SplitInit, AutogradInit
    <2> QED
      BY <2>1, StepStarts, ReadFirst DEF FlowInv, Flows, Early
  <1>2. FlowInv /\ [Next]_stepVars => FlowInv'
    BY FlowKeeps
  <1>3. FlowInv => GradientsAreComplete
    <2> SUFFICES ASSUME FlowInv, stage \in {"optimizer", "nops"}, NEW l \in model.trained,
                        HasNode(graph, l)
                 PROVE  /\ Len(gradients[l]) = 1
                        /\ Computed(model, graph)[gradients[l][1]] = Gradient(l)
      BY DEF GradientsAreComplete
    <2>1. gradients[l] = <<Sink(l)>> /\ Computed(model, graph)[Sink(l)] = Gradient(l)
      BY FlowStages DEF Completed, HasNode, Early
    <2>2. Len(<<Sink(l)>>) = 1 /\ <<Sink(l)>>[1] = Sink(l)
      OBVIOUS
    <2> QED
      BY <2>1, <2>2
  <1> QED
    BY <1>1, <1>2, <1>3, PTL DEF Spec

-----------------------------------------------------------------------------
\* What the backward program is given.

\* What the backward program has to be given at an input: the element an output of the
\* forward program showed, or what a run of the whole graph is given.
Passed(g, n) == IF n \in SavedBy(g) THEN ExactOf(g, n) ELSE Given(model, n)
IsPassing(g, f) == f = [n \in DOMAIN Backward.node |-> Passed(g, n)]
\* The results of the forward program are the elements its outputs show.
ShowsExact(g) ==
    /\ results["Forward"] \in [DOMAIN Forward.outputs -> Residues]
    /\ \A i \in DOMAIN Forward.outputs : results["Forward"][i] = ExactOf(g, Forward.outputs[i])

\* The gradients.
LEMMA GradientsAlong ==
    ASSUME IsTraced(model), NEW g, Well(g), NEW own, own \in Seq(DOMAIN Backward.node),
           Len(own) = Len(model.outs),
           \A i \in DOMAIN model.outs : own[i] = <<"gradient", Output(model.outs[i])>>,
           NEW given, given = [i \in DOMAIN model.outs |-> Seed[i]],
           NEW f, IsPassing(g, f)
    PROVE  given \in Seq(Residues) /\ Along(f, own, given)
  <1>1. /\ DOMAIN model.outs = 1..Len(model.outs) /\ Len(model.outs) \in Nat
        /\ \A i \in DOMAIN model.outs : Seed[i] \in Residues
    BY SeedsAre
  <1>2. given \in [1..Len(model.outs) -> Residues]
    BY <1>1
  <1>3. given \in Seq(Residues) /\ Len(given) = Len(model.outs)
    BY <1>1, <1>2, ListIs
  <1>4. DOMAIN own = DOMAIN model.outs /\ \A i \in DOMAIN own : own[i] \in DOMAIN Backward.node
    BY <1>1, Entries
  <1>5. ASSUME NEW i \in DOMAIN model.outs PROVE given[i] = f[own[i]]
    <2> DEFINE x == <<"gradient", Output(model.outs[i])>>
    <2>1. x \notin SavedBy(g)
      <3>1. x \notin Intermediates(g)
        BY KindsDiffer DEF Intermediates
      <3>2. x \notin Leaves /\ x[1] = "gradient"
        BY NotLeaves
      <3>3. EpochOf(x) = "bwd"
        BY <3>2, NamesAre
      <3> QED
        BY <3>1, <3>3 DEF SavedBy, Forwards
    <2>2. Given(model, x) = Seed[i]
      BY GivenIs
    <2>3. f[x] = Given(model, x)
      BY <1>4, <2>1 DEF IsPassing, Passed
    <2> HIDE DEF x
    <2> QED
      BY <2>2, <2>3 DEF x
  <1> QED
    BY <1>3, <1>4, <1>5 DEF Along

\* The saved values.
LEMMA SavedAlong ==
    ASSUME IsTraced(model), NEW g, Well(g), Listed(model, g), IsForward(g, Forward),
           IsBackward(g, Forward, Backward), ShowsExact(g), NEW f, IsPassing(g, f),
           NEW kept, kept = Picked(Forward, results["Forward"],
                                   {o \in DOMAIN Forward.node : IsIntermediate(Forward, o)})
    PROVE  kept \in Seq(Residues) /\ Along(f, Named(Backward, Forward.outputs), kept)
  <1> DEFINE outs == Forward.outputs
             values == results["Forward"]
             I == {o \in DOMAIN Forward.node : IsIntermediate(Forward, o)}
             id == [i \in DOMAIN outs |-> i]
             J == {i \in DOMAIN outs : outs[i] \in I}
             at == Only(id, J)
             saved == Only(outs, DOMAIN Backward.node)
  <1>1. outs \in Seq(DOMAIN Forward.node)
    BY ForwardOutputsAre
  <1>2. DOMAIN outs = 1..Len(outs) /\ \A i \in DOMAIN outs : outs[i] \in ToSet(outs)
    BY <1>1, Entries
  <1>3. \A i \in DOMAIN outs : outs[i] \in DOMAIN Backward.node <=> i \in J
    BY <1>2, SameLists
  <1>4. kept = [j \in DOMAIN at |-> values[at[j]]]
    BY DEF Picked
  <1>5. kept \in Seq(Residues)
    BY <1>1, PickedAre DEF ShowsExact
  <1> HIDE DEF id, J
  <1>6. id = [i \in DOMAIN outs |-> i]
    BY DEF id
  <1> HIDE DEF outs
  <1>7. /\ at \in Seq(DOMAIN outs) /\ Len(saved) = Len(at) /\ DOMAIN saved = DOMAIN at
        /\ \A j \in DOMAIN at : saved[j] = outs[at[j]]
    <2> DEFINE S == DOMAIN Backward.node
    <2>1. /\ outs \in Seq(DOMAIN Forward.node) /\ Marks(outs, S, J) /\ Numbers(outs, id)
          /\ saved = Only(outs, S)
      BY <1>1, <1>3, <1>6 DEF Marks, Numbers
    <2> HIDE DEF S, saved
    <2> QED
      BY <2>1, OnlyAt
  <1>8. saved \in Seq(DOMAIN Forward.node) /\ ToSet(saved) \subseteq DOMAIN Backward.node
    BY <1>1, OnlyMembers
  <1> HIDE DEF at, saved
  <1>9. \A j \in DOMAIN saved : saved[j] \in DOMAIN Backward.node
    BY <1>8, Entries
  <1>10. ASSUME NEW j \in DOMAIN saved PROVE kept[j] = f[saved[j]]
    <2>1. at[j] \in DOMAIN outs /\ saved[j] = outs[at[j]] /\ kept[j] = values[at[j]]
      BY <1>4, <1>7, Entries
    <2>2. values[at[j]] = ExactOf(g, saved[j])
      BY <2>1 DEF ShowsExact, outs
    <2>3. saved[j] \in SavedBy(g)
      <3>1. saved[j] \in I /\ saved[j] \in OutputNodes(model) \cup Intermediates(g)
        BY <2>1, <1>2, <1>9, SameLists, ForwardOutputsAre DEF outs
      <3>2. CASE saved[j] \in Intermediates(g)
        BY <3>2 DEF SavedBy
      <3>3. CASE saved[j] \notin Intermediates(g)
        <4>1. saved[j] \in Forwards(g)
          BY <3>1, <3>3 DEF IsForward
        <4>2. PICK i \in DOMAIN model.outs : saved[j] = Output(model.outs[i])
          BY <3>1, <3>3 DEF OutputNodes, ModuleOutputs, ToSet
        <4>3. RolesOf(saved[j]) = {"external"} /\ TypeOf(saved[j]) = "output"
          <5> DEFINE y == saved[j]
          <5>1. y = Output(model.outs[i])
            BY <4>2
          <5> HIDE DEF y
          <5>2. RolesOf(y) = {"external"} /\ TypeOf(y) = "output"
            BY <5>1, NamesAre DEF Output
          <5> QED
            BY <5>2 DEF y
        <4>4. g.node[saved[j]].role = "external"
          BY <4>1, <4>3 DEF Forwards, Well, Whole, Fits
        <4>5. Forward.node[saved[j]].role \in {"internal", "shared"}
          BY <3>1 DEF IsIntermediate
        <4>6. ReadIn(g, g.node[saved[j]].ins[1], "bwd")
          BY <4>1, <4>3, <4>4, <4>5 DEF IsForward
        <4> QED
          BY <4>1, <4>3, <4>6 DEF SavedBy
      <3> QED
        BY <3>2, <3>3
    <2>4. f[saved[j]] = ExactOf(g, saved[j])
      BY <2>3, <1>9 DEF IsPassing, Passed
    <2> QED
      BY <2>1, <2>2, <2>4
  <1>11. Len(kept) = Len(saved)
    <2>1. DOMAIN kept = DOMAIN at
      BY <1>4
    <2>2. DOMAIN kept = 1..Len(kept) /\ Len(kept) \in Nat
      BY <1>5, Entries
    <2>3. DOMAIN at = 1..Len(at) /\ Len(at) \in Nat
      BY <1>7, Entries
    <2>4. Len(kept) = Len(at)
      <3> DEFINE p == Len(kept)
                 q == Len(at)
      <3>1. 1..p = 1..q /\ p \in Nat /\ q \in Nat
        BY <2>1, <2>2, <2>3
      <3> HIDE DEF p, q
      <3>2. p = q
        BY ONLY <3>1
      <3> QED
        BY <3>2 DEF p, q
    <2> QED
      BY <2>4, <1>7
  <1> QED
    BY <1>5, <1>10, <1>11 DEF Along, Named, saved, outs

\* The inputs read again.
LEMMA AgainAlong ==
    ASSUME NEW g, NEW again, again \in Seq(DOMAIN Backward.node), ToSet(again) \subseteq Leaves,
           ToSet(again) \subseteq ToSet(Activations),
           ToSet(again) \cap SavedBy(g) = {}, IsTraced(model), NEW f, IsPassing(g, f),
           NEW points, points = [i \in DOMAIN again |-> Point[again[i]]]
    PROVE  points \in Seq(Residues) /\ Along(f, again, points)
  <1>1. points \in Seq(Residues)
    BY PointsAre
  <1>2. DOMAIN again = 1..Len(again) /\ Len(again) \in Nat
        /\ \A i \in DOMAIN again : again[i] \in ToSet(again) /\ again[i] \in DOMAIN Backward.node
    BY Entries
  <1>3. Len(points) = Len(again)
    <2>1. DOMAIN points = 1..Len(points) /\ Len(points) \in Nat
      BY <1>1, Entries
    <2>2. DOMAIN points = DOMAIN again
      OBVIOUS
    <2> QED
      BY <2>1, <2>2, <1>2
  <1>4. ASSUME NEW i \in DOMAIN again PROVE points[i] = f[again[i]]
    <2> DEFINE x == again[i]
    <2>1. x \in Leaves /\ x \notin SavedBy(g) /\ x \in DOMAIN Backward.node
      BY <1>2
    <2>2. points[i] = Point[x]
      OBVIOUS
    <2> HIDE DEF x
    <2>3. f[x] = Given(model, x)
      BY <2>1 DEF IsPassing, Passed
    <2>4. Given(model, x) = Point[x]
      BY <2>1, GivenIs
    <2> QED
      BY <2>2, <2>3, <2>4 DEF x
  <1> QED
    BY <1>1, <1>3, <1>4 DEF Along

\* The parameters.
LEMMA PersistentAlong ==
    ASSUME IsTraced(model), NEW g, Well(g), Listed(model, g), IsForward(g, Forward),
           IsBackward(g, Forward, Backward), pool = Point, NEW f, IsPassing(g, f),
           NEW more, more = [i \in DOMAIN Persistent(Backward) |->
                                Element(Persistent(Backward)[i])]
    PROVE  more \in Seq(Residues) /\ Along(f, Persistent(Backward), more)
  <1> DEFINE rest == Persistent(Backward)
             h == Backward
  <1>1. IsGraph(h) /\ IsBackwardOf(g, Forward, Backwards(g), h)
    BY DEF IsBackward, IsBackwardOf
  <1>2. rest \in Seq(DOMAIN h.node)
        /\ ToSet(rest) = {n \in DOMAIN h.node :
                             h.node[n].role \in {"parameter", "optimizer_parameter"}}
    BY <1>1, FormalsAre
  <1>3. ASSUME NEW n \in ToSet(rest) PROVE n \in Leaves /\ n \notin SavedBy(g)
    <2>1. n \in DOMAIN h.node /\ h.node[n].role \in {"parameter", "optimizer_parameter"}
      BY <1>2
    <2>2. n \notin SavedBy(g)
      BY <2>1, <1>1 DEF IsBackwardOf, Saved, Node
    <2>3. CASE n \in ReadAgain(g)
      BY <2>3, <2>2 DEF ReadAgain, Forwards, TypeOf, EpochOf, FwdKinds
    <2>4. ASSUME NEW b \in Backwards(g), n = BackwardName(b) PROVE FALSE
      <3>1. IsBackwardNode(g, Forward, b, h.node[n])
        BY <1>1, <2>4 DEF IsBackwardOf
      <3>2. g.node[b].role \in {"parameter", "optimizer_parameter"}
        BY <3>1, <2>1 DEF IsBackwardNode
      <3>3. b \in DOMAIN g.node /\ EpochOf(b) = "bwd" /\ g.node[b].role \in RolesOf(b)
        BY DEF Backwards, Well, Whole, Fits
      <3>4. b \notin Leaves /\ b[1] \notin {"op", "nop", "output", "lr", "opt_multiply", "opt_subtract"}
        BY <3>3 DEF EpochOf, FwdKinds, OptKinds
      <3>5. b \notin Weights
        BY <3>4 DEF Leaves
      <3>6. RolesOf(b) \subseteq {"gradient", "external", "grad_accumulator"} \cup DOMAIN OpArity
        BY <3>4, <3>5 DEF RolesOf, FwdKinds
      <3>7. DOMAIN OpArity = {"Add", "Multiply", "Subtract", "Exp", "Nop"}
        BY DEF OpArity
      <3> QED
        BY <3>2, <3>3, <3>6, <3>7
    <2> QED
      BY <2>1, <2>2, <2>3, <2>4, <1>1 DEF IsBackwardOf
  <1> HIDE DEF rest, h
  <1>4. DOMAIN rest = 1..Len(rest) /\ Len(rest) \in Nat
        /\ \A i \in DOMAIN rest : rest[i] \in ToSet(rest) /\ rest[i] \in DOMAIN h.node
    BY <1>2, Entries
  <1>5. ASSUME NEW i \in DOMAIN rest
        PROVE  more[i] \in Residues /\ more[i] = f[rest[i]]
    <2>1. rest[i] \in Leaves /\ rest[i] \notin SavedBy(g) /\ rest[i] \in DOMAIN Backward.node
      BY <1>3, <1>4 DEF h
    <2>2. more[i] = Element(rest[i])
      BY DEF rest
    <2> DEFINE x == rest[i]
    <2> HIDE DEF x
    <2>3. Element(x) = Point[x]
      BY <2>1 DEF Element, x
    <2>4. f[x] = Given(model, x)
      BY <2>1 DEF IsPassing, Passed, x
    <2>5. Given(model, x) = Point[x] /\ Given(model, x) \in Residues
      BY <2>1, GivenIs DEF x
    <2> QED
      BY <2>2, <2>3, <2>4, <2>5 DEF x
  <1>6. DOMAIN more = 1..Len(rest)
    BY <1>4 DEF rest
  <1>7. more \in [1..Len(rest) -> Residues]
    <2>1. more = [i \in 1..Len(rest) |-> more[i]]
      BY <1>4 DEF rest
    <2> QED
      BY <2>1, <1>4, <1>5
  <1>8. more \in Seq(Residues) /\ Len(more) = Len(rest)
    BY <1>4, <1>7, ListIs
  <1> QED
    BY <1>5, <1>8 DEF Along, rest

\* A backward program that is not refused has the right element at each argument.
LEMMA BackwardIsGiven ==
    ASSUME IsTraced(model), NEW g, Well(g), Listed(model, g), IsForward(g, Forward),
           IsBackward(g, Forward, Backward), InOrder(model, g.inputs), pool = Point,
           Len(GradientInputs) = Len(model.outs),
           gradient_inputs = [i \in DOMAIN model.outs |-> Seed[i]], ShowsExact(g),
           NEW actuals, actuals = Actuals(Backward, BackwardActivations),
           Len(actuals) = Len(Formals(Backward))
    PROVE  /\ actuals \in Seq(Residues)
           /\ \A n \in ToSet(Formals(Backward)) : Bound(Backward, actuals)[n] = Passed(g, n)
  <1> DEFINE own == OfEpoch(g, OrderedModuleInputs(g), "bwd")
             saved == Named(Backward, Forward.outputs)
             again == Named(Backward, OfEpoch(g, OrderedModuleInputs(g), "fwd"))
             rest == Persistent(Backward)
             given == gradient_inputs
             kept == Picked(Forward, results["Forward"],
                            {o \in DOMAIN Forward.node : IsIntermediate(Forward, o)})
             points == [i \in DOMAIN again |-> Point[again[i]]]
             more == [i \in DOMAIN rest |-> Element(rest[i])]
             f == [n \in DOMAIN Backward.node |-> Passed(g, n)]
             formals == Formals(Backward)
             N == DOMAIN Backward.node
  <1>1. /\ Backward.inputs = (own \o saved) \o again
        /\ own \in Seq(N) /\ saved \in Seq(N) /\ again \in Seq(N)
        /\ ToSet(again) = {x \in ToSet(g.inputs) : Read(g, x) /\ EpochOf(x) = "fwd"} \cap N
    BY BackwardInputsAre
  <1>2. IsGraph(Backward) /\ IsPassing(g, f)
    BY DEF IsBackward, IsBackwardOf, IsPassing
  <1>3. rest \in Seq(N) /\ formals \in Seq(N) /\ formals = OrderedModuleInputs(Backward) \o rest
    BY <1>2, FormalsAre
  <1>4. actuals = BackwardActivations \o more
    BY DEF Actuals
  <1>5. BackwardActivations = (given \o kept) \o points
    <2>1. Only(Forward.inputs, ToSet(Backward.inputs)) = again
      BY SameLists
    <2> HIDE DEF again, kept, given
    <2> QED
      BY <2>1 DEF BackwardActivations, kept, given
  <1> HIDE DEF f
  <1>6. given \in Seq(Residues) /\ Along(f, own, given)
    <2>1. /\ own \in Seq(N) /\ Len(own) = Len(model.outs)
          /\ \A i \in DOMAIN model.outs : own[i] = <<"gradient", Output(model.outs[i])>>
      BY OwnAre
    <2> HIDE DEF own
    <2> QED
      BY <2>1, <1>2, GradientsAlong
  <1>7. kept \in Seq(Residues) /\ Along(f, saved, kept)
    BY <1>2, SavedAlong
  <1>8. points \in Seq(Residues) /\ Along(f, again, points)
    <2>1. ASSUME NEW x \in ToSet(again)
          PROVE  x \in Leaves /\ x \in ToSet(Activations) /\ x \notin SavedBy(g)
      <3>1. x \in ToSet(g.inputs) /\ EpochOf(x) = "fwd"
        BY <1>1
      <3>2. x \in ToSet(Activations) \/ OneOf(x, {"gradient"})
        BY <3>1 DEF Listed
      <3>3. x \in ToSet(Activations) /\ x \in Leaves
        BY <3>1, <3>2 DEF OneOf, EpochOf, FwdKinds, OptKinds, Leaves
      <3>4. TypeOf(x) = "input" /\ x \notin Intermediates(g)
        BY <3>3, LeavesAre, IntermediatesAreNew DEF Intermediates
      <3> QED
        BY <3>3, <3>4 DEF SavedBy
    <2> HIDE DEF again
    <2> QED
      BY <2>1, <1>1, <1>2, AgainAlong
  <1>9. more \in Seq(Residues) /\ Along(f, rest, more)
    BY <1>2, PersistentAlong
  <1> HIDE DEF own, saved, again, rest, given, kept, points, more, formals, N
  <1>10. /\ own \o saved \in Seq(N) /\ given \o kept \in Seq(Residues)
         /\ Along(f, own \o saved, given \o kept)
    <2>1. Along(f, own \o saved, given \o kept)
      BY <1>1, <1>6, <1>7, JoinedAlong
    <2> QED
      BY <2>1, <1>1, <1>6, <1>7, Joined
  <1> DEFINE front == own \o saved
             first == given \o kept
  <1> HIDE DEF front, first
  <1>11. /\ front \o again \in Seq(N) /\ first \o points \in Seq(Residues)
         /\ Along(f, front \o again, first \o points)
    <2>1. front \in Seq(N) /\ first \in Seq(Residues) /\ Along(f, front, first)
      BY <1>10 DEF front, first
    <2>2. Along(f, front \o again, first \o points)
      BY <2>1, <1>1, <1>8, JoinedAlong
    <2> QED
      BY <2>1, <2>2, <1>1, <1>8, Joined
  <1> DEFINE inputs == Backward.inputs
             acts == BackwardActivations
  <1>12. inputs \in Seq(N) /\ acts \in Seq(Residues) /\ Along(f, inputs, acts)
    BY <1>1, <1>5, <1>11 DEF front, first
  <1>13. OrderedModuleInputs(Backward) = inputs
    <2> DEFINE read == OrderedModuleInputs(Backward)
    <2>1. Distinct(inputs)
      BY BackwardInputsDiffer
    <2>2. read \in Seq(N)
      BY <1>2, OrderedInputsAre DEF N
    <2>3. read = Only(inputs, {n \in ToSet(inputs) : Users(Backward, n) # <<>>})
      BY DEF OrderedModuleInputs
    <2> HIDE DEF inputs, acts, read
    <2>4. Len(acts \o more) = Len(acts) + Len(more) /\ Len(read \o rest) = Len(read) + Len(rest)
      BY <2>2, <1>3, <1>9, <1>12
    <2>5. Len(acts) = Len(inputs) /\ Len(more) = Len(rest)
      BY <1>9, <1>12 DEF Along
    <2>6. Len(acts) \in Nat /\ Len(more) \in Nat /\ Len(read) \in Nat /\ Len(rest) \in Nat
      BY <2>2, <1>3, <1>9, <1>12
    <2>7. Len(acts \o more) = Len(read \o rest)
      BY <1>3, <1>4 DEF acts, read, formals
    <2>8. Len(read) = Len(inputs)
      BY <2>4, <2>5, <2>6, <2>7
    <2>9. Only(inputs, {n \in ToSet(inputs) : Users(Backward, n) # <<>>}) = inputs
      BY <2>1, <2>3, <2>8, <1>12, OnlyWhole
    <2> QED
      BY <2>3, <2>9 DEF read
  <1> HIDE DEF inputs, acts
  <1>14. acts \o more \in Seq(Residues) /\ Along(f, inputs \o rest, acts \o more)
    <2>1. Along(f, inputs \o rest, acts \o more)
      BY <1>3, <1>9, <1>12, JoinedAlong
    <2> QED
      BY <2>1, <1>9, <1>12, Joined
  <1>15. formals = inputs \o rest /\ actuals = acts \o more
    BY <1>3, <1>4, <1>13 DEF acts
  <1>16. actuals \in Seq(Residues) /\ Along(f, formals, actuals)
    BY <1>14, <1>15
  <1>17. ASSUME NEW n \in ToSet(formals) PROVE Bound(Backward, actuals)[n] = Passed(g, n)
    <2>1. Bound(Backward, actuals)[n] = actuals[CHOOSE i \in DOMAIN formals : formals[i] = n]
      BY <1>17 DEF Bound, formals
    <2>2. \E i \in DOMAIN formals : formals[i] = n
      BY <1>17 DEF ToSet
    <2>3. PICK i \in DOMAIN formals :
              formals[i] = n /\ i = CHOOSE j \in DOMAIN formals : formals[j] = n
      BY <2>2
    <2>4. actuals[i] = f[n]
      BY <2>3, <1>16 DEF Along
    <2>5. n \in DOMAIN Backward.node
      BY <1>3, <1>17, Entries DEF N
    <2>6. f[n] = Passed(g, n)
      BY <2>5, <1>2 DEF IsPassing
    <2> QED
      BY <2>1, <2>3, <2>4, <2>6
  <1> QED
    BY <1>16, <1>17 DEF formals

-----------------------------------------------------------------------------
\* What the backward program computes.

\* The node of the whole graph that a backward node is made of.
Origin(g, y) == CHOOSE n \in Backwards(g) : BackwardName(n) = y

\* There is but one, and neither a saved value nor an input that is read again has it.
LEMMA OriginIs ==
    ASSUME NEW g, Well(g), NEW n \in Backwards(g)
    PROVE  Origin(g, BackwardName(n)) = n
           /\ BackwardName(n) \notin SavedBy(g) \cup ReadAgain(g)
  <1> DEFINE S == Backwards(g) \ {n}
  <1>1. BackwardName(n) \notin SavedBy(g) \cup ReadAgain(g) \cup {BackwardName(b) : b \in S}
    BY BackwardNamesDiffer
  <1>2. \A b \in Backwards(g) : BackwardName(b) = BackwardName(n) => b = n
    BY <1>1
  <1> QED
    BY <1>1, <1>2 DEF Origin

\* What the elements at its inputs make of each backward node.
IsRestored(g, env, f) ==
    f = [y \in DOMAIN Backward.node |->
            IF Backward.node[y].type = "input" THEN env[y]
            ELSE Computed(model, g)[Origin(g, y)]]
\* The program has the right element at each input that it reads.
IsGiven(g, env) == \A n \in ToSet(Formals(Backward)) : env[n] = Passed(g, n)

\* An output that shows a forward op has the op's element.
LEMMA ShowsOp ==
    ASSUME IsTraced(model), NEW g, Well(g), Listed(model, g), Follows(model, g),
           IsForward(g, Forward), NEW x \in ForwardOps(g), NEW y \in Showing(Forward, x)
    PROVE  ExactOf(g, y) = Computed(model, g)[x]
  <1>1. x \in Forwards(g) /\ x \in DOMAIN g.node
    BY DEF ForwardOps, Forwards
  <1>2. /\ y \in DOMAIN Forward.node /\ Forward.node[y].type = "output"
        /\ x \in ToSet(Forward.node[y].ins)
    BY DEF Showing
  <1>3. CASE y \in Forwards(g)
    <2>1. y \in DOMAIN g.node /\ TypeOf(y) = "output" /\ x \in ToSet(g.node[y].ins)
      BY <1>2, <1>3 DEF Forwards, IsForward
    <2>2. g.node[y].ins[1] = x
      <3>1. ToSet(g.node[y].ins) = {g.node[y].ins[1]}
        BY <2>1, OutputReads
      <3> QED
        BY <2>1, <3>1
    <2>3. Computed(model, g)[y] = Computed(model, g)[x]
      BY <2>1, <2>2, HandsThrough
    <2>4. Computed(model, g)[y] = Exact[TensorOf(y)]
      BY <1>3, ForwardComputed
    <2> QED
      BY <1>3, <2>3, <2>4 DEF ExactOf
  <1>4. CASE y \notin Forwards(g)
    <2>1. PICK z \in Saves(g) : y = <<"intermediate", z>>
      BY <1>2, <1>4 DEF IsForward, Intermediates
    <2>2. Forward.node[y].ins = <<z>> /\ y[2] = z
      BY <2>1 DEF IsForward
    <2>3. x = z
      BY <1>2, <2>2 DEF ToSet
    <2>4. ExactOf(g, y) = Exact[TensorOf(x)]
      BY <1>4, <2>2, <2>3 DEF ExactOf
    <2>5. Computed(model, g)[x] = Exact[TensorOf(x)]
      BY <1>1, ForwardComputed
    <2> QED
      BY <2>4, <2>5
  <1> QED
    BY <1>3, <1>4

\* What stands for an operand in the backward graph has its element.
LEMMA RestoresOperand ==
    ASSUME IsTraced(model), NEW g, Well(g), Listed(model, g), Follows(model, g),
           IsForward(g, Forward), IsBackward(g, Forward, Backward), NEW env, IsGiven(g, env),
           NEW f, IsRestored(g, env, f), NEW n \in Backwards(g), NEW x \in ToSet(g.node[n].ins),
           NEW y \in ReadFor(g, Forward, x), y \in DOMAIN Backward.node, Read(Backward, y)
    PROVE  f[y] = Computed(model, g)[x]
  <1>1. IsBackwardOf(g, Forward, Backwards(g), Backward) /\ Wired(Backward)
    BY BackwardIsWired DEF IsBackward
  <1>2. f[y] = IF Backward.node[y].type = "input" THEN env[y]
               ELSE Computed(model, g)[Origin(g, y)]
    BY DEF IsRestored
  <1>3. Backward.node[y].type = "input" => env[y] = Passed(g, y)
    BY <1>1 DEF Wired, Fed, IsGiven
  <1>4. /\ x \in DOMAIN g.node /\ TypeOf(x) \in {"input", "op"}
        /\ EpochOf(x) = "bwd" => x \in Backwards(g) /\ BackwardName(x) = x
        /\ EpochOf(x) # "bwd" => EpochOf(x) = "fwd" /\ x \in ReadAgain(g) \cup ForwardOps(g)
        /\ x \in ForwardOps(g) => ReadIn(g, x, "bwd") /\ x \notin ReadAgain(g)
    BY BackwardReads
  <1>5. TypeOf(x) = "input" => Computed(model, g)[x] = Given(model, x)
    BY <1>4, ValueAt DEF Value
  <1>6. CASE x \in ForwardOps(g)
    <2>1. y \in Showing(Forward, x)
      BY <1>6 DEF ReadFor
    <2>2. y \in SavedBy(g)
      BY <1>4, <1>6, <2>1, ShowingIs
    <2>3. Backward.node[y].type = "input"
      BY <2>2, <1>1 DEF IsBackwardOf, Saved, Node
    <2>4. f[y] = ExactOf(g, y)
      BY <1>2, <1>3, <2>2, <2>3 DEF Passed
    <2> QED
      BY <1>6, <2>1, <2>4, ShowsOp
  <1>7. CASE EpochOf(x) = "bwd"
    <2>1. x \notin ForwardOps(g)
      BY <1>7 DEF ForwardOps
    <2>2. y = x
      BY <2>1 DEF ReadFor
    <2>3. Origin(g, x) = x /\ x \notin SavedBy(g)
      BY <1>4, <1>7, OriginIs
    <2>4. Backward.node[x].type = TypeOf(x)
      <3>1. IsBackwardNode(g, Forward, x, Backward.node[x])
        BY <1>1, <1>4, <1>7 DEF IsBackwardOf
      <3> QED
        BY <3>1, <1>4 DEF IsBackwardNode
    <2>5. CASE TypeOf(x) = "input"
      BY <1>2, <1>3, <1>5, <2>2, <2>3, <2>4, <2>5 DEF Passed
    <2>6. CASE TypeOf(x) # "input"
      BY <1>2, <2>2, <2>3, <2>4, <2>6
    <2> QED
      BY <2>5, <2>6
  <1>8. CASE EpochOf(x) # "bwd" /\ x \notin ForwardOps(g)
    <2>1. y = x /\ x \in ReadAgain(g)
      BY <1>4, <1>8 DEF ReadFor
    <2>2. TypeOf(x) = "input" /\ x \in Forwards(g)
      BY <2>1 DEF ReadAgain
    <2>3. Backward.node[x].type = "input"
      <3>1. Backward.node[x] = g.node[x]
        BY <1>1, <2>1 DEF IsBackwardOf
      <3> QED
        BY <3>1, <2>2, <1>4 DEF Well, Whole, Fits
    <2>4. x \notin SavedBy(g)
      <3>1. x \notin Intermediates(g)
        BY <1>4, IntermediatesAreNew DEF Intermediates
      <3> QED
        BY <3>1, <2>2 DEF SavedBy
    <2> QED
      BY <1>2, <1>3, <1>5, <2>1, <2>2, <2>3, <2>4 DEF Passed
  <1> QED
    BY <1>6, <1>7, <1>8

\* Entry by entry, the operands of a backward node have the elements of those it had in the
\* whole graph.
LEMMA RestoresOperands ==
    ASSUME IsTraced(model), ResultsDiffer, NEW g, Well(g), Listed(model, g), Follows(model, g),
           IsForward(g, Forward), IsBackward(g, Forward, Backward), NEW env, IsGiven(g, env),
           NEW f, IsRestored(g, env, f), NEW n \in Backwards(g),
           NEW s, s = g.node[n].ins, NEW t, t = Backward.node[BackwardName(n)].ins
    PROVE  /\ s \in Seq(DOMAIN g.node) /\ DOMAIN t = DOMAIN s
           /\ Mapped(f, t) = Mapped(Computed(model, g), s)
           /\ \A i \in DOMAIN s : f[t[i]] = Computed(model, g)[s[i]]
  <1> DEFINE y == BackwardName(n)
             h == Backward
  <1>1. IsBackwardOf(g, Forward, Backwards(g), h) /\ IsGraph(h)
    BY DEF IsBackward, IsBackwardOf
  <1>2. /\ y \in DOMAIN h.node /\ IsBackwardNode(g, Forward, n, h.node[y])
        /\ n \in DOMAIN g.node
    BY <1>1 DEF IsBackwardOf, Backwards
  <1>3. s \in Seq(DOMAIN g.node) /\ t \in Seq(DOMAIN h.node)
    BY <1>1, <1>2 DEF IsGraph, Records, Well
  <1>4. \A x \in ToSet(s) :
           /\ x \in ForwardOps(g) => Single(Showing(Forward, x))
           /\ TypeOf(n) = "queue" => ReadFor(g, Forward, x) = {x}
    BY BackwardReads, ShownOnce DEF ReadFor, ForwardOps
  <1>5. Len(t) = Len(s) /\ \A i \in DOMAIN s : t[i] \in ReadFor(g, Forward, s[i])
    <2>1. CASE TypeOf(n) = "queue"
      <3>1. t = s
        BY <1>2, <2>1 DEF IsBackwardNode
      <3> QED
        BY <3>1, <2>1, <1>3, <1>4, Entries
    <2>2. CASE TypeOf(n) # "queue"
      <3>1. IsBackwardOperands(g, Forward, s, t)
        BY <1>2, <2>2 DEF IsBackwardNode
      <3>2. \A x \in ToSet(s) \cap ForwardOps(g) : \E o : Showing(Forward, x) = {o}
        BY <1>4 DEF Single
      <3> QED
        BY <3>1, <3>2 DEF IsBackwardOperands
    <2> QED
      BY <2>1, <2>2
  <1> HIDE DEF h, y
  <1>6. /\ DOMAIN t = DOMAIN s
        /\ \A i \in DOMAIN s : s[i] \in ToSet(s) /\ t[i] \in ToSet(t) /\ t[i] \in DOMAIN h.node
    BY <1>3, <1>5, Entries
  <1>7. ASSUME NEW i \in DOMAIN s PROVE f[t[i]] = Computed(model, g)[s[i]]
    <2>1. s[i] \in ToSet(g.node[n].ins) /\ t[i] \in ReadFor(g, Forward, s[i])
          /\ t[i] \in DOMAIN Backward.node
      BY <1>5, <1>6 DEF h
    <2>2. Read(Backward, t[i])
      BY <1>2, <1>6 DEF Read, h, y
    <2> QED
      BY <2>1, <2>2, RestoresOperand
  <1> DEFINE val == Computed(model, g)
  <1> HIDE DEF val
  <1>8. \A i \in DOMAIN s : f[t[i]] = val[s[i]]
    BY <1>7 DEF val
  <1>9. Mapped(f, t) = Mapped(val, s)
    BY <1>6, <1>8 DEF Mapped
  <1> QED
    BY <1>3, <1>6, <1>8, <1>9 DEF val

\* A run of the backward program computes for each of its nodes what a run of the whole
\* graph computes for the node it is made of.
LEMMA BackwardValues ==
    ASSUME IsTraced(model), ResultsDiffer, NEW g, Well(g), Listed(model, g), Follows(model, g),
           IsForward(g, Forward), IsBackward(g, Forward, Backward), NEW env, IsGiven(g, env),
           Runnable(Backward, env)
    PROVE  \A n \in Backwards(g) : TypeOf(n) # "input" =>
              Values(Backward, env)[BackwardName(n)] = Computed(model, g)[n]
  <1> DEFINE h == Backward
             val == Computed(model, g)
             f == [y \in DOMAIN Backward.node |->
                      IF Backward.node[y].type = "input" THEN env[y]
                      ELSE Computed(model, g)[Origin(g, y)]]
  <1>1. IsBackwardOf(g, Forward, Backwards(g), h) /\ IsGraph(h) /\ Acyclic(h)
    BY DEF IsBackward, IsBackwardOf
  <1>2. IsRestored(g, env, f)
    BY DEF IsRestored
  <1> HIDE DEF f
  <1>3. f = [y \in DOMAIN h.node |-> IF h.node[y].type = "input" THEN env[y]
                                     ELSE val[Origin(g, y)]]
    BY <1>2 DEF IsRestored
  <1>4. ASSUME NEW y \in DOMAIN h.node PROVE f[y] = Body(h, env, f, y)
    <2>1. CASE h.node[y].type = "input"
      BY <1>3, <2>1 DEF Body
    <2>2. CASE h.node[y].type # "input"
      <3>1. y \notin SavedBy(g)
        BY <2>2, <1>1 DEF IsBackwardOf, Saved, Node
      <3>2. y \notin ReadAgain(g)
        BY <2>2, <1>1 DEF IsBackwardOf, ReadAgain, Forwards, Well, Whole, Fits
      <3>3. PICK n \in Backwards(g) : y = BackwardName(n)
        BY <3>1, <3>2, <1>1 DEF IsBackwardOf
      <3>4. /\ n \in DOMAIN g.node /\ IsBackwardNode(g, Forward, n, h.node[y])
            /\ Origin(g, y) = n
        BY <3>3, <1>1, OriginIs DEF IsBackwardOf, Backwards
      <3> DEFINE s == g.node[n].ins
                 t == h.node[y].ins
      <3>5. /\ DOMAIN t = DOMAIN s /\ Mapped(f, t) = Mapped(val, s)
            /\ \A i \in DOMAIN s : f[t[i]] = val[s[i]]
        <4>1. t = Backward.node[BackwardName(n)].ins
          BY <3>3
        <4> HIDE DEF s, t, h, val
        <4>2. s = g.node[n].ins /\ n \in Backwards(g)
          BY <3>3 DEF s
        <4>3. /\ DOMAIN t = DOMAIN s /\ Mapped(f, t) = Mapped(Computed(model, g), s)
              /\ \A i \in DOMAIN s : f[t[i]] = Computed(model, g)[s[i]]
          <5>1. /\ IsTraced(model) /\ ResultsDiffer /\ Well(g) /\ Listed(model, g)
                /\ Follows(model, g) /\ IsForward(g, Forward)
                /\ IsBackward(g, Forward, Backward) /\ IsGiven(g, env) /\ IsRestored(g, env, f)
            BY <1>2
          <5> QED
            BY ONLY <4>1, <4>2, <5>1, RestoresOperands
        <4> QED
          BY <4>3 DEF val
      <3>6. f[y] = val[n]
        BY <2>2, <1>3, <3>4
      <3>7. val[n] = Value(model, g, val, n)
        BY <3>4, ValueAt
      <3> HIDE DEF val
      <3>8. TypeOf(n) \in {"op", "queue", "output"}
        BY <2>2, <3>4 DEF IsBackwardNode, TypeOf
      <3>9. CASE TypeOf(n) = "op"
        <4>1. h.node[y].type = "op" /\ h.node[y].role = g.node[n].role
          BY <3>4, <3>9 DEF IsBackwardNode
        <4>2. Body(h, env, f, y) = Apply(h.node[y].role, Mapped(f, t))
          BY <4>1 DEF Body, Mapped
        <4>3. Value(model, g, val, n) = Apply(g.node[n].role, Mapped(val, s))
          BY <3>9 DEF Value
        <4> QED
          BY <3>5, <3>6, <3>7, <4>1, <4>2, <4>3
      <3>10. CASE TypeOf(n) # "op"
        <4>1. h.node[y].type = "output"
          BY <3>4, <3>8, <3>10 DEF IsBackwardNode
        <4>2. 1 \in DOMAIN s
          <5>1. Whole(n, g.node[n]) /\ s \in Seq(DOMAIN g.node)
            BY <3>4 DEF Well, IsGraph, Records
          <5>2. Len(s) = 1
            BY <5>1, <3>8, <3>10 DEF Whole, Fits, Ports
          <5> QED
            BY <5>1, <5>2
        <4>3. Body(h, env, f, y) = f[t[1]]
          BY <4>1 DEF Body
        <4>4. Value(model, g, val, n) = val[s[1]]
          BY <3>8, <3>10 DEF Value
        <4> QED
          BY <3>5, <3>6, <3>7, <4>2, <4>3, <4>4
      <3> QED
        BY <3>9, <3>10
    <2> QED
      BY <2>1, <2>2
  <1>5. ValuesStep(h, env, f)
    <2>1. f = [y \in DOMAIN h.node |-> f[y]]
      BY <1>3
    <2> QED
      BY <2>1, <1>4 DEF ValuesStep
  <1>6. ValuesStep(h, env, Values(h, env))
    BY <1>1, ValuesAre
  <1>7. Values(h, env) = f
    BY <1>1, <1>5, <1>6, ValuesSame
  <1>8. ASSUME NEW n \in Backwards(g), TypeOf(n) # "input"
        PROVE  f[BackwardName(n)] = val[n]
    <2>1. BackwardName(n) \in DOMAIN h.node /\ IsBackwardNode(g, Forward, n, h.node[BackwardName(n)])
      BY <1>1 DEF IsBackwardOf
    <2>2. h.node[BackwardName(n)].type # "input"
      BY <2>1, <1>8 DEF IsBackwardNode
    <2>3. Origin(g, BackwardName(n)) = n
      BY OriginIs
    <2> QED
      BY <1>3, <2>1, <2>2, <2>3
  <1> QED
    BY <1>7, <1>8

-----------------------------------------------------------------------------
\* What the programs return.

\* Each output of the forward program shows the element it is there for.
LEMMA ForwardShows ==
    ASSUME IsTraced(model), NEW g, Well(g), Listed(model, g), Follows(model, g),
           NEW fwd, IsForward(g, fwd), NEW env, Runnable(fwd, env),
           \A n \in Leaves : n \in DOMAIN fwd.node /\ Read(fwd, n) => env[n] = Point[n]
    PROVE  \A o \in ToSet(fwd.outputs) : Values(fwd, env)[o] = ExactOf(g, o)
  <1> DEFINE val == Values(fwd, env)
  <1>1. \A n \in Forwards(g) : fwd.node[n].type # "input" => val[n] = Exact[TensorOf(n)]
    BY ForwardValues
  <1>2. ValuesStep(fwd, env, val) /\ IsGraph(fwd)
    BY ForwardIsWired, ValuesAre DEF Wired
  <1>3. ToSet(fwd.outputs) = OutputNodes(model) \cup Intermediates(g)
    BY ForwardOutputsAre
  <1>4. ToSet(fwd.outputs) \subseteq DOMAIN fwd.node
    BY ForwardOutputsAre, Entries
  <1> HIDE DEF val
  <1>5. ASSUME NEW x \in Saves(g), NEW o, o = <<"intermediate", x>>
        PROVE  val[o] = ExactOf(g, o)
    <2>1. /\ o \in DOMAIN fwd.node /\ fwd.node[o].type = "output" /\ fwd.node[o].ins = <<x>>
          /\ o[2] = x /\ o \notin Forwards(g)
      BY <1>5, IntermediatesAreNew DEF IsForward, Intermediates, Forwards
    <2>2. val[o] = val[x]
      <3>1. val[o] = Body(fwd, env, val, o)
        BY <2>1, <1>2 DEF ValuesStep
      <3>2. fwd.node[o].ins[1] = x
        BY <2>1
      <3> QED
        BY <2>1, <3>1, <3>2 DEF Body
    <2>3. x \in Forwards(g) /\ TypeOf(x) = "op"
      BY DEF Saves, ForwardOps, Forwards
    <2>4. val[x] = Exact[TensorOf(x)]
      BY <2>3, <1>1 DEF IsForward
    <2> QED
      BY <2>1, <2>2, <2>4 DEF ExactOf
  <1>6. ASSUME NEW o \in OutputNodes(model), o \notin Intermediates(g)
        PROVE  val[o] = ExactOf(g, o)
    <2>1. o \in Forwards(g)
      BY <1>3, <1>4, <1>6 DEF IsForward
    <2>2. TypeOf(o) = "output"
      <3>1. PICK i \in DOMAIN model.outs : o = Output(model.outs[i])
        BY DEF OutputNodes, ModuleOutputs, ToSet
      <3> QED
        BY <3>1, NamesAre DEF Output
    <2> QED
      BY <2>1, <2>2, <1>1 DEF IsForward, ExactOf
  <1> QED
    BY <1>3, <1>5, <1>6 DEF Intermediates, val

\* So do the forward program's results.
LEMMA CallShows ==
    ASSUME StepInv, Follows(model, graph), pool = Point, Call, stage' = "called",
           NEW values, values = results'["Forward"]
    PROVE  /\ values \in [DOMAIN Forward.outputs -> Residues]
           /\ \A i \in DOMAIN Forward.outputs : values[i] = ExactOf(graph, Forward.outputs[i])
  <1> DEFINE points == [i \in DOMAIN Forward.inputs |-> Point[Forward.inputs[i]]]
             actuals == Actuals(Forward, points)
             env == Bound(Forward, actuals)
  <1>1. /\ SplitInv /\ RunsInv /\ stage = "compiled" /\ RunProgram("Forward", points, "called")
    BY DEF StepInv, Call
  <1>2. /\ IsTraced(model) /\ Well(graph) /\ Listed(model, graph)
        /\ IsForward(graph, Forward) /\ Wired(Forward)
    BY <1>1, RunningGraph DEF Running
  <1>3. points \in Seq(Residues) /\ pool \in [Leaves -> Residues]
    BY <1>1, <1>2, ForwardInputsAre, PointsAre DEF RunsInv
  <1>4. /\ values = OutputsOf(Forward, actuals) /\ Len(actuals) = Len(Formals(Forward))
        /\ values \in [DOMAIN Forward.outputs -> Residues]
    <2> HIDE DEF points
    <2> QED
      BY <1>1, <1>2, <1>3, RunIs DEF Forward
  <1>5. actuals \in Seq(Residues)
    BY <1>2, <1>3, ActualsAre DEF Wired
  <1>6. Runnable(Forward, env)
    BY <1>2, <1>4, <1>5, BoundRuns
  <1>7. \A n \in Leaves : n \in DOMAIN Forward.node /\ Read(Forward, n) => env[n] = Point[n]
    BY <1>2, <1>4, ForwardIsGiven
  <1> HIDE DEF points, env, actuals
  <1>8. \A o \in ToSet(Forward.outputs) : Values(Forward, env)[o] = ExactOf(graph, o)
    BY <1>2, <1>6, <1>7, ForwardShows
  <1>9. \A i \in DOMAIN Forward.outputs : Forward.outputs[i] \in ToSet(Forward.outputs)
    BY DEF ToSet
  <1>10. \A i \in DOMAIN Forward.outputs :
            values[i] = Values(Forward, env)[Forward.outputs[i]]
    BY <1>4 DEF OutputsOf, env
  <1> QED
    BY <1>4, <1>8, <1>9, <1>10

\* When the gradients could be left, there is a place for each, and it is there.
LEMMA LossTies ==
    ASSUME StepInv, LossBackward, stage' = "tied"
    PROVE  /\ Len(GradientInputs) = Len(model.outs)
           /\ gradient_inputs' = [i \in DOMAIN model.outs |-> Seed[i]]
  <1>1. /\ SplitInv /\ RunsInv /\ stage = "called"
    BY DEF StepInv, LossBackward
  <1>2. /\ IsTraced(model) /\ Well(graph) /\ Listed(model, graph)
        /\ IsForward(graph, Forward) /\ IsBackward(graph, Forward, Backward)
    BY <1>1, RunningGraph DEF Running
  <1> DEFINE inputs == GradientInputs
             shown == Externals
             given == gradient_inputs
             n == Len(model.outs)
  <1>3. inputs \in Seq(DOMAIN Backward.node) /\ Len(inputs) <= n
    BY <1>2, GradientInputsAre, GradientSlots
  <1>4. shown \in Seq(DOMAIN Forward.node) /\ Len(shown) = n
    BY <1>2, ExternalsAre
  <1>5. DOMAIN model.outs = 1..n /\ n \in Nat
    BY <1>2, SeedsAre
  <1>6. given = [i \in DOMAIN inputs |-> None]
    BY <1>1 DEF RunsInv
  <1>7. /\ ~(Len(shown) > Len(given))
        /\ gradient_inputs' = [i \in DOMAIN given |-> IF i \in DOMAIN shown THEN Seed[i] ELSE None]
    BY DEF LossBackward
  <1> HIDE DEF inputs, shown, given, n
  <1>8. DOMAIN inputs = 1..Len(inputs) /\ Len(inputs) \in Nat
    BY <1>3
  <1>9. given \in Seq({None}) /\ Len(given) = Len(inputs) /\ DOMAIN given = DOMAIN inputs
    <2>1. given \in [1..Len(inputs) -> {None}]
      BY <1>6, <1>8
    <2> QED
      BY <2>1, <1>8
  <1>10. Len(inputs) = n
    <2>1. ~(Len(shown) > Len(inputs)) /\ Len(shown) = n
      BY <1>4, <1>7, <1>9 DEF n
    <2>2. Len(inputs) <= n
      BY <1>3
    <2> DEFINE p == Len(inputs)
    <2>3. ~(n > p) /\ p <= n /\ p \in Nat /\ n \in Nat
      BY <2>1, <2>2, <1>5, <1>8
    <2> HIDE DEF p
    <2>4. p = n
      BY ONLY <2>3
    <2> QED
      BY <2>4 DEF p
  <1>11. DOMAIN given = DOMAIN model.outs /\ DOMAIN shown = DOMAIN model.outs
    <2>1. DOMAIN shown = 1..Len(shown)
      BY <1>4
    <2> QED
      BY <2>1, <1>4, <1>5, <1>8, <1>9, <1>10
  <1> QED
    BY <1>7, <1>10, <1>11 DEF inputs, n

\* The output shown has the value v among a program's results.
ShowsAs(h, values, shown, v) ==
    \A i \in DOMAIN h.outputs : h.outputs[i] = shown => values[i] = v

\* One of a program's outputs is picked.
LEMMA PickedOne ==
    ASSUME NEW h, IsGraph(h), h.outputs = OfType(h, "output"), NEW values,
           NEW shown \in DOMAIN h.node, h.node[shown].type = "output", NEW v,
           ShowsAs(h, values, shown, v)
    PROVE  Picked(h, values, {shown}) = <<v>>
  <1> DEFINE outs == h.outputs
             N == DOMAIN h.node
             id == [i \in DOMAIN outs |-> i]
             J == {i \in DOMAIN outs : outs[i] \in {shown}}
             at == Only(id, J)
             one == Only(outs, {shown})
  <1>1. /\ outs \in Seq(N) /\ Distinct(outs) /\ shown \in ToSet(outs)
    BY OfTypeIs
  <1>2. Picked(h, values, {shown}) = [j \in DOMAIN at |-> values[at[j]]]
    BY DEF Picked
  <1>3. \A i \in DOMAIN outs : outs[i] \in {shown} <=> i \in J
    OBVIOUS
  <1> HIDE DEF id, J
  <1>4. id = [i \in DOMAIN outs |-> i]
    BY DEF id
  <1>5. \A i \in DOMAIN outs : outs[i] = shown => values[i] = v
    BY DEF ShowsAs
  <1> HIDE DEF outs, N
  <1>6. /\ at \in Seq(DOMAIN outs) /\ Len(one) = Len(at) /\ DOMAIN one = DOMAIN at
        /\ \A j \in DOMAIN at : one[j] = outs[at[j]]
    <2> DEFINE S == {shown}
    <2>1. Marks(outs, S, J) /\ Numbers(outs, id)
      BY <1>3, <1>4 DEF Marks, Numbers
    <2>2. one = Only(outs, S)
      OBVIOUS
    <2> HIDE DEF one, S
    <2> QED
      BY <1>1, <2>1, <2>2, OnlyAt
  <1>7. one \in Seq(N) /\ ToSet(one) = {shown} /\ Distinct(one)
    BY <1>1, OnlyMembers, OnlyDistinct
  <1> HIDE DEF at, one
  <1>8. Len(one) = 1
    BY <1>7, CountsOf
  <1>9. DOMAIN at = 1..1 /\ 1 \in DOMAIN at
    <2>1. DOMAIN one = 1..Len(one)
      BY <1>7
    <2> QED
      BY <2>1, <1>6, <1>8
  <1>10. at[1] \in DOMAIN outs /\ one[1] = shown
    BY <1>6, <1>7, <1>9, Entries
  <1>11. values[at[1]] = v
    BY <1>5, <1>6, <1>9, <1>10
  <1>12. [j \in DOMAIN at |-> values[at[j]]] = <<v>>
    <2>1. [j \in DOMAIN at |-> values[at[j]]] = [j \in 1..1 |-> v]
      BY <1>9, <1>11
    <2>2. [j \in 1..1 |-> v] = <<v>>
      OBVIOUS
    <2> QED
      BY <2>1, <2>2
  <1> QED
    BY <1>2, <1>12

\* The gradients are what r has where the backward program shows them.
Gives(r) ==
    \A l \in model.trained : l \in DOMAIN graph.node =>
        Picked(Backward, r, {IF l \in Weights THEN <<"grad_output", gradients[l][1]>>
                             ELSE gradients[l][1]})
            = <<Gradient(l)>>
Tied ==
    /\ Len(GradientInputs) = Len(model.outs)
    /\ gradient_inputs = [i \in DOMAIN model.outs |-> Seed[i]]

\* The backward program, if it is not refused, returns the gradients.
LEMMA BackwardGives ==
    ASSUME StepInv, ResultsDiffer, Follows(model, graph), InOrder(model, graph.inputs),
           pool = Point, Tied, ShowsExact(graph), Completed(graph, gradients),
           RunBackward, stage' = "differentiated", NEW values, values = results'["Backward"]
    PROVE  Gives(values)
  <1> DEFINE acts == BackwardActivations
             actuals == Actuals(Backward, acts)
             env == Bound(Backward, actuals)
             h == Backward
  <1>1. /\ SplitInv /\ RunsInv /\ stage = "tied"
        /\ RunProgram("Backward", acts, "differentiated")
    BY DEF StepInv, RunBackward
  <1>2. /\ IsTraced(model) /\ Well(graph) /\ Listed(model, graph)
        /\ IsForward(graph, Forward) /\ IsBackward(graph, Forward, h) /\ Wired(h)
    BY <1>1, RunningGraph DEF Running
  <1>3. acts \in Seq(Residues) /\ pool \in [Leaves -> Residues]
    BY <1>1, ActivationsAre DEF RunsInv
  <1>4. values = OutputsOf(h, actuals) /\ Len(actuals) = Len(Formals(h))
    <2> HIDE DEF acts
    <2> QED
      BY <1>1, <1>2, <1>3, RunIs DEF Backward
  <1>5. /\ actuals \in Seq(Residues)
        /\ \A n \in ToSet(Formals(h)) : env[n] = Passed(graph, n)
    <2>1. actuals = Actuals(Backward, BackwardActivations)
      OBVIOUS
    <2>2. Len(GradientInputs) = Len(model.outs)
          /\ gradient_inputs = [i \in DOMAIN model.outs |-> Seed[i]]
      BY DEF Tied
    <2> HIDE DEF actuals, acts
    <2> QED
      BY <2>1, <2>2, <1>2, <1>4, BackwardIsGiven
  <1> HIDE DEF actuals, acts
  <1>6. Runnable(h, env) /\ IsGiven(graph, env)
    BY <1>2, <1>4, <1>5, BoundRuns DEF IsGiven
  <1> DEFINE run == Values(h, env)
  <1>7. \A n \in Backwards(graph) : TypeOf(n) # "input" =>
           run[BackwardName(n)] = Computed(model, graph)[n]
    <2> HIDE DEF env
    <2> QED
      BY <1>2, <1>6, BackwardValues
  <1>8. /\ IsBackwardOf(graph, Forward, Backwards(graph), h) /\ IsGraph(h)
        /\ h.outputs = OfType(h, "output")
    BY <1>2 DEF IsBackward, IsBackwardOf
  <1>9. \A i \in DOMAIN h.outputs : values[i] = run[h.outputs[i]]
    BY <1>4 DEF OutputsOf
  <1> HIDE DEF env, run, h
  <1>10. ASSUME NEW l \in model.trained, l \in DOMAIN graph.node
         PROVE  Picked(h, values, {IF l \in Weights THEN <<"grad_output", gradients[l][1]>>
                                   ELSE gradients[l][1]}) = <<Gradient(l)>>
    <2> DEFINE n == Sink(l)
               shown == BackwardName(n)
    <2>1. /\ n \in DOMAIN graph.node /\ gradients[l][1] = n
          /\ Computed(model, graph)[n] = Gradient(l)
      BY <1>10 DEF Completed
    <2>2. /\ EpochOf(n) = "bwd"
          /\ l \in Weights => n = <<"grad_acc", l>> /\ TypeOf(n) = "queue"
          /\ l \notin Weights => n = <<"output_grad", l>> /\ TypeOf(n) = "output"
      BY NamesAre, NotLeaves DEF Sink
    <2>3. n \in Backwards(graph) /\ TypeOf(n) \in {"queue", "output"}
      BY <2>1, <2>2 DEF Backwards
    <2>4. shown = IF l \in Weights THEN <<"grad_output", gradients[l][1]>> ELSE gradients[l][1]
      BY <2>1, <2>2 DEF BackwardName
    <2>5. shown \in DOMAIN h.node /\ h.node[shown].type = "output"
      BY <2>3, <1>8 DEF IsBackwardOf, IsBackwardNode
    <2>6. run[shown] = Gradient(l)
      BY <2>1, <2>3, <1>7
    <2> HIDE DEF shown, n
    <2>7. ShowsAs(h, values, shown, Gradient(l))
      BY <2>6, <1>9 DEF ShowsAs
    <2>8. Picked(h, values, {shown}) = <<Gradient(l)>>
      BY <2>5, <2>7, <1>8, PickedOne
    <2> QED
      BY <2>4, <2>8
  <1> QED
    BY <1>10 DEF Gives, h

-----------------------------------------------------------------------------
\* The backward program returns the gradients.

\* What the programs have left each other: the forward program's results are what its
\* outputs show, and the gradients are in their places.
Shared ==
    /\ stage # "stepped" => pool = Point
    /\ "Forward" \in DOMAIN results => ShowsExact(graph)
    /\ stage = "tied" => Tied
BackInv == FlowInv /\ Ordered /\ Shared /\ BackwardReturnsTheGradients

\* A step that leaves the graphs leaves what is said of them.
LEMMA SameShared ==
    ASSUME model' = model, graph' = graph, programs' = programs, gradients' = gradients
    PROVE  /\ Forward' = Forward /\ Backward' = Backward /\ GradientInputs' = GradientInputs
           /\ (/\ results'["Forward"] \in [DOMAIN Forward.outputs -> Residues]
               /\ \A i \in DOMAIN Forward.outputs :
                     results'["Forward"][i] = ExactOf(graph, Forward.outputs[i]))
                  => ShowsExact(graph)'
           /\ ("Backward" \in DOMAIN results' => Gives(results'["Backward"]))
                  => BackwardReturnsTheGradients'
  <1>1. Forward' = Forward /\ Backward' = Backward /\ GradientInputs' = GradientInputs
    BY DEF Forward, Backward, GradientInputs
  <1>2. Exact' = Exact
    BY DEF Exact, OpOf, Args
  <1>3. ASSUME results'["Forward"] \in [DOMAIN Forward.outputs -> Residues],
               \A i \in DOMAIN Forward.outputs :
                  results'["Forward"][i] = ExactOf(graph, Forward.outputs[i])
        PROVE  ShowsExact(graph)'
    <2> SUFFICES /\ results'["Forward"] \in [DOMAIN Forward'.outputs -> Residues]
                 /\ \A i \in DOMAIN Forward'.outputs :
                       results'["Forward"][i] =
                          IF Forward'.outputs[i] \in Forwards(graph')
                          THEN Exact'[TensorOf(Forward'.outputs[i])]
                          ELSE Exact'[TensorOf(Forward'.outputs[i][2])]
      BY DEF ShowsExact, ExactOf
    <2> QED
      BY <1>1, <1>2, <1>3 DEF ExactOf
  <1>4. ASSUME "Backward" \in DOMAIN results' => Gives(results'["Backward"])
        PROVE  BackwardReturnsTheGradients'
    <2>1. \A l : Gradient(l)' = Gradient(l)
      BY SameGradients
    <2> SUFFICES ASSUME "Backward" \in DOMAIN results', NEW l \in model.trained,
                        l \in DOMAIN graph.node
                 PROVE  Picked(Backward', results'["Backward"],
                               {IF l \in Weights THEN <<"grad_output", gradients[l][1]>>
                                ELSE gradients[l][1]}) = <<Gradient(l)>>
      BY <2>1 DEF BackwardReturnsTheGradients, HasNode
    <2> QED
      BY <1>1, <1>4 DEF Gives
  <1> QED
    BY <1>1, <1>3, <1>4

\* What the invariant says of the programs' results.
LEMMA SharedIs ==
    ASSUME BackInv
    PROVE  /\ StepInv /\ (stage # "trace" => Follows(model, graph))
           /\ "Forward" \in DOMAIN results =>
                 /\ results["Forward"] \in [DOMAIN Forward.outputs -> Residues]
                 /\ \A i \in DOMAIN Forward.outputs :
                       results["Forward"][i] = ExactOf(graph, Forward.outputs[i])
           /\ "Backward" \in DOMAIN results => Gives(results["Backward"])
  BY DEF BackInv, FlowInv, Shared, ShowsExact, BackwardReturnsTheGradients, Gives, HasNode

\* A run leaves the results of the other programs.
LEMMA OthersStay ==
    ASSUME NEW p, NEW q, q # p, NEW activations, NEW to, RunProgram(p, activations, to)
    PROVE  q \in DOMAIN results' => q \in DOMAIN results /\ results'[q] = results[q]
  BY DEF RunProgram, With

\* A step that leaves the graphs and the results keeps what is said of them.
LEMMA SharedStays ==
    ASSUME BackInv, model' = model, graph' = graph, programs' = programs,
           gradients' = gradients,
           \A p \in {"Forward", "Backward"} : p \in DOMAIN results' =>
              p \in DOMAIN results /\ results'[p] = results[p]
    PROVE  /\ "Forward" \in DOMAIN results' => ShowsExact(graph)'
           /\ BackwardReturnsTheGradients'
  BY SharedIs, SameShared

\* The invariant is kept by the compilation: no program has run.
LEMMA CompileShares ==
    ASSUME BackInv, Compile
    PROVE  /\ "Forward" \in DOMAIN results' => ShowsExact(graph)'
           /\ stage' = "tied" => Tied'
           /\ BackwardReturnsTheGradients'
  <1>1. stage \notin Running /\ stage' \notin Running \ {"compiled"} /\ results' = results
    BY CompileStages DEF Compile
  <1>2. DOMAIN results = {}
    BY <1>1, SharedIs DEF StepInv, RunsInv
  <1> QED
    BY <1>1, <1>2 DEF Running, BackwardReturnsTheGradients

\* By the call of the forward program.
LEMMA CallShares ==
    ASSUME BackInv, Call
    PROVE  /\ "Forward" \in DOMAIN results' => ShowsExact(graph)'
           /\ stage' = "tied" => Tied'
           /\ BackwardReturnsTheGradients'
  <1> DEFINE points == [i \in DOMAIN Forward.inputs |-> Point[Forward.inputs[i]]]
  <1>1. /\ stage = "compiled" /\ RunProgram("Forward", points, "called")
        /\ model' = model /\ graph' = graph /\ programs' = programs /\ gradients' = gradients
    BY DEF Call
  <1> HIDE DEF points
  <1>2. StepInv /\ Follows(model, graph) /\ pool = Point /\ DOMAIN results = {}
    BY <1>1, SharedIs DEF BackInv, Shared, StepInv, RunsInv, Running
  <1>3. stage' = "called" \/ (stage' = "refused" /\ results' = results)
    BY <1>1 DEF RunProgram
  <1>4. "Backward" \notin DOMAIN results'
    BY <1>1, <1>2, OthersStay
  <1>5. "Forward" \in DOMAIN results' => ShowsExact(graph)'
    <2>1. CASE stage' = "called"
      <3>1. /\ results'["Forward"] \in [DOMAIN Forward.outputs -> Residues]
            /\ \A i \in DOMAIN Forward.outputs :
                  results'["Forward"][i] = ExactOf(graph, Forward.outputs[i])
        BY <1>2, <2>1, CallShows
      <3> QED
        BY <3>1, <1>1, SameShared
    <2>2. CASE results' = results
      BY <2>2, <1>2
    <2> QED
      BY <2>1, <2>2, <1>3
  <1> QED
    BY <1>1, <1>3, <1>4, <1>5, SameShared

\* By torch's hooks.
LEMMA LossShares ==
    ASSUME BackInv, LossBackward
    PROVE  /\ "Forward" \in DOMAIN results' => ShowsExact(graph)'
           /\ stage' = "tied" => Tied'
           /\ BackwardReturnsTheGradients'
  <1>1. /\ results' = results
        /\ model' = model /\ graph' = graph /\ programs' = programs /\ gradients' = gradients
    BY DEF LossBackward
  <1>2. ("Forward" \in DOMAIN results' => ShowsExact(graph)') /\ BackwardReturnsTheGradients'
    BY <1>1, SharedStays
  <1>3. ASSUME stage' = "tied" PROVE Tied'
    <2>1. /\ Len(GradientInputs) = Len(model.outs)
          /\ gradient_inputs' = [i \in DOMAIN model.outs |-> Seed[i]]
      BY <1>3, SharedIs, LossTies
    <2>2. GradientInputs' = GradientInputs
      BY <1>1, SameShared
    <2> QED
      BY <2>1, <2>2, <1>1 DEF Tied
  <1> QED
    BY <1>2, <1>3

\* By the call of the backward program.
LEMMA BackwardShares ==
    ASSUME BackInv, RunBackward, ResultsDiffer
    PROVE  /\ "Forward" \in DOMAIN results' => ShowsExact(graph)'
           /\ stage' = "tied" => Tied'
           /\ BackwardReturnsTheGradients'
  <1>1. /\ stage = "tied" /\ RunProgram("Backward", BackwardActivations, "differentiated")
        /\ model' = model /\ graph' = graph /\ programs' = programs /\ gradients' = gradients
    BY DEF RunBackward
  <1>2. /\ StepInv /\ Follows(model, graph) /\ pool = Point /\ Tied
        /\ Completed(graph, gradients) /\ InOrder(model, graph.inputs)
        /\ "Forward" \in DOMAIN results
    BY <1>1, SharedIs, FlowStages DEF BackInv, Shared, Ordered, StepInv, RunsInv, Early
  <1>3. ShowsExact(graph)
    BY <1>2 DEF BackInv, Shared
  <1>4. stage' = "differentiated" \/ (stage' = "refused" /\ results' = results)
    BY <1>1 DEF RunProgram
  <1>5. "Forward" \in DOMAIN results' => ShowsExact(graph)'
    <2>1. "Forward" \in DOMAIN results' => results'["Forward"] = results["Forward"]
      BY <1>1, OthersStay
    <2> QED
      BY <2>1, <1>1, <1>2, SharedIs, SameShared
  <1>6. BackwardReturnsTheGradients'
    <2>1. CASE stage' = "differentiated"
      <3>1. Gives(results'["Backward"])
        BY <1>2, <1>3, <2>1, BackwardGives
      <3> QED
        BY <3>1, <1>1, SameShared
    <2>2. CASE results' = results
      BY <2>2, <1>1, SharedStays
    <2> QED
      BY <2>1, <2>2, <1>4
  <1> QED
    BY <1>4, <1>5, <1>6

\* By the call of the optimizer, and once the step has ended.
LEMMA LaterShares ==
    ASSUME BackInv, Step \/ UNCHANGED stepVars
    PROVE  /\ "Forward" \in DOMAIN results' => ShowsExact(graph)'
           /\ stage' = "tied" => Tied'
           /\ BackwardReturnsTheGradients'
  <1>1. CASE Step
    <2>1. /\ RunProgram("Optimizer", results["Backward"], "stepped") /\ stage' # "tied"
          /\ model' = model /\ graph' = graph /\ programs' = programs /\ gradients' = gradients
      BY <1>1 DEF Step, RunProgram
    <2>2. \A p \in {"Forward", "Backward"} : p \in DOMAIN results' =>
             p \in DOMAIN results /\ results'[p] = results[p]
      BY <2>1, OthersStay
    <2> QED
      BY <2>1, <2>2, SharedStays
  <1>2. CASE UNCHANGED stepVars
    <2>1. /\ model' = model /\ graph' = graph /\ programs' = programs /\ gradients' = gradients
          /\ results' = results /\ gradient_inputs' = gradient_inputs /\ stage' = stage
      BY <1>2 DEF stepVars, splitVars, autogradVars
    <2>2. stage' = "tied" => Tied'
      BY <2>1, SameShared DEF BackInv, Shared, Tied
    <2> QED
      BY <2>1, <2>2, SharedStays
  <1> QED
    BY <1>1, <1>2

\* Every step keeps the invariant.
LEMMA BackKeeps ==
    ASSUME BackInv, ResultsDiffer, [Next]_stepVars
    PROVE  BackInv'
  <1>1. FlowInv'
    BY FlowKeeps DEF BackInv
  <1>2. Ordered'
    <2>1. CASE Next
      BY <2>1, SharedIs, OrderedKeeps DEF BackInv
    <2>2. CASE UNCHANGED stepVars
      BY <2>2 DEF BackInv, Ordered, stepVars, splitVars, autogradVars
    <2> QED
      BY <2>1, <2>2
  <1>3. stage' # "stepped" => pool' = Point
    <2>1. CASE Next
      BY <2>1, PoolStays DEF BackInv, Shared
    <2>2. CASE UNCHANGED stepVars
      BY <2>2 DEF BackInv, Shared, stepVars, splitVars, autogradVars
    <2> QED
      BY <2>1, <2>2
  <1>4. /\ "Forward" \in DOMAIN results' => ShowsExact(graph)'
        /\ stage' = "tied" => Tied'
        /\ BackwardReturnsTheGradients'
    BY CompileShares, CallShares, LossShares, BackwardShares, LaterShares DEF Next, Finished
  <1> QED
    BY <1>1, <1>2, <1>3, <1>4 DEF BackInv, Shared

\* Whatever the module, if it returns no tensor twice: the backward program, when it is
\* not refused, returns for each trained leaf the gradient of the leaf, and nothing else
\* at the leaf's output (split_graph.cpp:290-321, compiled_graph_state.py:372-389).  Its
\* arguments are told apart by position only: the gradients come in the order of the
\* outputs, the saved values in that of the forward program's results.
THEOREM BackwardAlwaysReturns ==
    ResultsDiffer => (Spec => []BackwardReturnsTheGradients)
  <1> SUFFICES ASSUME ResultsDiffer PROVE Spec => []BackwardReturnsTheGradients
    OBVIOUS
  <1>1. Init => BackInv
    <2> SUFFICES ASSUME Init PROVE BackInv
      OBVIOUS
    <2>1. AutogradInit /\ stage = "trace" /\ pool = Point /\ DOMAIN results = {}
      BY DEF Init, SplitInit, AutogradInit
    <2>2. FlowInv
      BY <2>1, StepStarts, ReadFirst DEF FlowInv, Flows, Early
    <2>3. Ordered
      BY <2>1, OrderedFirst DEF Ordered
    <2> QED
      BY <2>1, <2>2, <2>3 DEF BackInv, Shared, BackwardReturnsTheGradients
  <1>2. BackInv /\ [Next]_stepVars => BackInv'
    BY BackKeeps
  <1>3. BackInv => BackwardReturnsTheGradients
    BY DEF BackInv
  <1> QED
    BY <1>1, <1>2, <1>3, PTL DEF Spec
=============================================================================
