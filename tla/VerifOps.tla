------------------------------ MODULE VerifOps ------------------------------
(***************************************************************************)
(* How verification compares two tensors (csrc/verif/verif_ops.cpp): by    *)
(* kernels that run over the elements and reduce them to one value.  The   *)
(* elements are split into chunks, one for each thread; a thread reduces   *)
(* its chunk, by vectors where it can, and then combines the result with   *)
(* the others' by compare-and-exchange on one atomic.                      *)
(*                                                                         *)
(* Elements are integers: rounding is left out, and so are overflows.      *)
(***************************************************************************)
EXTENDS Integers, Sequences

CONSTANTS
    Comparisons,    \* what is asked: the function, two views, the kind of elements, tolerances
    Special,        \* a NaN or an infinity
    NoResult,       \* there is no atomic while no kernel runs
    Lowest,         \* numeric_limits<scalar_t>::lowest()
    GrainSize,      \* at::internal::GRAIN_SIZE
    VecSize,        \* Vectorized<scalar_t>::size()
    MaxThreads      \* bound: at::get_num_threads()

VARIABLES
    comparison,     \* one of Comparisons
    results,        \* what its kernels have returned so far
    chunk_size,     \* elements per thread, 0 while no kernel runs
    at,             \* where each thread of the kernel is
    chunk_result, expected, desired,    \* locals of each thread
    global_result   \* the atomic

kernelVars == <<chunk_size, at, chunk_result, expected, desired, global_result>>
verifVars == <<comparison, results, kernelVars>>

-----------------------------------------------------------------------------
\* A view of a tensor, flattened: element i is stride * i elements into its storage.  A vector
\* is loaded from consecutive elements of the storage, whatever the stride is.
View == [storage : Seq(Int \cup {Special}), stride : Nat \ {0}, length : Nat]
Fits(v) == \A i \in 0..(v.length - 1) : 1 + i * v.stride \in DOMAIN v.storage
Dereference(v, i) == v.storage[1 + i * v.stride]
DereferenceVec(v, begin, i) == v.storage[1 + begin * v.stride + i]
IsContiguous(v) == v.stride = 1 \/ v.length <= 1
HasSpecial(v) == \E i \in 0..(v.length - 1) : Dereference(v, i) = Special

Functions == {"has_special_values", "max_abs_diff", "all_close", "calculate_tensor_pcc"}
Comparison == [of : Functions, a : View, b : View, floating : BOOLEAN, rtol : Nat, atol : Nat]

\* Both views are of one kind: "if all inputs are contiguous" (verif_ops.cpp:190) is then as good
\* as the code's "if one is".
ViewsAlike == \A c \in Comparisons : IsContiguous(c.a) <=> IsContiguous(c.b)

\* The callers compare shapes first; and forge/verify/compare.py calls two of the functions only
\* when has_special_values says that it may.
ASSUME VerifAssumption ==
    /\ Comparisons \subseteq Comparison
    /\ \A c \in Comparisons :
          /\ Fits(c.a) /\ Fits(c.b) /\ c.a.length = c.b.length
          /\ (~c.floating \/ c.of \in {"max_abs_diff", "calculate_tensor_pcc"})
                 => ~HasSpecial(c.a) /\ ~HasSpecial(c.b)
    /\ Special \notin Int /\ Lowest \in Int
    /\ {GrainSize, VecSize, MaxThreads} \subseteq Nat \ {0}

-----------------------------------------------------------------------------
\* Reductions

Larger(x, y) == IF x >= y THEN x ELSE y
Smaller(x, y) == IF x <= y THEN x ELSE y
Abs(x) == IF x >= 0 THEN x ELSE -x
DivUp(x, y) == (x + y - 1) \div y

\* do_reduce_op and vec_reduce_op
Reduce(op, x, y) ==
    IF op = "Max" THEN Larger(x, y) ELSE IF op = "Sum" THEN x + y ELSE x \/ y

\* A loop that reduces f[1], ..., f[n] into x.
ReduceInto(op, x, f, n) ==
    LET result[k \in 0..n] == IF k = 0 THEN x ELSE Reduce(op, result[k - 1], f[k])
    IN  result[n]

\* The kernels each function runs, in order.  has_special_values runs none for integers.
Kernels(c) ==
    IF c.of = "has_special_values" THEN IF c.floating THEN <<"special_a">> ELSE <<>>
    ELSE IF c.of = "max_abs_diff" THEN <<"abs_diff">>
    ELSE IF c.of = "calculate_tensor_pcc" THEN <<"cov_aa", "cov_ab", "cov_ba", "cov_bb">>
    ELSE IF c.floating THEN <<"special_a", "special_b", "excess">> ELSE <<"differs">>

ReduceOp(kernel) ==
    IF kernel \in {"abs_diff", "excess"} THEN "Max"
    ELSE IF kernel \in {"special_a", "special_b", "differs"} THEN "LogicalOr"
    ELSE "Sum"
InitValue(op) == IF op = "Max" THEN Lowest ELSE IF op = "Sum" THEN 0 ELSE FALSE

\* The kernels that go by vectors: those that reduce to a maximum.
Vectorized(kernel) == ReduceOp(kernel) = "Max"

\* calculate_mean, times the number of elements
Total(v) == ReduceInto("Sum", 0, [i \in 1..v.length |-> Dereference(v, i - 1)], v.length)

\* cov_ij, of one pair of elements, times the third power of their number
Deviation(v, x) == v.length * x - Total(v)

\* What a kernel computes of one pair of elements.
Element(c, kernel, x, y) ==
    IF kernel = "special_a" THEN x = Special
    ELSE IF kernel = "special_b" THEN y = Special
    ELSE IF kernel = "differs" THEN x # y
    ELSE IF kernel = "abs_diff" THEN Abs(x - y)
    ELSE IF kernel = "excess" THEN Abs(x - y) - c.atol - c.rtol * Abs(y)
    ELSE IF kernel = "cov_aa" THEN Deviation(c.a, x) * Deviation(c.a, x)
    ELSE IF kernel = "cov_bb" THEN Deviation(c.b, y) * Deviation(c.b, y)
    ELSE Deviation(c.a, x) * Deviation(c.b, y)

\* No element of a kernel's result is lower than its type allows.
ASSUME LowestAssumption ==
    /\ Lowest <= 0
    /\ \A c \in Comparisons : \A i \in 0..(c.a.length - 1) :
          c.of = "all_close" /\ ~HasSpecial(c.a) /\ ~HasSpecial(c.b) =>
              Lowest <= Element(c, "excess", Dereference(c.a, i), Dereference(c.b, i))

-----------------------------------------------------------------------------
Numel == comparison.a.length
Kernel == Kernels(comparison)[Len(results) + 1]
Op == ReduceOp(Kernel)

\* all_close asserts that neither tensor has special values.
Refused ==
    /\ comparison.of = "all_close" /\ comparison.floating
    /\ \E i \in DOMAIN results \cap {1, 2} : results[i]
Ended == Refused \/ Len(results) = Len(Kernels(comparison))

\* Mutant of ChunkSize: rounded down, so that there are more chunks than threads.
ChunkSizeRoundedDown(threads) ==
    IF Numel <= GrainSize THEN Larger(1, Numel)
    ELSE Numel \div Smaller(threads, DivUp(Numel, GrainSize))

\* at::parallel_for: thread t has the elements from Begin(t) up to End(t).
ChunkSize(threads) ==
    IF Numel <= GrainSize THEN Larger(1, Numel)
    ELSE DivUp(Numel, Smaller(threads, DivUp(Numel, GrainSize)))
Threads == IF chunk_size = 0 THEN {} ELSE 1..DivUp(Numel, chunk_size)
Begin(t) == (t - 1) * chunk_size
End(t) == Smaller(t * chunk_size, Numel)

ElementAt(i) ==
    Element(comparison, Kernel, Dereference(comparison.a, i), Dereference(comparison.b, i))
VecElementAt(begin, i) ==
    Element(comparison, Kernel, DereferenceVec(comparison.a, begin, i),
                                DereferenceVec(comparison.b, begin, i))

\* The inputs a vector can be loaded of: one that is contiguous is taken to be enough.
Vectorizable == IsContiguous(comparison.a) \/ IsContiguous(comparison.b)
VectorSteps(n) == n \div VecSize

\* The loop over a chunk: VecSize lanes over as many vectors as there are, reduced to one value
\* (reduce_vec_into_scalar); then the elements that are left, one after the other.
Lane(begin, steps, j) ==
    ReduceInto(Op, InitValue(Op),
               [s \in 1..steps |-> VecElementAt(begin, (s - 1) * VecSize + j - 1)], steps)

ReduceElements(x, from, to) ==
    ReduceInto(Op, x, [i \in 1..(to - from) |-> ElementAt(from + i - 1)], to - from)

ChunkResult(begin, end) ==
    LET steps == IF Vectorized(Kernel) /\ Vectorizable THEN VectorSteps(end - begin) ELSE 0
        vectors == ReduceInto(Op, InitValue(Op),
                              [j \in 1..VecSize |-> Lane(begin, steps, j)], VecSize)
    IN  ReduceElements(vectors, begin + steps * VecSize, end)

-----------------------------------------------------------------------------
\* What the functions return.
Covariances(r) == [aa |-> r[1], ab |-> r[2], ba |-> r[3], bb |-> r[4]]

\* The smallest correlation: nan if a tensor does not vary, else ab (or ba, if it is smaller)
\* over the root of aa * bb; those of a tensor with itself are 1.
SmallestCorrelation(cov) ==
    IF cov.aa * cov.bb = 0 THEN "nan"
    ELSE [covariance |-> Smaller(cov.ab, cov.ba), variances |-> cov.aa * cov.bb]

Answer ==
    IF comparison.of = "has_special_values" THEN comparison.floating /\ results[1]
    ELSE IF comparison.of = "max_abs_diff" THEN results[1]
    ELSE IF comparison.of = "calculate_tensor_pcc" THEN SmallestCorrelation(Covariances(results))
    ELSE IF Refused THEN "assertion"
    ELSE IF comparison.floating THEN results[3] <= 0 ELSE ~results[1]

-----------------------------------------------------------------------------
Init ==
    /\ comparison \in Comparisons
    /\ results = <<>>
    /\ chunk_size = 0
    /\ at = <<>> /\ chunk_result = <<>> /\ expected = <<>> /\ desired = <<>>
    /\ global_result = NoResult

\* A kernel is started on some threads.
StartKernel ==
    /\ chunk_size = 0 /\ ~Ended
    /\ UNCHANGED <<comparison, results>>
    /\ \E threads \in 1..MaxThreads : chunk_size' = ChunkSize(threads)
    /\ global_result' = InitValue(Op)
    /\ at' = [t \in Threads' |-> "loop"]
    /\ chunk_result' = [t \in Threads' |-> InitValue(Op)]
    /\ expected' = chunk_result' /\ desired' = chunk_result'

\* Thread t reduces its chunk, loads the atomic and computes what is to be there.
RunChunk(t) ==
    /\ at[t] = "loop"
    /\ chunk_result' = [chunk_result EXCEPT ![t] = ChunkResult(Begin(t), End(t))]
    /\ expected' = [expected EXCEPT ![t] = global_result]
    /\ desired' = [desired EXCEPT ![t] = Reduce(Op, global_result, chunk_result'[t])]
    /\ at' = [at EXCEPT ![t] = "exchange"]
    /\ UNCHANGED <<comparison, results, chunk_size, global_result>>

\* Mutants of AsExpected and Reloaded: a store without the exchange, and a retry with what was
\* loaded before.
Unchecked(t) == TRUE
NotReloaded(t) == expected[t]

\* compare_exchange_weak.  (When it fails although the values are equal, nothing changes.)
AsExpected(t) == global_result = expected[t]
Reloaded(t) == global_result

ExchangeSucceeds(t) ==
    /\ at[t] = "exchange" /\ AsExpected(t)
    /\ global_result' = desired[t]
    /\ at' = [at EXCEPT ![t] = "done"]
    /\ UNCHANGED <<comparison, results, chunk_size, chunk_result, expected, desired>>

ExchangeFails(t) ==
    /\ at[t] = "exchange" /\ ~AsExpected(t)
    /\ expected' = [expected EXCEPT ![t] = Reloaded(t)]
    /\ desired' = [desired EXCEPT ![t] = Reduce(Op, expected'[t], chunk_result[t])]
    /\ UNCHANGED <<comparison, results, chunk_size, at, chunk_result, global_result>>

\* parallel_for returns when all threads have.
FinishKernel ==
    /\ chunk_size > 0 /\ \A t \in Threads : at[t] = "done"
    /\ results' = Append(results, global_result)
    /\ chunk_size' = 0
    /\ at' = <<>> /\ chunk_result' = <<>> /\ expected' = <<>> /\ desired' = <<>>
    /\ global_result' = NoResult
    /\ UNCHANGED comparison

Next ==
    \/ StartKernel \/ FinishKernel
    \/ \E t \in Threads : RunChunk(t) \/ ExchangeSucceeds(t) \/ ExchangeFails(t)

VerifSpec == Init /\ [][Next]_verifVars

\* Threads run until they are through, and an exchange does not fail for ever for no reason.
FairVerifSpec == VerifSpec /\ WF_verifVars(Next)

-----------------------------------------------------------------------------
Values(op) ==
    IF op = "Max" THEN {x \in Int : x >= Lowest} ELSE IF op = "Sum" THEN Int ELSE BOOLEAN

TypeOK ==
    /\ comparison \in Comparisons
    /\ Len(results) <= Len(Kernels(comparison))
    /\ \A i \in DOMAIN results : results[i] \in Values(ReduceOp(Kernels(comparison)[i]))
    /\ chunk_size \in Nat /\ Threads \subseteq 1..MaxThreads
    /\ at \in [Threads -> {"loop", "exchange", "done"}]
    /\ chunk_size > 0 =>
          /\ ~Ended
          /\ global_result \in Values(Op)
          /\ {chunk_result, expected, desired} \subseteq [Threads -> Values(Op)]

\* What a kernel returns is what one thread that takes the elements one by one would return.
Sequential(c, kernel) ==
    LET op == ReduceOp(kernel)
        n == c.a.length
    IN  ReduceInto(op, InitValue(op),
                   [i \in 1..n |-> Element(c, kernel, Dereference(c.a, i - 1),
                                                      Dereference(c.b, i - 1))], n)
ReductionsAreSequential ==
    \A i \in DOMAIN results : results[i] = Sequential(comparison, Kernels(comparison)[i])

\* Whatever threads there are and however they take turns, an answer is the one the tensors
\* have: the largest difference, whether all elements are close or one is special, and the
\* quotient of the covariances, but for tensors that do not vary (verif_ops.cpp:278-553).
Pairs == {<<Dereference(comparison.a, i), Dereference(comparison.b, i)>> : i \in 0..(Numel - 1)}
Distance(p) == Abs(p[1] - p[2])
IsConstant(v) == \A i, j \in 0..(v.length - 1) : Dereference(v, i) = Dereference(v, j)

LargestDifference ==
    /\ \A p \in Pairs : Distance(p) <= Answer
    /\ Answer = Lowest \/ \E p \in Pairs : Distance(p) = Answer
    /\ Pairs # {} => Answer >= 0
AllClose ==
    IF comparison.floating
    THEN IF HasSpecial(comparison.a) \/ HasSpecial(comparison.b) THEN Answer = "assertion"
         ELSE Answer = \A p \in Pairs : Distance(p) <= comparison.atol + comparison.rtol * Abs(p[2])
    ELSE Answer = \A p \in Pairs : p[1] = p[2]
Correlation ==
    IF IsConstant(comparison.a) \/ IsConstant(comparison.b) THEN Answer = "nan"
    ELSE Answer = [covariance |-> Sequential(comparison, "cov_ab"),
                   variances |-> Sequential(comparison, "cov_aa") * Sequential(comparison, "cov_bb")]

AnswersAreExact ==
    Ended =>
        /\ comparison.of = "has_special_values" =>
               Answer = (comparison.floating /\ HasSpecial(comparison.a))
        /\ comparison.of = "max_abs_diff" => LargestDifference
        /\ comparison.of = "all_close" => AllClose
        /\ comparison.of = "calculate_tensor_pcc" => Correlation

\* No exchange fails for ever: a thread that has lost one tries again with what the others have
\* stored, and they store only once each (verif_ops.cpp:134-140, 241-247).
ComparisonEnds == <>Ended
=============================================================================
