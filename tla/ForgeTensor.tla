---------------------------- MODULE ForgeTensor ----------------------------
(***************************************************************************)
(* TensorImpl (csrc/runtime/tensor.hpp): a tensor is a host buffer, shared *)
(* with torch, plus an optional runtime tensor.  This module holds the     *)
(* pure part: what one call does to the runtime tensor, given the value in *)
(* the host buffer and the generation of the device that is open.          *)
(*                                                                         *)
(* Data is abstracted to version numbers.  Each opening of the device is a *)
(* generation; device memory of an earlier generation is gone.             *)
(***************************************************************************)
EXTENDS Naturals

CONSTANTS
    Layouts,        \* layouts a compiled program may ask for
    HostLayout,     \* the layout of a borrowed or an untilized host tensor
    Lost            \* what is read from memory of a device that was closed

ASSUME LayoutAssumption == HostLayout \in Layouts
ASSUME LostAssumption == Lost \notin Nat

Values == Nat \cup {Lost}

\* std::optional<runtime::Tensor> rt_tensor.  "borrowed" points into the host
\* buffer, "copy" owns its memory; layout, val and gen describe a copy.
RtTensor == [kind : {"none", "borrowed", "copy"}, layout : Layouts,
             val : Values, gen : Nat]

NoRt == [kind |-> "none", layout |-> HostLayout, val |-> 0, gen |-> 0]
Borrowed == [NoRt EXCEPT !.kind = "borrowed"]
Copy(layout, val, gen) == [kind |-> "copy", layout |-> layout,
                           val |-> val, gen |-> gen]

HasRt(rt) == rt.kind # "none"

OnDevice(rt, gen) == rt.kind = "copy" /\ rt.layout # HostLayout /\ rt.gen = gen

\* A copy whose device has been closed since it was made.
Dead(rt, gen) == rt.kind = "copy" /\ rt.layout # HostLayout /\ rt.gen # gen

\* What the runtime finds behind rt: hostVal is the content of the host buffer.
ValueOf(rt, hostVal, gen) ==
    IF rt.kind = "borrowed" THEN hostVal
    ELSE IF Dead(rt, gen) THEN Lost ELSE rt.val

\* Mutant of EnsureRt: the host buffer is borrowed anew, whatever is there.
AlwaysBorrowed(rt) == Borrowed

\* The first branch of to_layout: a tensor that only has a host buffer gets a
\* runtime tensor that borrows it.  It keeps it if the conversion then throws.
EnsureRt(rt) == IF HasRt(rt) THEN rt ELSE Borrowed

\* Mutant of ToLayout: the conversion starts from the host buffer.
ConvertedFromHost(rt, layout, hostVal, gen) ==
    IF EnsureRt(rt).layout = layout THEN rt ELSE Copy(layout, hostVal, gen)

ToLayout(rt, layout, hostVal, gen) ==
    LET t == EnsureRt(rt)
    IN  IF t.layout = layout THEN t
        ELSE Copy(layout, ValueOf(t, hostVal, gen), gen)

DetachFromDevice(rt) == NoRt
=============================================================================
