---------------------------- MODULE NativeResult ----------------------------
(***************************************************************************)
(* tcx::native::result<T> (include/tcx/native/result.hpp): an error number *)
(* and memory for a value.  has_value() is the error number converted to   *)
(* bool: a result with an error says that it has a value, and one with a   *)
(* value that it has an error.                                             *)
(***************************************************************************)
EXTENDS Integers

CONSTANT Garbage  \* memory for a value nobody has written

(* The value is not written, not even when the error is 0: construct_at    *)
(* constructs the union around it, whose constructor does nothing.         *)
FromError(error) == [first |-> error, second |-> Garbage]

FromValue(value) == [first |-> 0, second |-> value]

HasValue(result) == result.first # 0

HasError(result) == ~HasValue(result)
=============================================================================
