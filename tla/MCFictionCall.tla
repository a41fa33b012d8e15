--------------------------- MODULE MCFictionCall ---------------------------
(***************************************************************************)
(* A small instance of FictionCall: two integer registers, one floating    *)
(* point register and two eightbytes of stack, so that registers run out,  *)
(* structs are passed whole on the stack and the vector overflows within   *)
(* lists of three arguments.                                               *)
(***************************************************************************)
EXTENDS FictionCall

\* With a signature: `cmp' takes a callback; `big' fills the VM and returns a
\* struct through a hidden pointer; `odd' has a type that cannot be bound after
\* a callback to which nothing can be passed; `ret' has a return type that is
\* not handled, and so has its callback.
MCFics == {"cmp", "big", "odd", "ret", "any"}

MCSig == [cmp |-> <<"int", "ptr">>,
          big |-> <<"int", "pair", "mem">>,
          odd |-> <<"void", "ptr", "other">>,
          ret |-> <<"ptr">>,
          any |-> NoSig]

MCRet == [cmp |-> "scalar", big |-> "mem", odd |-> "scalar", ret |-> "other",
          any |-> "wchar"]

MCCb == [cmp |-> "ok", big |-> "none", odd |-> "badarg", ret |-> "badret",
         any |-> "none"]

MCArgLists == {<<"int">>, <<"int", "int">>, <<"tied", "str">>, <<"int", "bad">>,
               <<"num", "int", "num">>, <<"tied", "int", "int">>}
=============================================================================
