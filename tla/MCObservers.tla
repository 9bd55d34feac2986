----------------------------- MODULE MCObservers -----------------------------
(* A small instance of Observers.                                             *)
EXTENDS Observers

CONSTANTS d, a, b

\* One direct observer, or two threads that resolve the alias at once.
DirectOrDecorated == {{d}, {a, b}}

===============================================================================
