----------------------------- MODULE LifoStack ------------------------------
(***************************************************************************)
(* A stack shared by threads, as its callers should see it: between the    *)
(* call and the return of an operation there is one instant at which the   *)
(* operation takes effect on the whole stack.  The lock-free stacks        *)
(* implement this module, which is what makes them linearizable.           *)
(***************************************************************************)
EXTENDS Sequences

CONSTANTS
    Threads,
    Values,   \* what is pushed
    NoValue   \* what pop of an empty stack answers

VARIABLES
    stack,  \* the contents, top first
    op      \* the operation each thread is in, with its argument or its answer

vars == <<stack, op>>

Quiet == [kind |-> "idle"]

Init ==
    /\ stack = <<>>
    /\ op = [t \in Threads |-> Quiet]

Call(t) ==
    /\ op[t] = Quiet
    /\ \/ \E v \in Values : op' = [op EXCEPT ![t] = [kind |-> "push", value |-> v]]
       \/ op' = [op EXCEPT ![t] = [kind |-> "pop"]]
       \/ op' = [op EXCEPT ![t] = [kind |-> "list"]]
    /\ UNCHANGED stack

Push(t) ==
    /\ op[t].kind = "push"
    /\ stack' = <<op[t].value>> \o stack
    /\ op' = [op EXCEPT ![t] = [kind |-> "pushed"]]

Pop(t) ==
    /\ op[t].kind = "pop"
    /\ IF stack = <<>>
       THEN /\ op' = [op EXCEPT ![t] = [kind |-> "popped", value |-> NoValue]]
            /\ UNCHANGED stack
       ELSE /\ op' = [op EXCEPT ![t] = [kind |-> "popped", value |-> Head(stack)]]
            /\ stack' = Tail(stack)

List(t) ==
    /\ op[t].kind = "list"
    /\ op' = [op EXCEPT ![t] = [kind |-> "listed", values |-> stack]]
    /\ UNCHANGED stack

Return(t) ==
    /\ op[t].kind \in {"pushed", "popped", "listed"}
    /\ op' = [op EXCEPT ![t] = Quiet]
    /\ UNCHANGED stack

Next == \E t \in Threads : Call(t) \/ Push(t) \/ Pop(t) \/ List(t) \/ Return(t)

Spec == Init /\ [][Next]_vars
=============================================================================
