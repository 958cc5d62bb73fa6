----------------------------- MODULE Interface -----------------------------
(***************************************************************************)
(* Object interfaces and reference counts: core/interface.c and            *)
(* core/refcnt.c.                                                          *)
(*                                                                         *)
(* Objects own interfaces, and interfaces are plugged into each other.     *)
(* Closing one interface calls a method of the object at the other end,    *)
(* which shuts down its own interfaces, which calls further objects, and   *)
(* so on, all on one C stack and with objects freed on the way.  The       *)
(* variable "stack" holds what is left to execute, innermost call first:   *)
(* executing an instruction replaces it by the body of the function that   *)
(* it calls.  The instruction "method" stands for a call of the intf_close *)
(* method of an interface; the module that composes objects executes it.   *)
(*                                                                         *)
(* Every interface of the composed objects has an intf_close method of its *)
(* own, so that the default method and pass-through are never used here.   *)
(***************************************************************************)
EXTENDS Integers, Sequences

CONSTANTS
  Object,   \* the objects, allocated or not
  Static,   \* the objects that are not reference-counted (refcnt is NULL)
  Intf,     \* the interfaces: pairs of an object and a name
  Null      \* null_intf

VARIABLES
  dest,     \* [Intf -> Intf or Null]: intf->dest
  blocked,  \* [Intf -> BOOLEAN]: intf->desc is null_intf_desc
  refs,     \* [Object -> Int]: refcnt->count, where 0 is one reference and -1
            \* is freed memory; static objects stay at 0
  stack     \* what is left to execute

intfVars == <<dest, blocked, refs, stack>>

ASSUME InterfaceAssumption ==
  /\ Static \subseteq Object
  /\ Null \notin Intf
  /\ \A i \in Intf : i[1] \in Object

Owner(i) == i[1]

Live(o) == refs[o] >= 0

Get(r, o) == IF o \in Static THEN r ELSE [r EXCEPT ![o] = @ + 1]

Drop(r, o) == IF o \in Static THEN r ELSE [r EXCEPT ![o] = @ - 1]

GetIntf(r, i) == IF i = Null THEN r ELSE Get(r, Owner(i))

DropIntf(r, i) == IF i = Null THEN r ELSE Drop(r, Owner(i))

\* Instructions: a function, an interface or object, another, a status code.
Instr(op, a, b, rc) == [op |-> op, a |-> a, b |-> b, rc |-> rc]
Plug(i, j) == Instr("intf_plug", i, j, "ok")
Unplug(i) == Plug(i, Null)
PlugPlug(i, j) == <<Plug(i, j), Plug(j, i)>>
Nullify(i) == Instr("intf_nullify", i, Null, "ok")
Restore(i) == Instr("restore", i, Null, "ok")
Close(i, rc) == Instr("intf_close", i, Null, rc)
Shutdown(i, rc) == Instr("intf_shutdown", i, Null, rc)
Restart(i, rc) == Instr("intf_restart", i, Null, rc)
Method(i, rc) == Instr("method", i, Null, rc)
Put(o) == Instr("ref_put", o, Null, "ok")

Idle == stack = << >>

Top == Head(stack)

Executing(op) == ~Idle /\ Top.op = op

\* The instruction at the top returns, or calls a function with this body.
Return == stack' = Tail(stack)
Call(body) == stack' = body \o Tail(stack)
-----------------------------------------------------------------------------
\* The new destination is referenced before the old one is dropped.
intf_plug ==
  /\ Executing("intf_plug")
  /\ refs' = DropIntf(GetIntf(refs, Top.b), dest[Top.a])
  /\ dest' = [dest EXCEPT ![Top.a] = Top.b]
  /\ Return
  /\ UNCHANGED blocked

intf_nullify ==
  /\ Executing("intf_nullify")
  /\ blocked' = [blocked EXCEPT ![Top.a] = TRUE]
  /\ Return
  /\ UNCHANGED <<dest, refs>>

ref_put ==
  /\ Executing("ref_put")
  /\ refs' = Drop(refs, Top.a)
  /\ Return
  /\ UNCHANGED <<dest, blocked>>

\* The destination is looked up and referenced, its method called, and the
\* reference dropped.  A blocked destination ignores the call.
intf_close ==
  /\ Executing("intf_close")
  /\ LET d == dest[Top.a]
     IN  IF d = Null
           THEN Return /\ UNCHANGED refs
           ELSE /\ refs' = Get(refs, Owner(d))
                /\ Call((IF blocked[d] THEN << >> ELSE <<Method(d, Top.rc)>>)
                        \o <<Put(Owner(d))>>)
  /\ UNCHANGED <<dest, blocked>>

\* The interface is blocked before its destination is told, so that the two
\* ends do not call each other for ever.
intf_shutdown ==
  /\ Executing("intf_shutdown")
  /\ Call(<<Nullify(Top.a), Close(Top.a, Top.rc), Unplug(Top.a)>>)
  /\ UNCHANGED <<dest, blocked, refs>>

\* What is restored is the descriptor from before the shutdown, which may
\* have been the null descriptor already.
intf_restart ==
  /\ Executing("intf_restart")
  /\ Call(<<Shutdown(Top.a, Top.rc)>>
          \o (IF blocked[Top.a] THEN << >> ELSE <<Restore(Top.a)>>))
  /\ UNCHANGED <<dest, blocked, refs>>

RestoreDescriptor ==
  /\ Executing("restore")
  /\ blocked' = [blocked EXCEPT ![Top.a] = FALSE]
  /\ Return
  /\ UNCHANGED <<dest, refs>>

InterfaceStep ==
  \/ intf_plug
  \/ intf_nullify
  \/ ref_put
  \/ intf_close
  \/ intf_shutdown
  \/ intf_restart
  \/ RestoreDescriptor
=============================================================================
