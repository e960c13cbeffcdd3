------------------------------ MODULE RefCount ------------------------------
(***************************************************************************)
(* RefCount<T> handles and the RefCountedObjects they refer to             *)
(* (RefCount.h).  Every object holds one handle itself, as a node of a     *)
(* list does: deleting an object releases that handle, which may delete    *)
(* another object before the first is gone.                                *)
(*                                                                         *)
(* A handle is a root, owned by the client, or an object, which stands for *)
(* the handle inside it.  One thread uses the handles (the counts are "NOT *)
(* thread safe"); its calls nest.                                          *)
(***************************************************************************)
EXTENDS Integers, Sequences, FiniteSets, SequencesExt

CONSTANTS Objects, Roots, NULL

ASSUME HandlesAssumption ==
  /\ IsFiniteSet(Objects) /\ IsFiniteSet(Roots)
  /\ Objects \intersect Roots = {}
  /\ NULL \notin Objects \union Roots

VARIABLES
  obj,              \* the object a handle refers to
  refcount, preventdeletion,
  alive,            \* objects constructed and not deleted yet
  releasing,        \* handles inside Release(), the innermost last
  deleting,         \* the innermost Release() is inside `delete obj'
  new               \* the argument of the Attach() that is running

refCountVars == <<obj, refcount, preventdeletion, alive, releasing, deleting, new>>

Handles == Roots \union Objects

RefCountTypeOK ==
  /\ obj \in [Handles -> Objects \union {NULL}]
  /\ refcount \in [Objects -> Nat]
  /\ preventdeletion \in [Objects -> BOOLEAN]
  /\ alive \subseteq Objects
  /\ releasing \in Seq(Handles)
  /\ deleting \in BOOLEAN
  /\ new \in Objects \union {NULL}

RefCountInit ==
  /\ obj = [h \in Handles |-> NULL]
  /\ refcount = [o \in Objects |-> 0]
  /\ preventdeletion = [o \in Objects |-> FALSE]
  /\ alive = {}
  /\ releasing = <<>>
  /\ deleting = FALSE
  /\ new = NULL

-----------------------------------------------------------------------------
(* What the client can get at: the objects its roots refer to, those that  *)
(* are not the handles' to delete, and what the handles in these refer to. *)

Closed(S) == \A o \in S : obj[o] # NULL => obj[o] \in S

Reachable ==
  LET starts == ({obj[r] : r \in Roots} \ {NULL}) \union {o \in alive : preventdeletion[o]}
  IN  {o \in Objects : \A S \in SUBSET Objects : starts \subseteq S /\ Closed(S) => o \in S}

Idle == releasing = <<>>

\* Attach() counts the new object before it releases the old one.
Attach(h, o) ==
  /\ obj[h] # o
  /\ refcount' = [p \in Objects |-> IF p = o THEN refcount[p] + 1 ELSE refcount[p]]
  /\ new' = o
  /\ releasing' = <<h>>
  /\ deleting' = FALSE

\* A handle within reach is assigned an object within reach or NULL.  The
\* destructor of a root does the same as assigning NULL.
Assign(h, o) ==
  /\ Idle
  /\ h \in Roots \union Reachable
  /\ o \in Reachable \union {NULL}
  /\ Attach(h, o)
  /\ UNCHANGED <<obj, preventdeletion, alive>>

\* Attach() of the object the handle already refers to changes nothing.
AssignSame(h) ==
  /\ Idle
  /\ h \in Roots \union Reachable
  /\ UNCHANGED refCountVars

\* A new object is handed to a handle at once: RefCount<> ref(new T).
Create(h, o, prevent) ==
  /\ Idle
  /\ h \in Roots \union Reachable
  /\ o \notin alive
  /\ Attach(h, o)
  /\ alive' = alive \union {o}
  /\ preventdeletion' = [preventdeletion EXCEPT ![o] = prevent]
  /\ UNCHANGED obj

\* Contract: only an object that is referred to is given back to its handles.
PreventDeletion(o, prevent) ==
  /\ Idle
  /\ o \in Reachable
  /\ refcount[o] > 0
  /\ preventdeletion[o] # prevent
  /\ preventdeletion' = [preventdeletion EXCEPT ![o] = prevent]
  /\ UNCHANGED <<obj, refcount, alive, releasing, deleting, new>>

-----------------------------------------------------------------------------
(* Release().                                                              *)

Handle == Last(releasing)
Target == obj[Handle]

\* Release() returns to the destructor of the object that holds the handle,
\* or to Attach(), which sets the new object.
Return(o) ==
  /\ obj' = [obj EXCEPT ![Handle] = o]
  /\ releasing' = Front(releasing)
  /\ deleting' = (Len(releasing) > 1)
  /\ new' = IF Len(releasing) > 1 THEN new ELSE NULL

Argument == IF Len(releasing) = 1 THEN new ELSE NULL

\* Mutation: the count of an object that must not be deleted is left alone.
DecRefUnlessPrevented(o) ==
  refcount' = IF preventdeletion[o] THEN refcount ELSE [refcount EXCEPT ![o] = @ - 1]

DecRef(o) == refcount' = [refcount EXCEPT ![o] = @ - 1]

\* Mutation: deletes an object that somebody else still refers to.
DeletesShared(o) == refcount'[o] <= 1 /\ ~preventdeletion[o]

\* Mutation: tests the count before it is decremented.
DeletesTooLate(o) == refcount[o] = 0 /\ ~preventdeletion[o]

Deletes(o) == refcount'[o] = 0 /\ ~preventdeletion[o]

\* if (obj && obj->DecRef()) delete obj;
Release ==
  /\ ~Idle /\ ~deleting
  /\ IF Target = NULL
       THEN /\ Return(Argument)
            /\ UNCHANGED refcount
       ELSE /\ DecRef(Target)
            /\ IF Deletes(Target)
                 THEN /\ releasing' = Append(releasing, Target)
                      /\ UNCHANGED <<obj, deleting, new>>
                 ELSE Return(Argument)
  /\ UNCHANGED <<preventdeletion, alive>>

\* Mutation: the handle keeps the pointer to what it has deleted.
DeletedKeepsPointer ==
  /\ ~Idle /\ deleting
  /\ alive' = alive \ {Target}
  /\ Return(IF Len(releasing) = 1 /\ new # NULL THEN new ELSE Target)
  /\ UNCHANGED <<refcount, preventdeletion>>

\* The destructor is done: the object is gone, and obj = NULL.
Deleted ==
  /\ ~Idle /\ deleting
  /\ alive' = alive \ {Target}
  /\ Return(Argument)
  /\ UNCHANGED <<refcount, preventdeletion>>

RefCountNext ==
  \/ \E h \in Handles : AssignSame(h)
  \/ \E h \in Handles, o \in Objects \union {NULL} : Assign(h, o)
  \/ \E h \in Handles, o \in Objects, prevent \in BOOLEAN : Create(h, o, prevent)
  \/ \E o \in Objects, prevent \in BOOLEAN : PreventDeletion(o, prevent)
  \/ Release
  \/ Deleted

RefCountSpec == RefCountInit /\ [][RefCountNext]_refCountVars

-----------------------------------------------------------------------------
(* Safety.                                                                 *)

\* Objects whose destructor is running: the targets of all handles being
\* released but the innermost, and of that one while it deletes.
Dying == {obj[releasing[i]] : i \in 1 .. (Len(releasing) - (IF deleting THEN 0 ELSE 1))}

\* Handles that exist and whose reference is still counted.
Counted == {h \in Roots \union alive : obj[h] # NULL /\ obj[h] \notin Dying}

(* No handle refers to a deleted object, not even while a chain of objects *)
(* deletes one another, so that nothing is used or deleted twice.          *)
NoDangling == \A h \in Roots \union alive : obj[h] # NULL => obj[h] \in alive

(* Nothing is counted or released once its destructor has begun.           *)
NoResurrection ==
  /\ new # NULL => new \in alive \ Dying
  /\ ~Idle /\ ~deleting /\ Target # NULL => Target \notin Dying

(* The count of an object is the number of handles that refer to it, plus  *)
(* the one being attached.                                                 *)
CountsHandles ==
  \A o \in alive \ Dying :
    refcount[o] = Cardinality({h \in Counted : obj[h] = o})
                  + (IF ~Idle /\ new = o THEN 1 ELSE 0)

(* What the client can no longer reach is gone, except what a cycle of     *)
(* handles keeps alive.                                                    *)
OnlyCyclesLeak ==
  Idle => \A o \in alive \ Reachable : \E p \in alive \ Reachable : obj[p] = o
=============================================================================
