----------------------------- MODULE Onboarding -----------------------------
(***************************************************************************)
(* The onboarding of an employee: a list of tasks, copied from a template,   *)
(* each with a person to do it, who is told by a ToDo.  A person has one     *)
(* ToDo for an onboarding, however many of its tasks are his.                *)
(*                                                                          *)
(* A request reads its snapshot: the present one, or the one `held' since    *)
(* another request was let through.  A save is refused when the document is  *)
(* no longer the one that was read.                                          *)
(***************************************************************************)
EXTENDS Integers, FiniteSets

CONSTANTS
  Onboardings, Templates, People,
  Rows,      \* the rows a list of tasks has room for
  Overlaps   \* the values of `overlap' to look at

VARIABLES
  template,  \* who the tasks of a template are for
  ob,        \* the onboardings
  todo,      \* who has a ToDo of which onboarding
  held,      \* the snapshot a request still reads, if any
  overlap    \* whether requests overlap
vars == <<template, ob, todo, held, overlap>>

Nobody     == "None"
Empty      == [r \in Rows |-> Nobody]
NoTemplate == [is |-> FALSE, who |-> Empty]
NoTask     == [who |-> Nobody, closed |-> FALSE, is |-> FALSE]
Task(p)    == [who |-> p, closed |-> FALSE, is |-> TRUE]
NoOb       == [is |-> "None", of |-> "None", task |-> [r \in Rows |-> NoTask]]
Now == [template |-> template, ob |-> ob]
Views == {Now} \cup held
Hold == overlap /\ held = {} /\ held' = {Now} /\ UNCHANGED <<template, ob, todo, overlap>>
Ends(v) == held' \in {held \ {v}, held \ ({v} \ {Now})} /\ UNCHANGED overlap

-----------------------------------------------------------------------------
(* Templates. *)

save_template(v, t, who) ==
  /\ v.template[t] = template[t] /\ template' = [template EXCEPT ![t] = [is |-> TRUE, who |-> who]]
  /\ Ends(v) /\ UNCHANGED <<ob, todo>>
duplicate_template(v, from, t) ==
  /\ v.template[from].is /\ ~template[t].is /\ template' = [template EXCEPT ![t] = v.template[from]]
  /\ Ends(v) /\ UNCHANGED <<ob, todo>>
delete_template(v, t) ==
  /\ v.template[t].is /\ \A o \in Onboardings : v.ob[o].of # t
  /\ template' = [template EXCEPT ![t] = NoTemplate]
  /\ Ends(v) /\ UNCHANGED <<ob, todo>>

-----------------------------------------------------------------------------
(* Tasks. *)

RowsOf(task) == {r \in Rows : task[r].is}
Done(task)   == {r \in RowsOf(task) : task[r].closed}
derive_status(task, current) ==
  IF current = "Cancelled" THEN current
  ELSE IF RowsOf(task) = {} \/ Done(task) = {} THEN "Open"
  ELSE IF Done(task) = RowsOf(task) THEN "Completed" ELSE "In Progress"
With(o, task) == [ob EXCEPT ![o].task = task, ![o].is = derive_status(task, @)]

Assignees(task) == {task[r].who : r \in RowsOf(task)} \ {Nobody}
_sync_todo_add(o, ps)    == todo \cup {<<o, p>> : p \in ps \ {Nobody}}
_sync_todo_remove(o, ps) == todo \ {<<o, p>> : p \in ps}
\* Mutant: the ToDo of who has the task no more stays.
AddsOnly(o, old, new) == todo \cup {<<o, p>> : p \in {new} \ {Nobody}}
Reassigned(o, old, new) == IF old = new THEN todo ELSE (todo \ {<<o, old>>}) \cup {<<o, p>> : p \in {new} \ {Nobody}}

\* A template that cannot be read leaves an onboarding without its tasks.
start_onboarding(v, o, t, more) ==
  LET copied == IF t \in Templates THEN v.template[t].who ELSE Empty
      task   == [r \in Rows |-> IF copied[r] # Nobody THEN Task(copied[r])
                                ELSE IF more[r] # Nobody THEN Task(more[r]) ELSE NoTask]
  IN /\ ob[o] = NoOb
     /\ ob' = [ob EXCEPT ![o] = [is |-> derive_status(task, "Open"), of |-> t, task |-> task]]
     /\ todo' = _sync_todo_add(o, Assignees(task))
     /\ Ends(v) /\ UNCHANGED template

Reads(v, o, states) == v.ob[o].is \in states /\ v.ob[o] = ob[o]
Running == {"Open", "In Progress"}
Saved(v) == Ends(v) /\ UNCHANGED template
complete_task(v, o, r) ==
  /\ Reads(v, o, Running \cup {"Completed"}) /\ r \in RowsOf(ob[o].task) \ Done(ob[o].task)
  /\ ob' = With(o, [ob[o].task EXCEPT ![r].closed = TRUE])
  /\ todo' = _sync_todo_remove(o, {ob[o].task[r].who})
  /\ Saved(v)
reopen_task(v, o, r) ==
  /\ Reads(v, o, Running \cup {"Completed"}) /\ r \in Done(ob[o].task)
  /\ ob' = With(o, [ob[o].task EXCEPT ![r].closed = FALSE])
  /\ todo' = _sync_todo_add(o, {ob[o].task[r].who})
  /\ Saved(v)
add_task(v, o, r, p) ==
  /\ Reads(v, o, Running) /\ r \notin RowsOf(ob[o].task)
  /\ ob' = With(o, [ob[o].task EXCEPT ![r] = Task(p)])
  /\ todo' = _sync_todo_add(o, {p})
  /\ Saved(v)
\* A closed task may be given to someone else too, while others are open.
update_task(v, o, r, p) ==
  /\ Reads(v, o, Running) /\ r \in RowsOf(ob[o].task)
  /\ ob' = With(o, [ob[o].task EXCEPT ![r].who = p])
  /\ todo' = Reassigned(o, ob[o].task[r].who, p)
  /\ Saved(v)
\* Whatever its state, again too.
cancel_onboarding(v, o) ==
  /\ Reads(v, o, Running \cup {"Completed", "Cancelled"})
  /\ ob' = [ob EXCEPT ![o].is = "Cancelled"]
  /\ todo' = _sync_todo_remove(o, Assignees(ob[o].task))
  /\ Saved(v)
\* The document may have changed since: a deletion compares nothing.
delete_onboarding(v, o) ==
  /\ v.ob[o].is \in {"Open", "Cancelled"} /\ ob[o] # NoOb
  /\ ob' = [ob EXCEPT ![o] = NoOb] /\ todo' = {x \in todo : x[1] # o}
  /\ Saved(v)

-----------------------------------------------------------------------------
Lists == [Rows -> People \cup {Nobody}]
Init ==
  /\ template = [t \in Templates |-> NoTemplate] /\ ob = [o \in Onboardings |-> NoOb]
  /\ todo = {} /\ held = {} /\ overlap \in Overlaps
Next ==
  \/ Hold
  \/ \E v \in Views :
       \/ \E t \in Templates, who \in Lists : save_template(v, t, who)
       \/ \E t, from \in Templates : duplicate_template(v, from, t)
       \/ \E t \in Templates : delete_template(v, t)
       \/ \E o \in Onboardings, t \in Templates \cup {"None"}, more \in Lists :
            (t \in Templates => v.template[t].is) /\ start_onboarding(v, o, t, more)
       \/ \E o \in Onboardings, r \in Rows :
            \/ complete_task(v, o, r) \/ reopen_task(v, o, r)
            \/ \E p \in People \cup {Nobody} : add_task(v, o, r, p) \/ update_task(v, o, r, p)
       \/ \E o \in Onboardings : cancel_onboarding(v, o) \/ delete_onboarding(v, o)
Spec == Init /\ [][Next]_vars

-----------------------------------------------------------------------------
TypeOK ==
  /\ template \in [Templates -> [is : BOOLEAN, who : Lists]]
  /\ ob \in [Onboardings -> [is : {"None", "Open", "In Progress", "Completed", "Cancelled"},
                             of : Templates \cup {"None"},
                             task : [Rows -> [who : People \cup {Nobody}, closed : BOOLEAN, is : BOOLEAN]]]]
  /\ todo \subseteq Onboardings \X People /\ overlap \in BOOLEAN

\* Nobody keeps a ToDo of an onboarding that is cancelled or gone, though the ToDos to close are looked
\* up by the people its tasks have at the end; and what is done is told by the tasks, with requests
\* that overlap too (_close_all_todos, update_task, derive_status).
CancelledLeavesNoTodo ==
  /\ \A x \in todo : ob[x[1]].is \notin {"None", "Cancelled"}
  /\ \A o \in Onboardings : ob[o] # NoOb => ob[o].is = derive_status(ob[o].task, ob[o].is)

\* Who has an open task has a ToDo (_sync_todo: ``ToDo add/remove for a task assignee'').
OpenTaskHasTodo ==
  \A o \in Onboardings, r \in Rows :
    LET t == ob[o].task[r]
    IN t.is /\ ~t.closed /\ t.who # Nobody /\ ob[o].is # "Cancelled" => <<o, t.who>> \in todo
\* An onboarding that has begun is not deleted (derive_can).
BegunIsKept == [][\A o \in Onboardings : ob[o].is \in {"In Progress", "Completed"} => ob'[o] # NoOb]_vars
=============================================================================
