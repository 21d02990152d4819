---------------------------- MODULE LowFatStartup ----------------------------
(***************************************************************************)
(* Start-up of the low-fat run-time: the replacement of __libc_start_main  *)
(* in lowfat/src/libfunctions.c, which resolves the C library's functions, *)
(* maps the regions and moves the program's stack to one of them, and the  *)
(* calls of malloc that arrive meanwhile.  Addresses count words.  The old *)
(* stack is what main's callers left on it, then the environment's array,  *)
(* then its strings, a word each.                                          *)
(***************************************************************************)
EXTENDS Integers, FiniteSetsExt

CONSTANTS
  Table,         \* MIRT_LF_TABLE
  NumRegions,    \* NUM_REGIONS
  OldTop,        \* the address where the old stack ends (its lowest)
  NewBase,       \* the address of the new stack
  StackSize,     \* STACK_SIZE
  PageSize,      \* __lowfat_page_size
  FrameWords,    \* words on the stack below the environment
  MaxVariables   \* bound of the model: environment variables

NULL == 0
Text == -1       \* a string, or a number that no address has

Words(from, size) == from .. from + size - 1

VARIABLES
  pc,            \* the step that start-up is at
  hooks,         \* hooks_active
  found,         \* the C library's functions are resolved
  tables,        \* sizes and magics are there
  heapRegions, stackRegions,   \* regions mapped
  old, new,      \* what the old and the new stack hold
  environ,       \* the address of the environment's array
  begin,         \* where the old stack begins, as found
  stopped        \* why the program stopped, "no" if it has not

mapped == <<found, tables, heapRegions, stackRegions>>
stack == <<old, new, environ, begin>>
vars == <<pc, hooks, mapped, stack, stopped>>

OldWords(variables) == Words(OldTop, FrameWords + 2 * variables + 1)
NewTop == NewBase + StackSize - (begin - OldTop)

Init ==
  \E variables \in 0 .. MaxVariables :
  \E frame \in [0 .. FrameWords - 1 -> {Text} \cup OldWords(variables)] :
    LET array == OldTop + FrameWords
    IN  /\ old = [a \in OldWords(variables) |->
             IF a < array THEN frame[a - OldTop]
             ELSE IF a < array + variables THEN a + variables + 1
             ELSE IF a = array + variables THEN NULL ELSE Text]
        /\ environ = array
        /\ new = <<>> /\ begin = NULL
        /\ pc = "constructors" /\ hooks = TRUE
        /\ found = FALSE /\ tables = FALSE /\ heapRegions = 0 /\ stackRegions = 0
        /\ stopped = "no"

Goto(label) == pc' = label /\ UNCHANGED stopped
Stop(why) == stopped' = why /\ UNCHANGED pc

-----------------------------------------------------------------------------
(* Calls of malloc and free *)

(* Constructors run with the hook set, before there are any regions.       *)
(* During start-up the hook sends calls to the C library: malloc always    *)
(* has a function there, free only once it was found.                      *)
Allocate ==
  /\ hooks /\ heapRegions < NumRegions
  /\ Stop("no regions")
  /\ UNCHANGED <<hooks, mapped, stack>>

Release ==
  /\ ~hooks /\ ~found
  /\ Stop("no free")
  /\ UNCHANGED <<hooks, mapped, stack>>

-----------------------------------------------------------------------------
(* __libc_start_main *)

Enter ==
  /\ pc = "constructors"
  /\ hooks' = FALSE
  /\ Goto("resolve")
  /\ UNCHANGED <<mapped, stack>>

(* initDynamicFunctions *)
InitDynamicFunctions ==
  /\ pc = "resolve"
  /\ \/ found' = TRUE /\ Goto("tooling")
     \/ Stop("libc") /\ UNCHANGED found
  /\ UNCHANGED <<hooks, tables, heapRegions, stackRegions, stack>>

(* A tool of LLVM runs with the hook cleared. *)
CheckTooling ==
  /\ pc = "tooling"
  /\ Goto("main") \/ Goto("tables")
  /\ UNCHANGED <<hooks, mapped, stack>>

(* __lowfat_create_tables_for_sizes_and_magics *)
CreateTables ==
  /\ pc = "tables"
  /\ \/ tables' = Table /\ Goto("heap regions")
     \/ Table /\ Stop("tables") /\ UNCHANGED tables
  /\ UNCHANGED <<hooks, found, heapRegions, stackRegions, stack>>

MapHeapRegion ==
  /\ pc = "heap regions"
  /\ \/ heapRegions < NumRegions /\ heapRegions' = heapRegions + 1 /\ UNCHANGED <<pc, stopped>>
     \/ heapRegions < NumRegions /\ Stop("heap region") /\ UNCHANGED heapRegions
     \/ heapRegions = NumRegions /\ Goto("stack regions") /\ UNCHANGED heapRegions
  /\ UNCHANGED <<hooks, found, tables, stackRegions, stack>>

(* All of them map the file that __lowfat_create_file made. *)
MapStackRegion ==
  /\ pc = "stack regions"
  /\ \/ stackRegions < NumRegions /\ stackRegions' = stackRegions + 1 /\ UNCHANGED <<pc, stopped>>
     \/ Stop("stack region") /\ UNCHANGED stackRegions
     \/ stackRegions = NumRegions /\ Goto("find stack") /\ UNCHANGED stackRegions
  /\ UNCHANGED <<hooks, found, tables, heapRegions, stack>>

-----------------------------------------------------------------------------
(* __lowfat_move_stack *)

RoundUp(a) == ((a + PageSize - 1) \div PageSize) * PageSize

FindStack ==
  LET last    == Min({a \in DOMAIN old : a >= environ /\ old[a] = NULL})
      highest == Max({NULL} \cup {old[a] + 1 : a \in environ .. last - 1})
  IN  /\ pc = "find stack"
      /\ begin' = RoundUp(highest)
      /\ IF highest < last THEN Stop("environment")
         ELSE IF RoundUp(highest) - OldTop > StackSize THEN Stop("large stack")
         ELSE Goto("copy stack") \/ Stop("new stack")
      /\ UNCHANGED <<hooks, mapped, old, new, environ>>

(* What is above the strings on their last page is copied, too. *)
CopyStack ==
  /\ pc = "copy stack"
  /\ new' = [a \in Words(NewTop, begin - OldTop) |->
       LET from == a - NewTop + OldTop IN IF from \in DOMAIN old THEN old[from] ELSE Text]
  /\ environ' = NewBase + StackSize - (begin - environ)
  /\ Goto("relocate")
  /\ UNCHANGED <<hooks, mapped, old, begin>>

(* The loop runs while next is below new_copied_top, as a pointer to words, *)
(* minus stack_size, a number of bytes.                                    *)
Relocate ==
  LET bytes   == 8 * (begin - OldTop)
      visited == NewTop .. NewTop - bytes - 1
  IN  /\ pc = "relocate"
      /\ new' = [a \in DOMAIN new |->
           IF a \in visited /\ new[a] \in OldTop .. begin - 1
           THEN NewTop + (new[a] - OldTop) ELSE new[a]]
      /\ Goto("hooks")
      /\ UNCHANGED <<hooks, mapped, old, environ, begin>>

EnableHooks ==
  /\ pc = "hooks"
  /\ hooks' = TRUE
  /\ Goto("main")
  /\ UNCHANGED <<mapped, stack>>

Next ==
  /\ stopped = "no"
  /\ \/ Allocate \/ Release
     \/ Enter \/ InitDynamicFunctions \/ CheckTooling \/ CreateTables
     \/ MapHeapRegion \/ MapStackRegion
     \/ FindStack \/ CopyStack \/ Relocate \/ EnableHooks

Spec == Init /\ [][Next]_vars
-----------------------------------------------------------------------------
(* Properties *)

(* When the stack has been moved, every word of the new stack that pointed *)
(* into the old one points to the same place in the new one                *)
(* (libfunctions.c:689-703).                                               *)
StackPointersMoved ==
  pc = "hooks" =>
    \A a \in DOMAIN new :
      LET from == a - NewTop + OldTop
      IN  from \in DOMAIN old /\ old[from] \in OldTop .. begin - 1
            => new[a] = NewTop + (old[from] - OldTop)
=============================================================================
