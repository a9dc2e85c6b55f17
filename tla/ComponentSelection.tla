------------------------- MODULE ComponentSelection -------------------------
(***************************************************************************)
(* Which components the daemon registers, and which ones its inventory     *)
(* report names.  New asks shouldEnableComponent for the registry's        *)
(* components one after the other; ShouldEnable and ShouldDisable build    *)
(* the sets they look at on first use and keep them in the configuration.  *)
(* getComponentLists works the lists out anew.                             *)
(*                                                                         *)
(* An entry of the --components list is a wildcard ("*" and "all" are the  *)
(* same), a name, or a name to disable.                                    *)
(***************************************************************************)
EXTENDS Naturals, Sequences, FiniteSetsExt

CONSTANTS
  Registry,  \* the names of registry.All(), a sequence without repetitions
  NotBuilt   \* the nil map

ASSUME RegistryIsNamed == Registry \in Seq(STRING \ {"all"})

Wildcard == [name |-> "all", disable |-> FALSE]

Enable(n) == [name |-> n, disable |-> FALSE]

Disable(n) == [name |-> n, disable |-> TRUE]

AllMode(list) == list = <<>> \/ list[1] = Wildcard

EnabledNames(list) == {c.name : c \in {e \in Range(list) : ~e.disable /\ e # Wildcard}}

DisabledNames(list) == {c.name : c \in {e \in Range(list) : e.disable}}

HasWildcard(list) == Wildcard \in Range(list)

\* The entries before the first wildcard.
BeforeWildcard(list) ==
  SubSeq(list, 1, Min({i \in DOMAIN list : list[i] = Wildcard}) - 1)

-----------------------------------------------------------------------------

VARIABLES
  asked,       \* asked[d]: how many components New has asked for
  selected,    \* selected[d]: Config.selectedComponents, NotBuilt or a set
  registered   \* registered[d]: the components of the daemon

selectionVars == <<asked, selected, registered>>

SelectionInit(daemons) ==
  /\ asked = [d \in daemons |-> 0]
  /\ selected = [d \in daemons |-> NotBuilt]
  /\ registered = [d \in daemons |-> {}]

\* What ShouldEnable leaves in selectedComponents.  A wildcard that is not the
\* first entry ends the loop that builds the set.
SelectedAfter(list, memo) ==
  IF AllMode(list) \/ memo # NotBuilt
    THEN memo
    ELSE EnabledNames(IF HasWildcard(list) THEN BeforeWildcard(list) ELSE list)

\* What it answers.
ShouldEnable(list, memo, name) ==
  CASE AllMode(list) -> TRUE
    [] ~AllMode(list) /\ memo # NotBuilt -> name \in memo
    [] OTHER -> HasWildcard(list) \/ name \in EnabledNames(list)

\* disabledComponents is built in full on first use.
ShouldDisable(list, name) == name \in DisabledNames(list)

\* Mutant: the list of names alone decides.
EnabledWhenSelected(list, memo, name) == ShouldEnable(list, memo, name)

\* Every component of the registry is enabled by default.
shouldEnableComponent(list, memo, name) ==
  ShouldEnable(list, memo, name) /\ ~ShouldDisable(list, name)

\* One turn of the loop in New.
Asks(d, list) ==
  LET name == Registry[asked[d] + 1] IN
  /\ asked[d] < Len(Registry)
  /\ asked' = [asked EXCEPT ![d] = @ + 1]
  /\ selected' = [selected EXCEPT ![d] = SelectedAfter(list, @)]
  /\ registered' = IF shouldEnableComponent(list, selected[d], name)
                     THEN [registered EXCEPT ![d] = @ \cup {name}]
                     ELSE registered

\* The process is gone.
Forgets(d) ==
  /\ asked' = [asked EXCEPT ![d] = 0]
  /\ selected' = [selected EXCEPT ![d] = NotBuilt]
  /\ registered' = [registered EXCEPT ![d] = {}]

-----------------------------------------------------------------------------
(* What the inventory report says *)

getComponentLists(list) ==
  LET enabled == IF AllMode(list) THEN Range(Registry) ELSE EnabledNames(list)
  IN  (Range(Registry) \cap enabled) \ DisabledNames(list)

\* The entries of a list.
Entry == [name : STRING, disable : BOOLEAN]

\* A list whose wildcard, if it has one, comes first.
WildcardFirst(list) == \A i \in 2..Len(list) : list[i] # Wildcard

\* What the list asks for: the components it names, all of them with a
\* wildcard or with no entry at all, without the ones it disables.
AskedFor(list) ==
  {n \in Range(Registry) :
     /\ Disable(n) \notin Range(list)
     /\ list = <<>> \/ {Wildcard, Enable(n)} \cap Range(list) # {}}
=============================================================================
