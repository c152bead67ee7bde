---------------------------- MODULE InternTable ----------------------------
(***************************************************************************)
(* What src/atom.c promises the callers of reduct_atom_lookup: a table of  *)
(* atoms that every lookup accesses at once, as if nothing were probed,    *)
(* buried, renamed or grown. AtomMap implements it.                        *)
(*                                                                         *)
(* A lookup whose string stands for itself is given the atom with that     *)
(* text if there is one. For a quoted string with escapes less is          *)
(* promised: its atom has the text the escapes stand for, but there may be *)
(* another one already, and the answer may be the atom whose text is the   *)
(* spelling itself.                                                        *)
(***************************************************************************)
EXTENDS Functions

CONSTANTS
  Threads,
  Items,     (* the items atoms are allocated from                         *)
  Strings,   (* byte strings: spellings and texts                          *)
  Requests,  (* the lookups made: <<string, quoted>>                       *)
  Text,      (* per string, what its escapes make of it                    *)
  None       (* no atom                                                    *)

VARIABLES
  interned,  (* per atom, its text and whether it is quoted                *)
  given      (* per thread, its last request and the atom it was given     *)

tableVars == <<interned, given>>

Init ==
  /\ interned = [a \in {} |-> None]
  /\ given = [t \in Threads |-> None]

(* Only its own spelling stands for the string.                             *)
Unescaped(str) == \A s \in Strings : Text[s] = str => s = str
Plain(req) == req[2] => Unescaped(Text[req[1]])

Is(atom, req) == interned[atom].text = req[1] /\ interned[atom].quoted = req[2]
Meant(req) == [text |-> IF req[2] THEN Text[req[1]] ELSE req[1], quoted |-> req[2]]

Give(t, req, atom) == given' = [given EXCEPT ![t] = [req |-> req, atom |-> atom]]

(* A lookup that finds the atom.                                            *)
Hit(t, req) ==
  \E atom \in DOMAIN interned :
    /\ Is(atom, req)
    /\ Give(t, req, atom)
    /\ UNCHANGED interned

(* A lookup that makes one.                                                 *)
Make(t, req) ==
  \E atom \in Items \ DOMAIN interned :
    /\ Plain(req) => \A other \in DOMAIN interned : ~ Is(other, req)
    /\ Give(t, req, atom)
    /\ interned' = [a \in DOMAIN interned \cup {atom} |->
                      IF a = atom THEN Meant(req) ELSE interned[a]]

(* A thread lets go of its atom, as it does when it looks for another.      *)
LetGo(t) ==
  /\ given' = [given EXCEPT ![t] = None]
  /\ UNCHANGED interned

(* A collection frees atoms that no thread was given last.                  *)
Free ==
  \E dead \in SUBSET {a \in DOMAIN interned :
                        \A t \in Threads : given[t] # None => given[t].atom # a} :
    /\ interned' = Restrict(interned, DOMAIN interned \ dead)
    /\ UNCHANGED given

Next ==
  \/ \E t \in Threads :
       \/ LetGo(t)
       \/ \E req \in Requests : Hit(t, req) \/ Make(t, req)
  \/ Free

Spec == Init /\ [][Next]_tableVars
=============================================================================
