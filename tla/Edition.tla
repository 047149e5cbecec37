------------------------------ MODULE Edition ------------------------------
(***************************************************************************)
(* What review and publication promise of an item to those who study with  *)
(* it, with no draft, reviewer or stale request in sight: nothing of it is *)
(* shown until one of its versions is signed for by somebody who neither   *)
(* wrote nor edited it; from then on that version, and who signed for it,  *)
(* are what they are, and the item can only be suspended and retired.      *)
(* ContentReview implements it.                                            *)
(***************************************************************************)
CONSTANTS
    People,   \* who may write, edit or sign
    Nobody,   \* the editor of a version that no reviewer edited
    Bodies    \* the contents a version may have

Editions == [body : Bodies, author : People, editor : People \cup {Nobody}]

VARIABLES
    standing,   \* withheld, public, suspended or retired
    edition,    \* the version that is shown, or a set with nothing in it
    signatory   \* who signed for it, or a set with nobody in it

vars == <<standing, edition, signatory>>

-----------------------------------------------------------------------------
Init == /\ standing = "withheld"
        /\ edition = {}
        /\ signatory = {}

Publish(e, p) == /\ standing = "withheld"
                 /\ p \notin {e.author, e.editor}
                 /\ standing' = "public"
                 /\ edition' = {e}
                 /\ signatory' = {p}

Suspend == /\ standing = "public"
           /\ standing' = "suspended"
           /\ UNCHANGED <<edition, signatory>>

Retire == /\ standing \in {"public", "suspended"}
          /\ standing' = "retired"
          /\ UNCHANGED <<edition, signatory>>

Next == \/ \E e \in Editions, p \in People : Publish(e, p)
        \/ Suspend
        \/ Retire

Spec == Init /\ [][Next]_vars
=============================================================================
