--------------------------- MODULE IdentitySessions ---------------------------
(* The sessions of one user: signing in within the limit, rotating a token,   *)
(* signing out, and the changes that end every session.                       *)
(*                                                                            *)
(* Each command is one READ COMMITTED transaction, taken apart at its first   *)
(* statement: a row it has updated is locked and looks to the others as it was*)
(* until the commit, and a row it has inserted is not there.  A statement sees*)
(* what was committed when it began; a row it then has to wait for is judged  *)
(* again, but a row that appears meanwhile is not seen at all.  Inserting a   *)
(* session shares the user's row, which references it; a sign-in keeps it to  *)
(* itself, so the two wait for each other.                                    *)
(* Sessions are numbered by the clock their commands read before they began.  *)
EXTENDS Integers, FiniteSets

CONSTANTS
    Commands,      \* requests of this user being served at once
    MaxLive,       \* MAX_SESSIONS_PER_USER
    MaxSessions    \* bound of the instance: sessions ever made

ASSUME SessionsAssumption == MaxLive \in Nat \ {0} /\ MaxSessions \in Nat /\ IsFiniteSet(Commands)

SessionIds == 1..MaxSessions
NoSession == 0

VARIABLES
    session,    \* committed rows: "none", "live" or "ended", and what each was rotated from
    made,       \* how many sessions have been numbered
    working     \* each command's transaction: what it inserts, and what it updates

sessionVars == <<session, made, working>>

AtRest == [op |-> "rest", mine |-> NoSession, old |-> NoSession, ends |-> {}]

SessionsInit ==
    /\ session = [s \in SessionIds |-> [state |-> "none", from |-> NoSession]]
    /\ made = 0
    /\ working = [q \in Commands |-> AtRest]

Live == {s \in SessionIds : session[s].state = "live"}

\* What the rows say of the sessions that are over, and of who took whose place.
Ended == {s \in SessionIds : session[s].state = "ended"}

Successions == {p \in SessionIds \X SessionIds : session[p[2]].from = p[1]}

\* SELECT ... FOR UPDATE on the user's row, held from there to the commit.
UserIsLocked == \E p \in Commands : working[p].op = "limits"

\* The row lock a rotation holds from its UPDATE to its commit.
LockedByAnother(q, s) == \E p \in Commands \ {q} : working[p].op = "rotates" /\ working[p].old = s

Works(q, op, mine, old, ends) ==
    working' = [working EXCEPT ![q] = [op |-> op, mine |-> mine, old |-> old, ends |-> ends]]

Commits(q) == working' = [working EXCEPT ![q] = AtRest]

-----------------------------------------------------------------------------
(* Signing in: insertWithinLimit *)

\* The password is right and the session has its number and its time; the
\* transaction waits for the user's row.
SignInBegins(q) ==
    /\ working[q] = AtRest /\ made < MaxSessions
    /\ made' = made + 1
    /\ Works(q, "signs in", made + 1, NoSession, {})
    /\ UNCHANGED session

\* Mutant: the user's row is not locked.
MutantSignInLocks(q) ==
    /\ working[q].op = "signs in"
    /\ LET seen == Live \cup {working[q].mine} IN
       Works(q, "limits", working[q].mine, NoSession,
             {s \in seen : Cardinality({t \in seen : t > s}) >= MaxLive})
    /\ UNCHANGED <<session, made>>

\* One sign-in of the user at a time: the row is inserted, and the sessions past
\* the newest MaxLive are those this statement sees.
SignInLocks(q) ==
    /\ working[q].op = "signs in"
    /\ ~UserIsLocked
    /\ LET seen == Live \cup {working[q].mine} IN
       Works(q, "limits", working[q].mine, NoSession,
             {s \in seen : Cardinality({t \in seen : t > s}) >= MaxLive})
    /\ UNCHANGED <<session, made>>

\* The rows it waited for are ended whatever they have become.
SignInCommits(q) ==
    /\ working[q].op = "limits"
    /\ \A s \in working[q].ends : ~LockedByAnother(q, s)
    /\ session' = [s \in SessionIds |->
          IF s \in working[q].ends THEN [session[s] EXCEPT !.state = "ended"]
          ELSE IF s = working[q].mine THEN [session[s] EXCEPT !.state = "live"]
          ELSE session[s]]
    /\ Commits(q)
    /\ UNCHANGED made

-----------------------------------------------------------------------------
(* Rotating, signing out, ending all *)

\* Mutant: the row is not judged again after the wait for it.
MutantRotateEnds(q, s) ==
    /\ working[q] = AtRest /\ made < MaxSessions
    /\ s \in Live
    /\ made' = made + 1
    /\ Works(q, "rotates", made + 1, s, {})
    /\ UNCHANGED session

\* rotate: the old row, if it is still live, is ended ...
RotateEnds(q, s) ==
    /\ working[q] = AtRest /\ made < MaxSessions
    /\ s \in Live /\ ~LockedByAnother(q, s)
    /\ made' = made + 1
    /\ Works(q, "rotates", made + 1, s, {})
    /\ UNCHANGED session

\* ... and then the replacement is inserted, once no sign-in holds the user's row.
RotateCommits(q) ==
    /\ working[q].op = "rotates"
    /\ ~UserIsLocked
    /\ session' = [session EXCEPT ![working[q].old].state = "ended",
                                  ![working[q].mine] = [state |-> "live", from |-> working[q].old]]
    /\ Commits(q)
    /\ UNCHANGED made

\* Logout, one UPDATE of one row.
SignOut(q, s) ==
    /\ working[q] = AtRest
    /\ s \in Live /\ ~LockedByAnother(q, s)
    /\ session' = [session EXCEPT ![s].state = "ended"]
    /\ UNCHANGED <<made, working>>

\* revokeSessions: for LogoutAll and ResetPassword every session, for
\* ChangePassword every session but the one in use.
RevokeSees(q) ==
    /\ working[q] = AtRest
    /\ \E kept \in SUBSET Live :
          /\ Cardinality(kept) <= 1
          /\ Works(q, "revokes", NoSession, NoSession, Live \ kept)
    /\ UNCHANGED <<session, made>>

RevokeCommits(q) ==
    /\ working[q].op = "revokes"
    /\ \A s \in working[q].ends : ~LockedByAnother(q, s)
    /\ session' = [s \in SessionIds |->
          IF s \in working[q].ends THEN [session[s] EXCEPT !.state = "ended"] ELSE session[s]]
    /\ Commits(q)
    /\ UNCHANGED made

\* The connection is lost before the commit, or the database ends one of a
\* sign-in and a rotation that wait for each other.
RollsBack(q) ==
    /\ working[q] # AtRest
    /\ Commits(q)
    /\ UNCHANGED <<session, made>>

SessionsNext ==
    \E q \in Commands :
        \/ SignInBegins(q) \/ SignInLocks(q) \/ SignInCommits(q)
        \/ RotateCommits(q) \/ RevokeSees(q) \/ RevokeCommits(q) \/ RollsBack(q)
        \/ \E s \in SessionIds : RotateEnds(q, s) \/ SignOut(q, s)

SessionsSpec == SessionsInit /\ [][SessionsNext]_sessionVars

-----------------------------------------------------------------------------
(* Properties *)

\* A token is exchanged once: a session has one successor at most, and is over
\* once it has one, whoever rotates it, signs in past it or ends it meanwhile.
RotatedOnce ==
    \A s, t \in SessionIds :
        session[t].from = s /\ session[t].state # "none" =>
            /\ session[s].state = "ended"
            /\ \A u \in SessionIds : session[u].from = s => u = t

\* What a command does to the sessions, it does as the book says, whatever the
\* others do between its statements: a sign-in pushes out the oldest of those it
\* finds at its commit, a token is exchanged while it is live and only once, and
\* no session that was ended is live again.
Book == INSTANCE SessionBook WITH
    Sessions <- SessionIds, Limit <- MaxLive, live <- Live, over <- Ended, heirs <- Successions

ImplementsSessionBook == Book!Spec

\* The device limit holds at every commit, between sign-ins, rotations and
\* sign-outs: no sign-in misses a successor that a rotation is about to commit.
WithinDeviceLimit == Cardinality(Live) <= MaxLive
=============================================================================
