------------------------------ MODULE Accounts ------------------------------
(***************************************************************************)
(* Savings goals (internal/goal) and the deletion of an account            *)
(* (auth.Repository.DeleteUser) over everything that hangs on a wallet:    *)
(* transactions, debts with their payments, and standing rows (templates,  *)
(* recurring rules, instalments, subscriptions).  Members of a shared      *)
(* wallet keep rows of theirs on somebody else's wallet.                   *)
(*                                                                         *)
(* Each operation is one database transaction and one step; other modules  *)
(* have the balances and the interleavings of the writers.                 *)
(***************************************************************************)
EXTENDS Integers, FiniteSetsExt

CONSTANTS Users,
          Wallets, OwnerOf,   \* wallets.user_id of each wallet there may be
          Goals,
          Entries,            \* transactions
          Debts,
          MaxJoined,          \* bound on the member shares at a time
          MaxRows,            \* on the transactions and standing rows
          None                \* no row, no second wallet, no goal

Entry == [user : Users, from : Wallets, to : Wallets \cup {None}]
Debt  == [user : Users, wallet : Wallets, entries : SUBSET Entries]

(* What the constants are expected to be.                                  *)
AccountsConstants ==
  /\ OwnerOf \in [Wallets -> Users]
  /\ MaxJoined \in Nat /\ MaxRows \in Nat
  /\ None \notin Users \cup Wallets \cup Goals \cup {"cash", "pending", "joined", "rejected"}
  /\ None \notin Nat /\ None \notin Entry \cup Debt
  /\ "cash" \notin Goals /\ IsFiniteSet(Wallets)

VARIABLES
  alive,      \* the users with an account
  wallet,     \* what a wallet is for: "cash", a goal, or None without a row
  goal,       \* the owner of a goal
  member,     \* the status of a user in a goal, None without a row
  joined,     \* the joined member shares, pairs of a wallet and a user
  entry,      \* the transactions
  debt,       \* the debts, each with its origination and its payments
  standing,   \* the standing rows, pairs of a user and a wallet
  edited      \* a transaction that a debt names has been edited

accVars == <<alive, wallet, goal, member, joined, entry, debt, standing, edited>>

TypeOK ==
  /\ alive \subseteq Users
  /\ wallet \in [Wallets -> Goals \cup {"cash", None}]
  /\ goal \in [Goals -> Users \cup {None}]
  /\ member \in [Goals \X Users -> {"pending", "joined", "rejected", None}]
  /\ joined \subseteq Wallets \X Users
  /\ entry \in [Entries -> Entry \cup {None}]
  /\ debt \in [Debts -> Debt \cup {None}]
  /\ standing \subseteq Users \X Wallets
  /\ edited \in BOOLEAN

Init ==
  /\ alive = {}
  /\ wallet = [w \in Wallets |-> None]
  /\ goal = [g \in Goals |-> None]
  /\ member = [m \in Goals \X Users |-> None]
  /\ joined = {}
  /\ entry = [e \in Entries |-> None]
  /\ debt = [d \in Debts |-> None]
  /\ standing = {}
  /\ edited = FALSE
-----------------------------------------------------------------------------
rows  == <<entry, debt, standing, edited>>
goals == <<goal, member>>

OpenEntries == {e \in Entries : entry[e] # None}
OpenDebts   == {d \in Debts : debt[d] # None}

RoomForRow == Cardinality(OpenEntries) + Cardinality(standing) < MaxRows

Touches(e, ws) == entry[e].from \in ws \/ entry[e].to \in ws

(* CheckMemberAccess: the owner or a joined member.                        *)
MayUse(u, w) == wallet[w] # None /\ (OwnerOf[w] = u \/ <<w, u>> \in joined)

MayMove(u, f, t) == f # t /\ MayUse(u, f) /\ (t # None => MayUse(u, t))

OfDebts == UNION {debt[d].entries : d \in OpenDebts}

(* A row refers to the wallet (RESTRICT).                                  *)
InUse(w) ==
  \/ \E e \in OpenEntries : Touches(e, {w})
  \/ \E d \in OpenDebts : debt[d].wallet = w
  \/ \E s \in standing : s[2] = w
-----------------------------------------------------------------------------
(* Wallets and their members.                                              *)

(* Registration creates the first wallet with the account.                 *)
Register(w) ==
  /\ OwnerOf[w] \notin alive
  /\ alive' = alive \cup {OwnerOf[w]}
  /\ wallet' = [wallet EXCEPT ![w] = "cash"]
  /\ UNCHANGED <<goals, joined, rows>>

CreateWallet(w) ==
  /\ OwnerOf[w] \in alive /\ wallet[w] = None
  /\ wallet' = [wallet EXCEPT ![w] = "cash"]
  /\ UNCHANGED <<alive, goals, joined, rows>>

DeleteWallet(w) ==
  /\ wallet[w] = "cash" /\ ~InUse(w)
  /\ wallet' = [wallet EXCEPT ![w] = None]
  /\ joined' = {s \in joined : s[1] # w}
  /\ UNCHANGED <<alive, goals, rows>>

JoinWallet(w, u) ==
  /\ wallet[w] # None /\ u \in alive \ {OwnerOf[w]} /\ Cardinality(joined) < MaxJoined
  /\ joined' = joined \cup {<<w, u>>}
  /\ UNCHANGED <<alive, wallet, goals, rows>>

LeaveWallet(w, u) ==
  /\ <<w, u>> \in joined
  /\ joined' = joined \ {<<w, u>>}
  /\ UNCHANGED <<alive, wallet, goals, rows>>
-----------------------------------------------------------------------------
(* Goals.                                                                  *)

(* CreateWithOwnerWallet: the goal, the owner's membership and wallet.     *)
CreateGoal(g, w) ==
  /\ goal[g] = None /\ wallet[w] = None /\ OwnerOf[w] \in alive
  /\ goal' = [goal EXCEPT ![g] = OwnerOf[w]]
  /\ member' = [member EXCEPT ![<<g, OwnerOf[w]>>] = "joined"]
  /\ wallet' = [wallet EXCEPT ![w] = g]
  /\ UNCHANGED <<alive, joined, rows>>

(* InviteMember, AddMember: an upsert that leaves a joined member alone.   *)
InviteMember(g, u) ==
  /\ goal[g] # None /\ u \in alive \ {goal[g]}
  /\ member[<<g, u>>] # "joined"
  /\ member' = [member EXCEPT ![<<g, u>>] = "pending"]
  /\ UNCHANGED <<alive, wallet, goal, joined, rows>>

(* A faulty variant: the current status is not looked at (the wallet's     *)
(* name is unique, unless the goal is renamed in between).                 *)
RespondInviteAgain(g, u, w) ==
  /\ goal[g] \notin {None, u} /\ member[<<g, u>>] # None
  /\ \/ member' = [member EXCEPT ![<<g, u>>] = "rejected"] /\ UNCHANGED wallet
     \/ /\ OwnerOf[w] = u /\ wallet[w] = None
        /\ member' = [member EXCEPT ![<<g, u>>] = "joined"]
        /\ wallet' = [wallet EXCEPT ![w] = g]
  /\ UNCHANGED <<alive, goal, joined, rows>>

(* RespondInvite locks the goal and the membership; only a pending one can *)
(* be answered, and joining creates the member's wallet.                   *)
RespondInvite(g, u, w) ==
  /\ goal[g] \notin {None, u} /\ member[<<g, u>>] = "pending"
  /\ \/ member' = [member EXCEPT ![<<g, u>>] = "rejected"] /\ UNCHANGED wallet
     \/ /\ OwnerOf[w] = u /\ wallet[w] = None
        /\ member' = [member EXCEPT ![<<g, u>>] = "joined"]
        /\ wallet' = [wallet EXCEPT ![w] = g]
  /\ UNCHANGED <<alive, goal, joined, rows>>
-----------------------------------------------------------------------------
(* The views of goals.  Every wallet counts as one unit of money.          *)

Collected(g) == {w \in Wallets : wallet[w] = g}   \* getCollectedAmount
MembersOf(g) == {m \in Users : member[<<g, m>>] # None}

MaySeePool(u, g) == goal[g] = u \/ member[<<g, u>>] = "joined"

(* List: the goals of u, and those u is invited to without their money.    *)
GoalList(u) ==
  [g \in {g \in Goals : goal[g] = u \/ member[<<g, u>>] \in {"pending", "joined"}} |->
    [collected |-> IF MaySeePool(u, g) THEN Cardinality(Collected(g)) ELSE None]]

(* Get: one of them, with the roster.                                      *)
GoalDetail(u, g) ==
  [collected |-> IF MaySeePool(u, g) THEN Cardinality(Collected(g)) ELSE None,
   members   |-> IF MaySeePool(u, g) THEN MembersOf(g) ELSE {}]

(* A faulty variant: the status of the membership is not compared.         *)
JoinedRowsAnyStatus(u, g) == {m \in MembersOf(g) : goal[g] = u \/ m = u}

(* GetGoals joins goals with goal_members and wallets: the rows of         *)
(* goal_members that pass its WHERE for goal g.                            *)
JoinedRows(u, g) ==
  {m \in MembersOf(g) : goal[g] = u \/ (m = u /\ member[<<g, m>>] = "joined")}

(* GoalReport: SUM(balance) over the join, once per wallet and such row.   *)
GoalReport(u) ==
  [g \in {g \in Goals : JoinedRows(u, g) # {}} |->
    Cardinality(JoinedRows(u, g)) * Cardinality(Collected(g))]
-----------------------------------------------------------------------------
(* Transactions, debts and standing rows.                                  *)

Record(e, u, f, t) ==
  /\ entry[e] = None /\ u \in alive /\ MayMove(u, f, t) /\ RoomForRow
  /\ entry' = [entry EXCEPT ![e] = [user |-> u, from |-> f, to |-> t]]
  /\ UNCHANGED <<alive, wallet, goals, joined, debt, standing, edited>>

(* Update asks for access to the old wallets and to the new ones.          *)
EditEntry(e, f, t) ==
  /\ entry[e] # None
  /\ LET u == entry[e].user IN
       /\ MayMove(u, entry[e].from, entry[e].to) /\ MayMove(u, f, t)
       /\ entry' = [entry EXCEPT ![e] = [user |-> u, from |-> f, to |-> t]]
  /\ edited' = (edited \/ e \in OfDebts)
  /\ UNCHANGED <<alive, wallet, goals, joined, debt, standing>>

DeleteEntry(e) ==
  /\ entry[e] # None /\ e \notin OfDebts
  /\ MayMove(entry[e].user, entry[e].from, entry[e].to)
  /\ entry' = [entry EXCEPT ![e] = None]
  /\ UNCHANGED <<alive, wallet, goals, joined, debt, standing, edited>>

(* debt.Create records the origination; Pay records a payment, on the      *)
(* debt's wallet, while its user may use that wallet.                      *)
OpenDebt(d, u, w, e) ==
  /\ debt[d] = None /\ entry[e] = None /\ u \in alive /\ MayUse(u, w) /\ RoomForRow
  /\ entry' = [entry EXCEPT ![e] = [user |-> u, from |-> w, to |-> None]]
  /\ debt' = [debt EXCEPT ![d] = [user |-> u, wallet |-> w, entries |-> {e}]]
  /\ UNCHANGED <<alive, wallet, goals, joined, standing, edited>>

PayDebt(d, e) ==
  /\ debt[d] # None /\ entry[e] = None /\ RoomForRow
  /\ LET u == debt[d].user IN
       /\ MayUse(u, debt[d].wallet)
       /\ entry' = [entry EXCEPT ![e] = [user |-> u, from |-> debt[d].wallet, to |-> None]]
  /\ debt' = [debt EXCEPT ![d] = [user |-> debt[d].user, wallet |-> debt[d].wallet,
                                  entries |-> debt[d].entries \cup {e}]]
  /\ UNCHANGED <<alive, wallet, goals, joined, standing, edited>>

AddStanding(u, w) ==
  /\ u \in alive /\ MayUse(u, w) /\ RoomForRow
  /\ standing' = standing \cup {<<u, w>>}
  /\ UNCHANGED <<alive, wallet, goals, joined, entry, debt, edited>>

(* A template is edited: its user needs access to the new wallet only.     *)
UpdateStanding(s, w) ==
  /\ MayUse(s[1], w)
  /\ standing' = (standing \ {s}) \cup {<<s[1], w>>}
  /\ UNCHANGED <<alive, wallet, goals, joined, entry, debt, edited>>

RemoveStanding(s) ==
  /\ standing' = standing \ {s}
  /\ UNCHANGED <<alive, wallet, goals, joined, entry, debt, edited>>

(* Execute reads the template and creates a transaction from it, which     *)
(* asks again for access to the wallet.                                    *)
Execute(s, e) == Record(e, s[1], s[2], None)
-----------------------------------------------------------------------------
(* DeleteUser, statement by statement.                                     *)

OwnWallets(u) == {w \in Wallets : OwnerOf[w] = u /\ wallet[w] # None}
GoalsOf(u)    == {g \in Goals : goal[g] = u}

(* 1: goal wallets of the members of u's goals become cash wallets.        *)
Detached(u) == {w \in Wallets : OwnerOf[w] # u /\ wallet[w] \in GoalsOf(u)}

(* 2: others' debts on u's wallets.                                        *)
DebtsOn(u) == {d \in OpenDebts : debt[d].user # u /\ debt[d].wallet \in OwnWallets(u)}

(* A faulty variant: others' standing rows are left to the cascade.        *)
NoStandingOn(u) == {}

(* 3-6: others' standing rows on u's wallets.                              *)
StandingOn(u) == {s \in standing : s[1] # u /\ s[2] \in OwnWallets(u)}

(* A faulty variant: contributions to u's goals are deleted with them.     *)
EntriesOnGoals(u) ==
  {e \in OpenEntries : /\ entry[e].user # u
                       /\ Touches(e, OwnWallets(u)) \/ entry[e].to \in Detached(u)}

(* 7: others' transactions on u's wallets.                                 *)
EntriesOn(u) == {e \in OpenEntries : entry[e].user # u /\ Touches(e, OwnWallets(u))}

(* 10: what the deletion of the row in users cascades to: u's rows, u's    *)
(* wallets, and the wallets still tied to u's goals.                       *)
CascadedWallets(u) == OwnWallets(u) \cup {w \in Wallets \ Detached(u) : wallet[w] \in GoalsOf(u)}

GoneDebts(u)    == DebtsOn(u) \cup {d \in OpenDebts : debt[d].user = u}
GoneEntries(u)  == EntriesOn(u) \cup {e \in OpenEntries : entry[e].user = u}
GoneStanding(u) == StandingOn(u) \cup {s \in standing : s[1] = u}

(* What aborts it: a remaining debt names a deleted transaction, or a      *)
(* remaining row a deleted wallet.                                         *)
Blocked(u) ==
  \/ \E d \in OpenDebts \ GoneDebts(u) :
       debt[d].entries \cap GoneEntries(u) # {} \/ debt[d].wallet \in CascadedWallets(u)
  \/ \E e \in OpenEntries \ GoneEntries(u) : Touches(e, CascadedWallets(u))
  \/ \E s \in standing \ GoneStanding(u) : s[2] \in CascadedWallets(u)

DeleteUser(u) ==
  /\ u \in alive /\ ~Blocked(u)
  /\ alive' = alive \ {u}
  /\ wallet' = [w \in Wallets |-> IF w \in CascadedWallets(u) THEN None
                                  ELSE IF w \in Detached(u) THEN "cash" ELSE wallet[w]]
  /\ goal' = [g \in Goals |-> IF g \in GoalsOf(u) THEN None ELSE goal[g]]
  /\ member' = [m \in Goals \X Users |->
                 IF m[1] \in GoalsOf(u) \/ m[2] = u THEN None ELSE member[m]]
  /\ joined' = {s \in joined : s[2] # u /\ s[1] \notin CascadedWallets(u)}
  /\ entry' = [e \in Entries |-> IF e \in GoneEntries(u) THEN None ELSE entry[e]]
  /\ debt' = [d \in Debts |-> IF d \in GoneDebts(u) THEN None ELSE debt[d]]
  /\ standing' = standing \ GoneStanding(u)
  /\ UNCHANGED edited
-----------------------------------------------------------------------------
Next ==
  \/ \E w \in Wallets : Register(w) \/ CreateWallet(w) \/ DeleteWallet(w)
  \/ \E w \in Wallets, u \in Users : JoinWallet(w, u) \/ LeaveWallet(w, u) \/ AddStanding(u, w)
  \/ \E g \in Goals, w \in Wallets :
       CreateGoal(g, w) \/ InviteMember(g, OwnerOf[w]) \/ RespondInvite(g, OwnerOf[w], w)
  \/ \E s \in standing, e \in Entries : Execute(s, e)
  \/ \E e \in Entries, f \in Wallets, t \in Wallets \cup {None} :
       EditEntry(e, f, t) \/ \E u \in Users : Record(e, u, f, t)
  \/ \E e \in Entries : DeleteEntry(e) \/ \E d \in Debts : PayDebt(d, e)
  \/ \E d \in Debts, u \in Users, w \in Wallets, e \in Entries : OpenDebt(d, u, w, e)
  \/ \E s \in standing : RemoveStanding(s) \/ \E w \in Wallets : UpdateStanding(s, w)
  \/ \E u \in Users : DeleteUser(u)

Spec == Init /\ [][Next]_accVars
-----------------------------------------------------------------------------
(* A member of a goal has one wallet in it, however often invitations are  *)
(* repeated, declined and answered, and nobody else has one.               *)
OneGoalWallet ==
  \A g \in Goals, u \in Users :
    Cardinality({w \in Wallets : OwnerOf[w] = u /\ wallet[w] = g})
      = IF member[<<g, u>>] = "joined" THEN 1 ELSE 0

(* A goal and its money are shown to whom they belong: the goal to those   *)
(* who may still join, what it collected exactly to those who have a       *)
(* wallet in it, and the report says the same.  (The owner's report counts *)
(* the pool once per row of goal_members.)                                 *)
GoalViewsAgree ==
  \A u \in alive, g \in Goals :
    LET has == \E w \in Collected(g) : OwnerOf[w] = u IN
    /\ has = (g \in DOMAIN GoalList(u) /\ GoalList(u)[g].collected # None)
    /\ has = (g \in DOMAIN GoalReport(u))
    /\ g \in DOMAIN GoalList(u) =>
         /\ GoalDetail(u, g).collected = GoalList(u)[g].collected
         /\ has = (u \in GoalDetail(u, g).members)
    /\ has /\ goal[g] # u => GoalReport(u)[g] = GoalDetail(u, g).collected

GoalsAddUp == OneGoalWallet /\ GoalViewsAgree

(* "On success, one database transaction deletes the user row and every    *)
(* row it owns" (docs/API_CONTRACT.md:41): nobody can keep somebody else   *)
(* from deleting an account.                                               *)
AccountsDeletable == \A u \in alive : ~Blocked(u)

(* It holds as long as no transaction of a debt is edited.                 *)
AccountsDeletableUnedited == edited \/ AccountsDeletable

(* What a step that deletes an account leaves to the others.               *)
OthersKeepTheirs ==
  \A u \in alive \ alive' :
    /\ \A w \in Wallets : OwnerOf[w] # u /\ wallet[w] # None => wallet'[w] # None
    /\ \A e \in OpenEntries :
         entry[e].user # u /\ ~Touches(e, OwnWallets(u)) => entry'[e] = entry[e]

(* "other members' goal wallets ... are detached (their money and          *)
(* contribution history survive)": the deletion of an account leaves the   *)
(* wallets of the others, and what they recorded on them, in place.        *)
ContributionsSurvive == [][OthersKeepTheirs]_accVars

(* The rest of the inductive invariant: the transactions of a debt are     *)
(* there, and until one is edited they are its user's, on its wallet; a    *)
(* wallet of a goal is the only one of a joined member; and an account or  *)
(* a goal that is gone leaves no row.                                      *)
DebtsFit ==
  \A d \in OpenDebts : \A e \in debt[d].entries :
    /\ e \in OpenEntries
    /\ edited \/ entry[e] = [user |-> debt[d].user, from |-> debt[d].wallet, to |-> None]

GoalRows ==
  \A g \in Goals :
    /\ goal[g] = None => \A u \in Users : member[<<g, u>>] = None
    /\ goal[g] # None => member[<<g, goal[g]>>] = "joined"

GoalWallets ==
  /\ \A w \in Wallets : wallet[w] \in Goals => member[<<wallet[w], OwnerOf[w]>>] = "joined"
  /\ \A v, w \in Wallets : wallet[w] \in Goals /\ wallet[v] = wallet[w] /\ OwnerOf[v] = OwnerOf[w] => v = w
  /\ \A g \in Goals, u \in Users : member[<<g, u>>] = "joined" =>
       \E w \in Wallets : OwnerOf[w] = u /\ wallet[w] = g

AccountRows ==
  /\ \A w \in Wallets : wallet[w] # None => OwnerOf[w] \in alive
  /\ \A m \in Goals \X Users : member[m] # None => m[2] \in alive

IInv == TypeOK /\ DebtsFit /\ GoalRows /\ GoalWallets /\ AccountRows
=============================================================================
