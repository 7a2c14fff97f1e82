------------------------------- MODULE MCParts -------------------------------
(***************************************************************************)
(* The parts side by side, small: two users with three wallets, a category *)
(* and its subcategory, two things that fall due.                          *)
(***************************************************************************)
EXTENDS Parts, TLC

CONSTANTS ann, bob,                 \* users
          a1, b1, b2,               \* wallets
          food, snacks, dining, pay,\* categories
          i1, i2                    \* things with a due day

MCOwnerOf == a1 :> ann @@ b1 :> bob @@ b2 :> bob
MCUserOf  == i1 :> ann @@ i2 :> bob
MCParent  == snacks :> food @@ food :> None
Twice     == Permutations(Twins)

Category(u, t, p, n) == [user |-> u, type |-> t, parent |-> p, name |-> n]
MCCategoryOf == food   :> Category(ann, "expense", None, "food")
             @@ snacks :> Category(ann, "expense", food, "snacks")
             @@ dining :> Category(bob, "expense", None, "food")
             @@ pay    :> Category(ann, "income", None, "pay")

(* Three days of two months and two weeks.                                 *)
MCMonthOf == <<1, 2, 2>>
MCWeekOf  == <<5, 5, 6>>
MCDaysIn  == <<31, 28>>
=============================================================================
