-------------------------------- MODULE Menu --------------------------------
(***************************************************************************)
(* The menu loop every screen of the program goes through (newMenu,        *)
(* gfx/menu.c), called in rounds by the explorer, the main menu and the    *)
(* menu of a file.                                                         *)
(*                                                                         *)
(* Entries are plain, skipped (headings) or hidden.  The screen is the     *)
(* rows of the menu's box, each with the entry printed there last and      *)
(* whether it was printed as the chosen one; names, icons, colours and the *)
(* repetition of a held button are left out.                               *)
(***************************************************************************)
EXTENDS Integers, FiniteSetsExt

CONSTANTS
  MaxFiles,       (* bound: files in a folder of the explorer              *)
  Embedded,       (* scripts built in, listed in the main menu             *)
  MaxScripts,     (* bound: scripts on the card, listed behind them        *)
  Rows            (* screenLenY of each caller's menu                      *)

Caller == {"explorer", "main", "file"}

ASSUME EmbeddedAssumption == Embedded \in Nat \ {0}
ASSUME RowsAssumption == Rows \in [Caller -> Nat \ {0}]

VARIABLES
  caller,         (* who runs the menu, round after round                  *)
  pc,             (* "gather": the caller, "draw", "input": newMenu,       *)
                  (* "astray": newMenu behind the entries                  *)
  res,            (* what the caller keeps of the last choice              *)
  entries,        (* the kind of each entry, counted from 0                *)
  selected, lastIndex, redrawScreen,
  screen,
  user            (* the buttons pressed in this menu                      *)

vars == <<caller, pc, res, entries, selected, lastIndex, redrawScreen, screen, user>>

-----------------------------------------------------------------------------
count     == Cardinality(DOMAIN entries)
screenLenY == Rows[caller]
Page(i)   == i \div screenLenY
Plain(i)  == entries[i] = "plain"
always    == caller # "explorer"      (* ALWAYSREDRAW                      *)
enableB   == caller # "main"          (* ENABLEB                           *)

Users == {"any", "down", "up", "right"}
Blank == [entry |-> -1, lit |-> FALSE]

(* The entries that each caller's menu begins with: the kinds each may     *)
(* have.  With scripts built in, the heading above them is never hidden.   *)
ExplorerTop == <<{"skip"}, {"plain"}, {"skip", "plain"}, {"plain"}>>
MainTop     == <<{"skip"}, {"plain", "hide"}, {"plain"}, {"skip"}>>
FileTop     == <<{"skip"}, {"hide"}, {"plain"}, {"plain"}, {"plain", "hide"}, {"plain", "hide"}>>

Entries(n) == [0 .. n - 1 -> {"plain", "skip", "hide"}]

Begins(e, top) == \A i \in DOMAIN top : e[i - 1] \in top[i]

Init ==
  /\ caller \in Caller
  /\ pc = "gather" /\ res = 0
  /\ entries = [i \in {0} |-> "plain"]
  /\ selected = 0 /\ lastIndex = 0 /\ redrawScreen = FALSE
  /\ screen = [r \in 0 .. screenLenY - 1 |-> Blank]
  /\ user = "any"

-----------------------------------------------------------------------------
(* The first entry at or after i, going round, that can be chosen.         *)
FirstFrom(e, i) ==
  LET n == Cardinality(DOMAIN e)
      k == Min({j \in 0 .. n - 1 : e[(i + j) % n] = "plain"})
  IN (i + k) % n

(* newMenu is called with the entries e and the choice i.  Where i is no   *)
(* entry, the memory behind them is read as one: a heading or hidden, and  *)
(* the search goes round to the first; or plain, and the loop goes on      *)
(* there, which is not followed.                                           *)
Open(e, i) ==
  /\ pc = "gather"
  /\ entries' = e
  /\ res' = i
  /\ \/ /\ selected' = FirstFrom(e, IF i \in DOMAIN e THEN i ELSE 0)
        /\ pc' = "draw"
     \/ /\ i \notin DOMAIN e
        /\ selected' = i
        /\ pc' = "astray"
  /\ lastIndex' = selected'
  /\ redrawScreen' = TRUE
  /\ screen' = [r \in DOMAIN screen |-> Blank]
  /\ user' \in Users
  /\ UNCHANGED caller

(* Mutation: the index is not brought back into a folder that has shrunk.  *)
KeptChoice(n) == res

Choice(n) == IF res >= n THEN 0 ELSE res

(* A round of the explorer: the files are read anew.                       *)
GatherExplorer ==
  /\ caller = "explorer"
  /\ \E files \in 0 .. MaxFiles : \E e \in Entries(files + 4) :
       /\ Begins(e, ExplorerTop)
       /\ \A i \in 4 .. files + 3 : e[i] = "plain"
       /\ Open(e, Choice(files + 4))

(* A round of the main menu: reading the scripts of the card overwrites    *)
(* the index with what ReadFolder returns, which is below the number of    *)
(* the entries always there; where the card or the folder is gone it is    *)
(* left as it was, although a round with scripts may have gone before.     *)
GatherMain ==
  /\ caller = "main"
  /\ \E there \in BOOLEAN, err \in 0 .. 3, scripts \in 0 .. MaxScripts :
     \E e \in Entries(4 + Embedded + scripts) :
       /\ scripts > 0 => there /\ err = 0
       /\ Begins(e, MainTop)
       /\ \A i \in 4 .. 3 + Embedded + scripts : e[i] = "plain"
       /\ Open(e, IF there THEN err ELSE res)

(* The menu of a file, opened on its first entry each time.                *)
GatherFile ==
  /\ caller = "file"
  /\ \E e \in Entries(6) : Begins(e, FileTop) /\ Open(e, 0)

-----------------------------------------------------------------------------
Row(i) == i % screenLenY

(* The entries of the page of selected that are printed, in order.         *)
Shown == {i \in DOMAIN entries : Page(i) = Page(selected) /\ entries[i] # "hide"}

EntryAt(r) == CHOOSE i \in Shown : Cardinality({j \in Shown : j < i}) = r

PageDrawn(old) ==
  [r \in DOMAIN old |->
     IF r < Cardinality(Shown)
     THEN [entry |-> EntryAt(r), lit |-> EntryAt(r) = selected]
     ELSE IF redrawScreen THEN Blank ELSE old[r]]

(* Only the two rows between which the choice has moved.                   *)
MoveDrawn(old) ==
  [old EXCEPT ![Row(lastIndex)] = [entry |-> lastIndex, lit |-> FALSE],
              ![Row(selected)]  = [entry |-> selected, lit |-> TRUE]]

Draw ==
  /\ pc = "draw"
  /\ screen' = IF redrawScreen \/ always THEN PageDrawn(screen)
               ELSE IF lastIndex # selected THEN MoveDrawn(screen)
               ELSE screen
  /\ lastIndex' = selected
  /\ pc' = "input"
  /\ UNCHANGED <<caller, res, entries, selected, redrawScreen, user>>

-----------------------------------------------------------------------------
(* Over the entries that cannot be chosen, as far as the first or the last *)
(* one.                                                                    *)
Skipping(s) ==
  LET stop == {t \in 0 .. count - 1 : t = 0 \/ t >= count - 1 \/ Plain(t)}
  IN IF s > lastIndex THEN Min({t \in stop : t >= s}) ELSE Max({t \in stop : t <= s})

(* Mutation: the choice may come to rest on the last entry, whatever it is. *)
LandsAnywhere(s) == Skipping(s)

Landing(s) == LET t == Skipping(s) IN IF Plain(t) THEN t ELSE lastIndex

(* Mutation: a page is turned only by moving forward.                      *)
TurnsForward(s) == Page(s) > Page(lastIndex)

Turns(s) == Page(s) # Page(lastIndex)

MoveTo(s) ==
  /\ selected' = Landing(s)
  /\ redrawScreen' = Turns(Landing(s))
  /\ pc' = "draw"
  /\ UNCHANGED <<caller, res, entries, lastIndex, screen, user>>

Input == pc = "input"

(* Mutation: the last entry is left out.                                   *)
DownShort ==
  /\ Input /\ user \in {"any", "down"}
  /\ selected + 2 < count
  /\ MoveTo(selected + 1)

Down ==
  /\ Input /\ user \in {"any", "down"}
  /\ selected + 1 < count
  /\ MoveTo(selected + 1)

Up ==
  /\ Input /\ user \in {"any", "up"}
  /\ selected >= 1
  /\ MoveTo(selected - 1)

Right ==
  /\ Input /\ user \in {"any", "right"}
  /\ \/ selected + screenLenY < count /\ MoveTo(selected + screenLenY)
     \/ /\ selected + screenLenY >= count
        /\ Page(selected) # Page(count - 1)
        /\ MoveTo(count - 1)

Left ==
  /\ Input /\ user = "any"
  /\ selected >= screenLenY
  /\ MoveTo(selected - screenLenY)

(* The caller goes on with the choice it was given; the explorer forgets   *)
(* it when it goes to another folder.                                      *)
Return(i) ==
  /\ pc' = "gather"
  /\ res' = i \/ (caller = "explorer" /\ res' = 0)
  /\ UNCHANGED <<caller, entries, selected, lastIndex, redrawScreen, screen, user>>

PressA == Input /\ user = "any" /\ Return(selected)

PressB == Input /\ user = "any" /\ enableB /\ Return(0)

Gather == GatherExplorer \/ GatherMain \/ GatherFile
Press  == Down \/ Up \/ Right

Next == Gather \/ Draw \/ Press \/ Left \/ PressA \/ PressB

Spec == Init /\ [][Next]_vars

(* The loop draws and waits; a user who wants to get to the end keeps on   *)
(* pressing.                                                               *)
FairSpec == Spec /\ WF_vars(Draw) /\ WF_vars(user # "any" /\ Press)

-----------------------------------------------------------------------------
(* The index that a caller kept from an earlier round is an entry of this  *)
(* one, and so is everything the loop makes of it; newMenu reads entries   *)
(* at it without a look at their number.  Only one caller gets it wrong,   *)
(* in one situation: the main menu, once no script of the card is listed.  *)
StartsOnAnEntry ==
  /\ pc \in {"draw", "input"} => {selected, lastIndex} \subseteq DOMAIN entries
  /\ pc = "astray" => caller = "main" /\ DOMAIN entries = 0 .. 3 + Embedded

(* While newMenu waits, the box shows the page of the choice, with the     *)
(* choice and nothing else lit, although most moves redraw two rows only.  *)
ShowsTheChoice ==
  pc = "input" =>
    /\ {r \in DOMAIN screen : screen[r].lit} # {}
    /\ \A r \in DOMAIN screen : screen[r].lit <=> screen[r].entry = selected
    /\ {screen[r].entry : r \in DOMAIN screen} \ {-1} = Shown

(* newMenu returns an entry that can be chosen, or 0 for the way back.     *)
ReturnsAChoice ==
  [][pc = "input" /\ pc' = "gather" => res' = 0 \/ Plain(res')]_vars

(* Down leads to the last entry that can be chosen, up to the first, and   *)
(* right to the last page: no heading or hidden entry is in the way.       *)
EndsAreReached ==
  LET plain == {i \in DOMAIN entries : Plain(i)} IN
    /\ pc # "astray" /\ user = "down"  ~> selected = Max(plain)
    /\ pc # "astray" /\ user = "up"    ~> selected = Min(plain)
    /\ pc # "astray" /\ user = "right" ~> Page(selected) = Page(count - 1)
=============================================================================
