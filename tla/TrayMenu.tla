------------------------------ MODULE TrayMenu ------------------------------
(***************************************************************************)
(* The menu of a tray item in the SCTK bar (shell-sctk/src/main.rs).  A    *)
(* right click opens the item's menu; each page is fetched by a thread of  *)
(* its own and comes back as an event, by which time the user may have     *)
(* gone into another page, to another item or away.  An empty reply closes *)
(* the menu and falls back to the item's own ContextMenu.                  *)
(*                                                                         *)
(* Page is a tree of pages, Root the first one of each item.  Which rows a *)
(* page has is left to its application: a row is an entry or leads to      *)
(* another page.                                                           *)
(***************************************************************************)
EXTENDS Naturals, SequencesExt, FiniteSets

CONSTANTS
    Items,              \* tray items with a menu
    Outputs,
    Root, Submenus,     \* the pages of every menu
    MaxDepth,           \* pages entered below one another (16 in the code)
    MaxFetches,         \* bound: pages on their way
    Closed              \* no menu is open

Pages == {Root} \cup Submenus
Menus == [item : Items, output : Outputs, parents : Seq(Pages), rows : Pages \cup {Closed}]
MenuAssumption ==
    /\ Root \notin Submenus /\ MaxDepth \in Nat \ {0} /\ MaxFetches \in Nat
    /\ Closed \notin Menus

Replies == [item : Items, page : Pages, found : BOOLEAN]

VARIABLES
    menu,               \* tray_menu; rows holds the page they came from
    fetches,            \* pages on their way, as the threads will reply
    pagesSeen,          \* the menu surface of an output: "none", "small", "menu"
    did                 \* what the last step did to an application

menuVars == <<menu, fetches, pagesSeen, did>>

-----------------------------------------------------------------------------
MenuTypeOK ==
    /\ menu # Closed => menu \in Menus /\ Len(menu.parents) \in 1..MaxDepth
    /\ fetches \subseteq Replies
    /\ pagesSeen \in [Outputs -> {"none", "small", "menu"}]
    /\ did \in {<<>>} \cup (Items \X (Pages \cup {"ContextMenu"}))

MenuInit ==
    /\ menu = Closed /\ fetches = {} /\ did = <<>>
    /\ pagesSeen = [o \in Outputs |-> "none"]

Nothing == did' = <<>>
\* load_tray_menu_page: the application may fail to answer.
Fetch(item, page) ==
    /\ Cardinality(fetches) < MaxFetches
    /\ \E found \in BOOLEAN :
          fetches' = fetches \cup {[item |-> item, page |-> page, found |-> found]}
Small == [o \in Outputs |-> IF pagesSeen[o] = "none" THEN "none" ELSE "small"]

-----------------------------------------------------------------------------
(* Operators named Mut... are slips of the definition below them that the  *)
(* properties must catch; no specification uses them.                      *)

\* A click of the bar closes what is open; a right click on an item opens its
\* menu in a surface that has no size before the first page is there.
OpenMenu(item, output) ==
    /\ menu' = [item |-> item, output |-> output, parents |-> <<Root>>, rows |-> Closed]
    /\ pagesSeen' = [Small EXCEPT ![output] = IF pagesSeen[output] = "none" THEN "small" ELSE @]
    /\ Fetch(item, Root) /\ Nothing
CloseMenu ==
    /\ menu # Closed
    /\ menu' = Closed /\ pagesSeen' = Small
    /\ Nothing /\ UNCHANGED fetches

\* A reply counts if it is for the page the menu is on now.
MutAwaited(reply) == menu # Closed /\ menu.item = reply.item
Awaited(reply) == menu # Closed /\ menu.item = reply.item /\ Last(menu.parents) = reply.page

Loaded(reply) ==
    /\ reply \in fetches
    /\ fetches' = fetches \ {reply}
    /\ IF ~Awaited(reply) THEN Nothing /\ UNCHANGED <<menu, pagesSeen>>
       ELSE IF reply.found
       THEN /\ menu' = [menu EXCEPT !.rows = reply.page]
            /\ pagesSeen' = [pagesSeen EXCEPT ![menu.output] = IF @ = "none" THEN @ ELSE "menu"]
            /\ Nothing
       ELSE /\ menu' = Closed /\ pagesSeen' = Small
            /\ did' = <<menu.item, "ContextMenu">>

\* The first row of a page below the first leads back.
MutBack == /\ menu' = [menu EXCEPT !.parents = Front(@)]
Back == /\ menu' = [menu EXCEPT !.parents = Front(@), !.rows = Closed]
GoBack ==
    /\ menu # Closed /\ Len(menu.parents) > 1
    /\ Back
    /\ Fetch(menu.item, Last(menu'.parents))
    /\ Nothing /\ UNCHANGED pagesSeen

\* A row that leads to a page is followed; at the greatest depth it is taken
\* for an entry.
Enter(page) ==
    /\ menu # Closed /\ menu.rows # Closed /\ Len(menu.parents) < MaxDepth
    /\ page # Last(menu.parents)
    /\ menu' = [menu EXCEPT !.parents = Append(@, page), !.rows = Closed]
    /\ Fetch(menu.item, page)
    /\ Nothing /\ UNCHANGED pagesSeen
ClickEntry ==
    /\ menu # Closed /\ menu.rows # Closed
    /\ did' = <<menu.item, menu.rows>>
    /\ menu' = Closed /\ pagesSeen' = Small
    /\ UNCHANGED fetches

\* The compositor closes the surface with its output; the menu stays open.
MenuSurfaceClosed(output) ==
    /\ pagesSeen[output] # "none"
    /\ pagesSeen' = [pagesSeen EXCEPT ![output] = "none"]
    /\ Nothing /\ UNCHANGED <<menu, fetches>>

MenuNext ==
    \/ \E item \in Items, output \in Outputs : OpenMenu(item, output)
    \/ CloseMenu \/ GoBack \/ ClickEntry
    \/ \E page \in Submenus : Enter(page)
    \/ \E reply \in fetches : Loaded(reply)
    \/ \E output \in Outputs : MenuSurfaceClosed(output)

MenuSpec == MenuInit /\ [][MenuNext]_menuVars

-----------------------------------------------------------------------------
(* Properties.                                                             *)

\* However late the pages come, the rows the user can click are those of the
\* page that is open, and only the open menu has a surface with rows.
RowsAreThePage ==
    /\ menu # Closed => menu.rows \in {Closed, Last(menu.parents)}
    /\ \A o \in Outputs : pagesSeen[o] = "menu" => menu # Closed /\ menu.output = o

MenuInv == MenuTypeOK /\ RowsAreThePage
=============================================================================
