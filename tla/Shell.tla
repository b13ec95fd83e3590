-------------------------------- MODULE Shell --------------------------------
(* The frame around the pages: the sidebar, the menu over a narrow window    *)
(* and the theme, in several tabs of one browser                             *)
(* (frontend/src/components/theme-provider.tsx, components/ui/sidebar.tsx,   *)
(* hooks/useMobile.ts).  Tabs share the cookie and the local storage, and    *)
(* read them only when they render for the first time; the window and the    *)
(* system's preference change at any time, between a render and its effects  *)
(* included, and the tab hears of it by an event of a media query.           *)
EXTENDS Naturals, FiniteSets

CONSTANTS
    Tabs,
    Resizable,  \* the tabs whose window changes its width
    None

ASSUMPTION ResizableTabs == Resizable \subseteq Tabs

Theme == {"light", "dark", "system"}
ASSUMPTION NoneIsNoChoice == None \notin Theme /\ None \notin BOOLEAN

DefaultTheme == "light"  \* main.tsx
DefaultOpen == TRUE

VARIABLES
    dark,     \* prefers-color-scheme: dark
    cookie,   \* sidebar_state: None, TRUE or FALSE
    stored,   \* localStorage "fde-ui-theme": None or a theme
    tab,      \* what every tab holds
    latest,   \* ghost: the latest choices, [open, theme]
    behind    \* ghost: the tabs that rendered before them, [open, theme]

vars == <<dark, cookie, stored, tab, latest, behind>>

\* A component is rendered, and its effects run some time after: mounted.
Phase == {"none", "rendered", "mounted"}

\* seenDark and seenNarrow: what the media query of the tab last reported, or
\* found when it was made.  classes: of the document's root element.
Tab == [page : Phase, theme : Theme, resolved : {"light", "dark"},
        classes : SUBSET {"light", "dark"}, seenDark : BOOLEAN,
        shell : Phase, open : BOOLEAN, openMobile : BOOLEAN, isMobile : BOOLEAN,
        narrow : BOOLEAN, seenNarrow : BOOLEAN]

TypeOK ==
    /\ dark \in BOOLEAN
    /\ cookie \in BOOLEAN \cup {None}
    /\ stored \in Theme \cup {None}
    /\ tab \in [Tabs -> Tab]
    /\ latest \in [open : BOOLEAN, theme : Theme]
    /\ behind \in [open : SUBSET Tabs, theme : SUBSET Tabs]
---------------------------------------------------------------------------
(* Theme                                                                    *)

getResolvedTheme(theme) ==
    IF theme = "system" THEN (IF dark THEN "dark" ELSE "light") ELSE theme

\* The state of a tab after the effect of ThemeProvider: the page is repainted,
\* the query made anew.
Themed(r, theme) ==
    [r EXCEPT !.theme = theme, !.resolved = getResolvedTheme(theme),
              !.classes = {getResolvedTheme(theme)}, !.seenDark = dark]

\* A page without shell: not signed in.
WithoutShell(r) ==
    [r EXCEPT !.shell = "none", !.open = DefaultOpen, !.openMobile = FALSE,
              !.isMobile = FALSE, !.seenNarrow = FALSE]

\* A tab is opened or reloaded, and renders.
Load(t) ==
    LET theme == IF stored = None THEN DefaultTheme ELSE stored
    IN  /\ tab' = [tab EXCEPT ![t] =
                      [WithoutShell(@) EXCEPT
                          !.page = "rendered", !.theme = theme,
                          !.resolved = getResolvedTheme(theme),
                          !.classes = {}, !.seenDark = FALSE]]
        /\ behind' = [behind EXCEPT !.theme = @ \ {t}]
        /\ UNCHANGED <<dark, cookie, stored, latest>>

ThemeEffect(t) ==
    /\ tab[t].page = "rendered"
    /\ tab' = [tab EXCEPT ![t] = [Themed(@, @.theme) EXCEPT !.page = "mounted"]]
    /\ UNCHANGED <<dark, cookie, stored, latest, behind>>

\* What the sidebar holds can be reached: beside the page, or in the open sheet.
MenuReachable(t) == tab[t].shell = "mounted" /\ (tab[t].isMobile => tab[t].openMobile)

\* setTheme, from the sidebar or the page of the login.  The effect runs again
\* only if the theme is another one; the storage is written anyway.
SetTheme(t, theme) ==
    /\ tab[t].page = "mounted"
    /\ tab[t].shell = "none" \/ MenuReachable(t)
    /\ stored' = theme
    /\ tab' = [tab EXCEPT ![t] = IF theme = @.theme THEN @ ELSE Themed(@, theme)]
    /\ latest' = [latest EXCEPT !.theme = theme]
    /\ behind' = [behind EXCEPT !.theme = Tabs \ {t}]
    /\ UNCHANGED <<dark, cookie>>

\* Mutant: a page that follows the system is told, and not repainted.
PreferenceReportUnpainted(t) ==
    /\ tab[t].page = "mounted" /\ tab[t].seenDark # dark
    /\ tab' = [tab EXCEPT ![t].seenDark = dark, ![t].resolved = getResolvedTheme(tab[t].theme)]
    /\ UNCHANGED <<dark, cookie, stored, latest, behind>>

\* handleChange: the event of the query (prefers-color-scheme: dark).
PreferenceReport(t) ==
    /\ tab[t].page = "mounted" /\ tab[t].seenDark # dark
    /\ tab' = [tab EXCEPT ![t] = IF @.theme = "system" THEN Themed(@, "system")
                                 ELSE [@ EXCEPT !.seenDark = dark]]
    /\ UNCHANGED <<dark, cookie, stored, latest, behind>>
---------------------------------------------------------------------------
(* Sidebar                                                                  *)

\* Mutant: no default for a browser without the cookie.
getInitialOpenWithoutDefault == cookie

getInitialOpen == IF cookie = None THEN DefaultOpen ELSE cookie

\* The layout renders for the first time: after loading, or after a sign-in.
EnterShell(t) ==
    /\ tab[t].page = "mounted" /\ tab[t].shell = "none"
    /\ tab' = [tab EXCEPT ![t].shell = "rendered", ![t].open = getInitialOpen]
    /\ behind' = [behind EXCEPT !.open = @ \ {t}]
    /\ UNCHANGED <<dark, cookie, stored, latest>>

useIsMobile(t) ==
    /\ tab[t].shell = "rendered"
    /\ tab' = [tab EXCEPT ![t].shell = "mounted", ![t].seenNarrow = tab[t].narrow,
                          ![t].isMobile = tab[t].narrow]
    /\ UNCHANGED <<dark, cookie, stored, latest, behind>>

\* onChange: the event of the query (max-width: 767px).
WidthReport(t) ==
    /\ tab[t].shell = "mounted" /\ tab[t].seenNarrow # tab[t].narrow
    /\ tab' = [tab EXCEPT ![t].seenNarrow = tab[t].narrow, ![t].isMobile = tab[t].narrow]
    /\ UNCHANGED <<dark, cookie, stored, latest, behind>>

\* Mutant: the choice is not kept.
setOpenUnkept(t, open) ==
    /\ tab' = [tab EXCEPT ![t].open = open]
    /\ latest' = [latest EXCEPT !.open = open]
    /\ behind' = [behind EXCEPT !.open = Tabs \ {t}]
    /\ UNCHANGED cookie

setOpen(t, open) ==
    /\ tab' = [tab EXCEPT ![t].open = open]
    /\ cookie' = open
    /\ latest' = [latest EXCEPT !.open = open]
    /\ behind' = [behind EXCEPT !.open = Tabs \ {t}]

\* The trigger in the header, or Ctrl+B.
toggleSidebar(t) ==
    /\ tab[t].shell = "mounted"
    /\ IF tab[t].isMobile
       THEN /\ tab' = [tab EXCEPT ![t].openMobile = ~@]
            /\ UNCHANGED <<cookie, latest, behind>>
       ELSE setOpen(t, ~tab[t].open)
    /\ UNCHANGED <<dark, stored>>

\* The sheet is closed: outside it, by Escape, or by choosing a page in it.  A
\* page chosen beside the sidebar leaves a sheet that is not shown as it is.
CloseSheet(t) ==
    /\ tab[t].shell = "mounted" /\ tab[t].isMobile /\ tab[t].openMobile
    /\ tab' = [tab EXCEPT ![t].openMobile = FALSE]
    /\ UNCHANGED <<dark, cookie, stored, latest, behind>>

\* The session ends without a reload: the layout goes, the page stays.
LeaveShell(t) ==
    /\ tab[t].shell = "mounted" /\ MenuReachable(t)
    /\ tab' = [tab EXCEPT ![t] = WithoutShell(@)]
    /\ UNCHANGED <<dark, cookie, stored, latest, behind>>
---------------------------------------------------------------------------
(* Around the tabs                                                          *)

PreferenceChanges ==
    /\ dark' = ~dark
    /\ UNCHANGED <<cookie, stored, tab, latest, behind>>

Resize(t) ==
    /\ t \in Resizable
    /\ tab' = [tab EXCEPT ![t].narrow = ~@]
    /\ UNCHANGED <<dark, cookie, stored, latest, behind>>

\* max-age: seven days without a choice.
CookieExpires ==
    /\ cookie # None
    /\ cookie' = None
    /\ latest' = [latest EXCEPT !.open = DefaultOpen]
    /\ behind' = [behind EXCEPT !.open = Tabs]
    /\ UNCHANGED <<dark, stored, tab>>

Init ==
    /\ dark \in BOOLEAN
    /\ cookie = None
    /\ stored = None
    /\ tab = [t \in Tabs |->
                [page |-> "none", theme |-> DefaultTheme, resolved |-> DefaultTheme,
                 classes |-> {}, seenDark |-> FALSE, shell |-> "none",
                 open |-> DefaultOpen, openMobile |-> FALSE, isMobile |-> FALSE,
                 narrow |-> FALSE, seenNarrow |-> FALSE]]
    /\ latest = [open |-> DefaultOpen, theme |-> DefaultTheme]
    /\ behind = [open |-> {}, theme |-> {}]

Next ==
    \/ \E t \in Tabs :
          \/ Load(t) \/ ThemeEffect(t) \/ PreferenceReport(t)
          \/ \E theme \in Theme : SetTheme(t, theme)
          \/ EnterShell(t) \/ useIsMobile(t) \/ WidthReport(t)
          \/ toggleSidebar(t) \/ CloseSheet(t) \/ LeaveShell(t) \/ Resize(t)
    \/ PreferenceChanges
    \/ CookieExpires

Spec == Init /\ [][Next]_vars
---------------------------------------------------------------------------
(* Properties                                                               *)

\* Once its effects have run a tab is painted in the chosen theme, as the
\* system prefers where the theme leaves it to the system, and knows whether its
\* window is narrow: it is behind only while the event of a media query is on
\* its way, and no change between the first render and the effect is missed
\* (theme-provider.tsx:71-89, useMobile.ts:8-15).
MediaAreFollowed ==
    \A t \in Tabs :
        /\ tab[t].page = "mounted" /\ (tab[t].seenDark = dark \/ tab[t].theme # "system") =>
              /\ tab[t].classes = {getResolvedTheme(tab[t].theme)}
              /\ tab[t].resolved = getResolvedTheme(tab[t].theme)
        /\ tab[t].shell = "mounted" /\ tab[t].seenNarrow = tab[t].narrow =>
              tab[t].isMobile = tab[t].narrow

\* A tab that rendered after the latest choice of any tab, in which it may have
\* been made and reloaded since, shows it: the sheet of a narrow window does not
\* count as a choice, and a choice in a tab that shows something older does
\* (sidebar.tsx:70-99, theme-provider.tsx:43-46,96-99).
LatestChoiceIsShown ==
    \A t \in Tabs :
        /\ tab[t].shell # "none" /\ t \notin behind.open => tab[t].open = latest.open
        /\ tab[t].page # "none" /\ t \notin behind.theme => tab[t].theme = latest.theme
=============================================================================
