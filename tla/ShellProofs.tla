----------------------------- MODULE ShellProofs -----------------------------
(* The frame of the pages, for any number of tabs.  Neither property is      *)
(* inductive: a tab is painted as its media query last reported, and not as  *)
(* the system prefers now, and what the next tab to render shows is in the   *)
(* cookie and the storage.                                                   *)
EXTENDS Shell, TLAPS

ResolvedAt(theme, d) == IF theme = "system" THEN (IF d THEN "dark" ELSE "light") ELSE theme

\* Painted and measured as last reported.
AsReported ==
    \A t \in Tabs :
        /\ tab[t].page = "mounted" =>
              /\ tab[t].classes = {ResolvedAt(tab[t].theme, tab[t].seenDark)}
              /\ tab[t].resolved = ResolvedAt(tab[t].theme, tab[t].seenDark)
        /\ tab[t].shell = "mounted" => tab[t].isMobile = tab[t].seenNarrow

\* The latest choices are what a tab that renders now reads.
ChoicesKept ==
    /\ latest.open = getInitialOpen
    /\ latest.theme = IF stored = None THEN DefaultTheme ELSE stored

IInv == TypeOK /\ AsReported /\ ChoicesKept /\ LatestChoiceIsShown

\* A theme resolves to one of the two the page can be painted in.
LEMMA ResolvedTheme ==
    ASSUME TypeOK, NEW theme \in Theme
    PROVE  /\ getResolvedTheme(theme) \in {"light", "dark"}
           /\ getResolvedTheme(theme) = ResolvedAt(theme, dark)
BY DEF TypeOK, Theme, getResolvedTheme, ResolvedAt

\* What a tab renders from the cookie is a choice.
LEMMA InitialOpenIsChoice ==
    ASSUME TypeOK
    PROVE  getInitialOpen \in BOOLEAN
BY DEF TypeOK, getInitialOpen, DefaultOpen

\* At first no tab is loaded.
LEMMA InitEstablishes == Init => IInv
<1>1. SUFFICES ASSUME Init PROVE IInv
  OBVIOUS
<1>2. TypeOK
  BY <1>1 DEF Init, TypeOK, Tab, Phase, Theme, DefaultTheme, DefaultOpen
<1>3. AsReported
  BY <1>1 DEF Init, AsReported, DefaultTheme, DefaultOpen
<1>4. ChoicesKept
  BY <1>1 DEF Init, ChoicesKept, getInitialOpen, DefaultTheme, DefaultOpen
<1>5. LatestChoiceIsShown
  BY <1>1 DEF Init, LatestChoiceIsShown, DefaultTheme, DefaultOpen
<1> QED
  BY <1>2, <1>3, <1>4, <1>5 DEF IInv


\* A tab that loads reads what is stored.
LEMMA LoadKeeps ==
    ASSUME IInv, NEW t \in Tabs, Load(t)
    PROVE  IInv'
<1> USE DEF IInv
<1>1. tab \in [Tabs -> Tab] /\ tab[t] \in Tab
  BY DEF TypeOK
<1>2. tab' \in [Tabs -> Tab]
  <2> DEFINE theme == IF stored = None THEN DefaultTheme ELSE stored
  <2>1. theme \in Theme
    BY DEF TypeOK, Theme, DefaultTheme
  <2>2. getResolvedTheme(theme) \in {"light", "dark"}
    BY <2>1, ResolvedTheme
  <2>3. WithoutShell(tab[t]) \in Tab
    BY <1>1 DEF Tab, Phase, WithoutShell, DefaultOpen
  <2>4. tab' = [tab EXCEPT ![t] = [WithoutShell(tab[t]) EXCEPT
                   !.page = "rendered", !.theme = theme,
                   !.resolved = getResolvedTheme(theme), !.classes = {}, !.seenDark = FALSE]]
    BY DEF Load
  <2> HIDE DEF theme
  <2> QED
    BY <1>1, <2>1, <2>2, <2>3, <2>4 DEF Tab, Phase
<1>3. TypeOK'
  BY <1>2 DEF TypeOK, Load, WithoutShell, DefaultOpen, DefaultTheme
<1>4. \A u \in Tabs : u # t => tab'[u] = tab[u]
  BY <1>1 DEF Load, WithoutShell, DefaultOpen, DefaultTheme
<1>5. AsReported'
  BY <1>1, <1>4, ResolvedTheme DEF TypeOK, Tab, AsReported, Load, WithoutShell, DefaultOpen, DefaultTheme
<1>6. ChoicesKept'
  BY DEF TypeOK, ChoicesKept, getInitialOpen, Load, WithoutShell, DefaultOpen, DefaultTheme
<1>7. LatestChoiceIsShown'
  BY <1>1, <1>4 DEF TypeOK, Tab, ChoicesKept, LatestChoiceIsShown, Load, WithoutShell, DefaultOpen, DefaultTheme
<1> QED
  BY <1>3, <1>5, <1>6, <1>7

\* The first effect paints the page as the system prefers now.
LEMMA ThemeEffectKeeps ==
    ASSUME IInv, NEW t \in Tabs, ThemeEffect(t)
    PROVE  IInv'
<1> USE DEF IInv
<1>1. tab \in [Tabs -> Tab] /\ tab[t] \in Tab
  BY DEF TypeOK
<1>2. tab' \in [Tabs -> Tab]
  BY <1>1, ResolvedTheme DEF TypeOK, Tab, Phase, Theme, ThemeEffect, Themed
<1>3. TypeOK'
  BY <1>2 DEF TypeOK, ThemeEffect, Themed
<1>4. \A u \in Tabs : u # t => tab'[u] = tab[u]
  BY <1>1 DEF ThemeEffect, Themed
<1>5. AsReported'
  BY <1>1, <1>4, ResolvedTheme DEF TypeOK, Tab, AsReported, ThemeEffect, Themed
<1>6. ChoicesKept'
  BY DEF TypeOK, ChoicesKept, getInitialOpen, ThemeEffect, Themed
<1>7. LatestChoiceIsShown'
  BY <1>1, <1>4 DEF TypeOK, Tab, ChoicesKept, LatestChoiceIsShown, ThemeEffect, Themed
<1> QED
  BY <1>3, <1>5, <1>6, <1>7

\* A report repaints the pages that follow the system.
LEMMA PreferenceReportKeeps ==
    ASSUME IInv, NEW t \in Tabs, PreferenceReport(t)
    PROVE  IInv'
<1> USE DEF IInv
<1>1. tab \in [Tabs -> Tab] /\ tab[t] \in Tab
  BY DEF TypeOK
<1>2. tab' \in [Tabs -> Tab]
  BY <1>1, ResolvedTheme DEF TypeOK, Tab, Phase, Theme, PreferenceReport, Themed
<1>3. TypeOK'
  BY <1>2 DEF TypeOK, PreferenceReport, Themed
<1>4. \A u \in Tabs : u # t => tab'[u] = tab[u]
  BY <1>1 DEF PreferenceReport, Themed
<1>5. AsReported'
  <2>1. CASE tab[t].theme = "system"
    <3>1. tab'[t] = Themed(tab[t], "system")
      BY <1>1, <2>1 DEF PreferenceReport
    <3> QED
      BY <1>1, <1>4, <2>1, <3>1, ResolvedTheme
      DEF Tab, Theme, AsReported, ResolvedAt, getResolvedTheme, Themed, PreferenceReport
  <2>2. CASE tab[t].theme # "system"
    <3>1. tab'[t] = [tab[t] EXCEPT !.seenDark = dark]
      BY <1>1, <2>2 DEF PreferenceReport
    <3> QED
      BY <1>1, <1>4, <2>2, <3>1 DEF Tab, AsReported, ResolvedAt
  <2> QED
    BY <2>1, <2>2
<1>6. ChoicesKept'
  BY DEF TypeOK, ChoicesKept, getInitialOpen, PreferenceReport, Themed
<1>7. LatestChoiceIsShown'
  BY <1>1, <1>4 DEF TypeOK, Tab, ChoicesKept, LatestChoiceIsShown, PreferenceReport, Themed
<1> QED
  BY <1>3, <1>5, <1>6, <1>7

\* A chosen theme is stored, painted, and leaves the other tabs behind.
LEMMA SetThemeKeeps ==
    ASSUME IInv, NEW t \in Tabs, NEW theme \in Theme, SetTheme(t, theme)
    PROVE  IInv'
<1> USE DEF IInv
<1>1. tab \in [Tabs -> Tab] /\ tab[t] \in Tab
  BY DEF TypeOK
<1>2. tab' \in [Tabs -> Tab]
  BY <1>1, ResolvedTheme, ZenonT(30) DEF TypeOK, Tab, Phase, Theme, SetTheme, Themed
<1>3. TypeOK'
  BY <1>2 DEF TypeOK, SetTheme, Themed
<1>4. \A u \in Tabs : u # t => tab'[u] = tab[u]
  BY <1>1 DEF SetTheme, Themed
<1>5. AsReported'
  BY <1>1, <1>4, ResolvedTheme DEF TypeOK, Tab, AsReported, SetTheme, Themed
<1>6. ChoicesKept'
  BY NoneIsNoChoice DEF TypeOK, ChoicesKept, getInitialOpen, SetTheme, Themed
<1>7. LatestChoiceIsShown'
  BY <1>1, <1>4 DEF TypeOK, Tab, ChoicesKept, LatestChoiceIsShown, SetTheme, Themed
<1> QED
  BY <1>3, <1>5, <1>6, <1>7

\* The sidebar renders as the cookie says.
LEMMA EnterShellKeeps ==
    ASSUME IInv, NEW t \in Tabs, EnterShell(t)
    PROVE  IInv'
<1> USE DEF IInv
<1>1. tab \in [Tabs -> Tab] /\ tab[t] \in Tab
  BY DEF TypeOK
<1>2. tab' \in [Tabs -> Tab]
  BY <1>1, InitialOpenIsChoice DEF TypeOK, Tab, Phase, Theme, EnterShell
<1>3. TypeOK'
  BY <1>2 DEF TypeOK, EnterShell
<1>4. \A u \in Tabs : u # t => tab'[u] = tab[u]
  BY <1>1 DEF EnterShell
<1>5. AsReported'
  BY <1>1, <1>4 DEF TypeOK, Tab, AsReported, EnterShell
<1>6. ChoicesKept'
  BY DEF TypeOK, ChoicesKept, getInitialOpen, EnterShell
<1>7. LatestChoiceIsShown'
  BY <1>1, <1>4 DEF TypeOK, Tab, ChoicesKept, LatestChoiceIsShown, EnterShell
<1> QED
  BY <1>3, <1>5, <1>6, <1>7

\* The effect measures the window.
LEMMA useIsMobileKeeps ==
    ASSUME IInv, NEW t \in Tabs, useIsMobile(t)
    PROVE  IInv'
<1> USE DEF IInv
<1>1. tab \in [Tabs -> Tab] /\ tab[t] \in Tab
  BY DEF TypeOK
<1>2. tab' \in [Tabs -> Tab]
  BY <1>1 DEF TypeOK, Tab, Phase, Theme, useIsMobile
<1>3. TypeOK'
  BY <1>2 DEF TypeOK, useIsMobile
<1>4. \A u \in Tabs : u # t => tab'[u] = tab[u]
  BY <1>1 DEF useIsMobile
<1>5. AsReported'
  BY <1>1, <1>4 DEF TypeOK, Tab, AsReported, useIsMobile
<1>6. ChoicesKept'
  BY DEF TypeOK, ChoicesKept, getInitialOpen, useIsMobile
<1>7. LatestChoiceIsShown'
  BY <1>1, <1>4 DEF TypeOK, Tab, ChoicesKept, LatestChoiceIsShown, useIsMobile
<1> QED
  BY <1>3, <1>5, <1>6, <1>7

\* A report measures the window again.
LEMMA WidthReportKeeps ==
    ASSUME IInv, NEW t \in Tabs, WidthReport(t)
    PROVE  IInv'
<1> USE DEF IInv
<1>1. tab \in [Tabs -> Tab] /\ tab[t] \in Tab
  BY DEF TypeOK
<1>2. tab' \in [Tabs -> Tab]
  BY <1>1 DEF TypeOK, Tab, Phase, Theme, WidthReport
<1>3. TypeOK'
  BY <1>2 DEF TypeOK, WidthReport
<1>4. \A u \in Tabs : u # t => tab'[u] = tab[u]
  BY <1>1 DEF WidthReport
<1>5. AsReported'
  BY <1>1, <1>4 DEF TypeOK, Tab, AsReported, WidthReport
<1>6. ChoicesKept'
  BY DEF TypeOK, ChoicesKept, getInitialOpen, WidthReport
<1>7. LatestChoiceIsShown'
  BY <1>1, <1>4 DEF TypeOK, Tab, ChoicesKept, LatestChoiceIsShown, WidthReport
<1> QED
  BY <1>3, <1>5, <1>6, <1>7

\* A toggle writes the cookie and leaves the other tabs behind, or moves the sheet.
LEMMA toggleSidebarKeeps ==
    ASSUME IInv, NEW t \in Tabs, toggleSidebar(t)
    PROVE  IInv'
<1> USE DEF IInv
<1>1. tab \in [Tabs -> Tab] /\ tab[t] \in Tab
  BY DEF TypeOK
<1>2. tab' \in [Tabs -> Tab]
  <2>1. CASE tab[t].isMobile
    <3> DEFINE moved == ~tab[t].openMobile
    <3>1. moved \in BOOLEAN
      OBVIOUS
    <3>2. tab' = [tab EXCEPT ![t].openMobile = moved]
      BY <2>1 DEF toggleSidebar
    <3> HIDE DEF moved
    <3> QED
      BY <1>1, <3>1, <3>2 DEF Tab
  <2>2. CASE ~tab[t].isMobile
    <3> DEFINE opened == ~tab[t].open
    <3>1. opened \in BOOLEAN
      OBVIOUS
    <3>2. tab' = [tab EXCEPT ![t].open = opened]
      BY <2>2 DEF toggleSidebar, setOpen
    <3> HIDE DEF opened
    <3> QED
      BY <1>1, <3>1, <3>2 DEF Tab
  <2> QED
    BY <2>1, <2>2
<1>3. TypeOK'
  <2>1. CASE tab[t].isMobile
    BY <1>2, <2>1 DEF TypeOK, toggleSidebar
  <2>2. CASE ~tab[t].isMobile
    <3> DEFINE opened == ~tab[t].open
    <3>1. opened \in BOOLEAN
      OBVIOUS
    <3>2. /\ cookie' = opened
          /\ latest' = [latest EXCEPT !.open = opened]
          /\ behind' = [behind EXCEPT !.open = Tabs \ {t}]
          /\ UNCHANGED <<dark, stored>>
      BY <2>2 DEF toggleSidebar, setOpen
    <3> HIDE DEF opened
    <3> QED
      BY <1>2, <3>1, <3>2 DEF TypeOK
  <2> QED
    BY <2>1, <2>2
<1>4. \A u \in Tabs : u # t => tab'[u] = tab[u]
  BY <1>1 DEF toggleSidebar, setOpen
<1>5. AsReported'
  BY <1>1, <1>4 DEF TypeOK, Tab, AsReported, toggleSidebar, setOpen
<1>6. ChoicesKept'
  BY NoneIsNoChoice DEF TypeOK, ChoicesKept, getInitialOpen, toggleSidebar, setOpen
<1>7. LatestChoiceIsShown'
  BY <1>1, <1>4 DEF TypeOK, Tab, ChoicesKept, LatestChoiceIsShown, toggleSidebar, setOpen
<1> QED
  BY <1>3, <1>5, <1>6, <1>7

\* Closing the sheet touches nothing else.
LEMMA CloseSheetKeeps ==
    ASSUME IInv, NEW t \in Tabs, CloseSheet(t)
    PROVE  IInv'
<1> USE DEF IInv
<1>1. tab \in [Tabs -> Tab] /\ tab[t] \in Tab
  BY DEF TypeOK
<1>2. tab' \in [Tabs -> Tab]
  BY <1>1 DEF TypeOK, Tab, Phase, Theme, CloseSheet
<1>3. TypeOK'
  BY <1>2 DEF TypeOK, CloseSheet
<1>4. \A u \in Tabs : u # t => tab'[u] = tab[u]
  BY <1>1 DEF CloseSheet
<1>5. AsReported'
  BY <1>1, <1>4 DEF TypeOK, Tab, AsReported, CloseSheet
<1>6. ChoicesKept'
  BY DEF TypeOK, ChoicesKept, getInitialOpen, CloseSheet
<1>7. LatestChoiceIsShown'
  BY <1>1, <1>4 DEF TypeOK, Tab, ChoicesKept, LatestChoiceIsShown, CloseSheet
<1> QED
  BY <1>3, <1>5, <1>6, <1>7

\* A tab that leaves the shell keeps its theme.
LEMMA LeaveShellKeeps ==
    ASSUME IInv, NEW t \in Tabs, LeaveShell(t)
    PROVE  IInv'
<1> USE DEF IInv
<1>1. tab \in [Tabs -> Tab] /\ tab[t] \in Tab
  BY DEF TypeOK
<1>2. tab' \in [Tabs -> Tab]
  BY <1>1 DEF TypeOK, Tab, Phase, Theme, LeaveShell, WithoutShell, DefaultOpen
<1>3. TypeOK'
  BY <1>2 DEF TypeOK, LeaveShell, WithoutShell, DefaultOpen
<1>4. \A u \in Tabs : u # t => tab'[u] = tab[u]
  BY <1>1 DEF LeaveShell, WithoutShell, DefaultOpen
<1>5. AsReported'
  BY <1>1, <1>4 DEF TypeOK, Tab, AsReported, LeaveShell, WithoutShell, DefaultOpen
<1>6. ChoicesKept'
  BY DEF TypeOK, ChoicesKept, getInitialOpen, LeaveShell, WithoutShell, DefaultOpen
<1>7. LatestChoiceIsShown'
  BY <1>1, <1>4, ZenonT(30) DEF TypeOK, Tab, ChoicesKept, LatestChoiceIsShown, LeaveShell, WithoutShell, DefaultOpen
<1> QED
  BY <1>3, <1>5, <1>6, <1>7

\* A new width is unseen until it is reported.
LEMMA ResizeKeeps ==
    ASSUME IInv, NEW t \in Tabs, Resize(t)
    PROVE  IInv'
<1> USE DEF IInv
<1>1. tab \in [Tabs -> Tab] /\ tab[t] \in Tab
  BY DEF TypeOK
<1>2. tab' \in [Tabs -> Tab]
  BY <1>1 DEF TypeOK, Tab, Phase, Theme, Resize
<1>3. TypeOK'
  BY <1>2 DEF TypeOK, Resize
<1>4. \A u \in Tabs : u # t => tab'[u] = tab[u]
  BY <1>1 DEF Resize
<1>5. AsReported'
  BY <1>1, <1>4 DEF TypeOK, Tab, AsReported, Resize
<1>6. ChoicesKept'
  BY DEF TypeOK, ChoicesKept, getInitialOpen, Resize
<1>7. LatestChoiceIsShown'
  BY <1>1, <1>4 DEF TypeOK, Tab, ChoicesKept, LatestChoiceIsShown, Resize
<1> QED
  BY <1>3, <1>5, <1>6, <1>7

\* What the tabs have seen reported does not change with the preference, and a
\* cookie that expires leaves every tab behind.
LEMMA AroundKeeps ==
    ASSUME IInv, PreferenceChanges \/ CookieExpires
    PROVE  IInv'
<1> USE DEF IInv
<1>1. CASE PreferenceChanges
  BY <1>1 DEF TypeOK, AsReported, ChoicesKept, LatestChoiceIsShown, getInitialOpen,
              PreferenceChanges
<1>2. CASE CookieExpires
  BY <1>2 DEF TypeOK, AsReported, ChoicesKept, LatestChoiceIsShown, getInitialOpen,
              CookieExpires, DefaultOpen
<1> QED
  BY <1>1, <1>2

\* IInv is inductive: initially true, and kept by every action of every tab.
THEOREM ShellInvariance == Spec => []IInv
<1>1. Init => IInv
  BY InitEstablishes
<1>2. IInv /\ [Next]_vars => IInv'
  <2> SUFFICES ASSUME IInv, [Next]_vars PROVE IInv'
    OBVIOUS
  <2>1. CASE UNCHANGED vars
    BY <2>1 DEF vars, IInv, TypeOK, AsReported, ChoicesKept, LatestChoiceIsShown, getInitialOpen
  <2>2. ASSUME NEW t \in Tabs,
               \/ Load(t) \/ ThemeEffect(t) \/ PreferenceReport(t)
               \/ \E theme \in Theme : SetTheme(t, theme)
               \/ EnterShell(t) \/ useIsMobile(t) \/ WidthReport(t)
               \/ toggleSidebar(t) \/ CloseSheet(t) \/ LeaveShell(t) \/ Resize(t)
        PROVE  IInv'
    BY <2>2, LoadKeeps, ThemeEffectKeeps, PreferenceReportKeeps, SetThemeKeeps,
       EnterShellKeeps, useIsMobileKeeps, WidthReportKeeps, toggleSidebarKeeps,
       CloseSheetKeeps, LeaveShellKeeps, ResizeKeeps
  <2>3. CASE PreferenceChanges \/ CookieExpires
    BY <2>3, AroundKeeps
  <2> QED
    BY <2>1, <2>2, <2>3 DEF Next
<1> QED
  BY <1>1, <1>2, PTL DEF Spec

\* The frame of every tab, the cookie and the storage keep their types.
THEOREM ShellTypes == Spec => []TypeOK
<1>1. IInv => TypeOK
  BY DEF IInv
<1> QED
  BY <1>1, ShellInvariance, PTL

\* Every tab is painted and measured as it was last told, whenever the preference
\* or the window changed.
THEOREM TabsFollowTheirMedia == Spec => []MediaAreFollowed
<1>1. IInv => MediaAreFollowed
  BY DEF IInv, AsReported, MediaAreFollowed, ResolvedAt, getResolvedTheme
<1> QED
  BY <1>1, ShellInvariance, PTL

\* The latest choice is shown by every tab that rendered after it.
THEOREM ChoicesAreShown == Spec => []LatestChoiceIsShown
<1>1. IInv => LatestChoiceIsShown
  BY DEF IInv
<1> QED
  BY <1>1, ShellInvariance, PTL
=============================================================================
