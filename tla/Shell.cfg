CONSTANTS
    Tabs = {t1, t2}
    Resizable = {t1, t2}
    None = None
SPECIFICATION Spec
INVARIANTS TypeOK MediaAreFollowed LatestChoiceIsShown
