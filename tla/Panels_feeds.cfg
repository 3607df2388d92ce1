\* Two items on whatever channels, lists of one, every key.
CONSTANTS
    AppOrder <- Apps2
    Items <- SomeItems
    ChSize <- Sizes
    Keep <- Kept
    Chars = {"x"}
    MaxSent = 2
    MaxSearch = 1
SPECIFICATION Spec
INVARIANTS
    PanelTypeOK
    PanelsShowHistory
    ViewsAreFresh
