SPECIFICATION Spec
CONSTANTS
    Names = {"a", "b", "f", "g", "?", "let", "loop", "mut", "cond", "match", "deftype", "defn", "fn", "defmacro", "deftest", "each", "do", "if", "module", "regex"}
    Keys = {":k"}
    Literals = {"1", "|", "s", "multi", "raw", "indented", "blank", "hole", "tag", "pattern", "misread"}
    Strings = {"s", "multi", "raw", "indented", "blank", "hole", "tag", "pattern"}
    Inside <- MCInside
    Misread = "misread"
    Comments = {";c", ";d"}
    Sources <- MCSources
INVARIANTS
    TypeOK
    BracketsAreMatched
    NothingReadIsLost
    ProgramKept
    CommentsKept
CHECK_DEADLOCK FALSE
