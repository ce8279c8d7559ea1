SPECIFICATION MCSpec
CONSTANTS
    Requests = {r1}
    Tools = {t1}
    Buttons = {b1, b2}
    Nothing = Nothing
    Texts <- MCTexts
    Marker <- MCMarker
    Payload <- MCPayload
    Growing = {"ss"}
    Blanks = {" "}
    Keys = {"k"}
    Opening = "["
    Closing = "]"
    Mask <- MCMask
INVARIANTS
    HiddenStaysHidden
    AnswerStands
    MessagesTrue
    StatusFollowsRun
PROPERTIES
    ResultTold
    FollowUpAppears
CHECK_DEADLOCK FALSE
