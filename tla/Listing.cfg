SPECIFICATION ListingSpec
CONSTANTS
    sdk = sdk
    generic = generic
    body1 = body1
    body2 = body2
    sameBody = sameBody
    webcam = webcam
    model = model
    None = None
    Backends = {sdk, generic}
    Ids = {body1, body2, sameBody, webcam}
    Owner <- BodiesOwner
    Priority <- BodiesPriority
    Key <- BodiesKey
    Place <- BodiesPlace
    Polls = {p1}
    Requests = {k1}
PROPERTIES
    AnswersAreDeduped
    PollsEnd
    GoneIsUnlisted
