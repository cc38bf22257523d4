SPECIFICATION Spec
CONSTANTS
    glm = glm
    kimi = kimi
    opus = opus
    p = p
    q = q
    serverKey = serverKey
    pKey = pKey
    qKey = qKey
    Names = {glm, kimi, opus}
    Accepted = {opus}
    Providers = {p, q}
    Variables = {serverKey, pKey, qKey}
    Documents <- AllDocuments
INVARIANTS
    TypeOK
    EveryModelIsReached
    LearnedIdsMeanOneModel
