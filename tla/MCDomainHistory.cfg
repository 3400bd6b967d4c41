SPECIFICATION HFairSpec
CONSTANTS
    None = None
    Threads = {w1, w2}
    Settings = {s1, s2}
    Pages = 2
    Tools = {"add_dc", "remove_dc", "get_user", "list_users", "create_user"}
INVARIANTS IndInv RegistriesAgree OpsCurrent AnswersHold
PROPERTIES ImplementsRegistry CallsDrain
