SPECIFICATION Spec
CONSTANTS
    a = a
    b = b
    anthropic = anthropic
    google = google
    Agents = {a, b}
    Providers = {anthropic, google}
    OAuthOrder <- Subscriptions
    ApiKeys <- Keys
    KeyIndexes = {0, 1}
    Nobody = Nobody
    KeysFrom = "session"
    \* A 403 is a 401 whose refresh was tried; a rate limit is a transient error that
    \* may be retried, and an auth error otherwise: the reasons are all that differ.
    ErrorKinds = {"auth401", "transient", "client"}
    MaxErrors = 4
    MaxToken = 1
CHECK_DEADLOCK FALSE
INVARIANTS  FailedKeyBenched
PROPERTIES RefreshesPresentToken CooldownNotRestarted FailuresHandled
