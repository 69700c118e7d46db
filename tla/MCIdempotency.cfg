\* One key, a payload that names a hold and one that does not, two processes;
\* a record lives two ticks, so that it expires under a later request.
SPECIFICATION Spec
CONSTANTS
    Client = {c1, c2}
    Key = {k}
    Payload = {held, direct}
    HeldPayload = {held}
    Ttl = 2
    RequestTime = 1
    MaxResvs = 2
    MaxTime = 4
SYMMETRY Symmetry
INVARIANTS OncePerKey AnswerMatches
