SPECIFICATION Spec
CONSTANTS
    r1 = r1
    r2 = r2
    v1 = v1
    e1 = e1
    e2 = e2
    e3 = e3
    k1 = k1
    k2 = k2
    k3 = k3
    None = None
    Registrars = {r1}
    Revalidators = {v1}
    Emails = {e1, e2, e3}
    Keys = {k1, k2, k3}
    Scraped <- OwnKeys
CHECK_DEADLOCK FALSE
PROPERTIES NoAccountLost
