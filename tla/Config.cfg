\* Three config set commands on two settings, and a reader.
SPECIFICATION Spec
CONSTANTS
    w1 = w1
    w2 = w2
    w3 = w3
    r1 = r1
    k1 = k1
    k2 = k2
    v1 = v1
    Writers = {w1, w2, w3}
    Readers = {r1}
    Keys = {k1, k2}
    Values = {v1}
    Invalid = Invalid
    Unset = Unset
    NoText = NoText
    Torn = Torn
PROPERTY ImplementsSettings
