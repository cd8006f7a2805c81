SPECIFICATION MCSpec
CONSTANTS
    n1 = n1
    n2 = n2
    k1 = k1
    k2 = k2
    Nodes = {n1, n2}
    Kubes = {k1, k2}
    Groups = {g1, g2}
    Namesake <- NameByName
    None = none
    MaxEdits = 2
INVARIANT TypeOK
PROPERTIES OwnerFollowsLabel ViewsAgree TemplatesFit SizesAgree Operable
CHECK_DEADLOCK FALSE
