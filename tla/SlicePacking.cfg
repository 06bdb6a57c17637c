SPECIFICATION Spec
CONSTANTS
    Unreachable = Unreachable
    Addresses = {1, 2, 3, 11}
    FamilyOf <- MCFamilyOf
    PortTuples = {1, 2}
    Conditions = {"ready", "unready"}
    IPFamilies = {4, 6}
    maxPer = 2
    Names <- MCNames
    Layouts <- MCLayouts
    Lists <- MCLists
PROPERTIES
    PlanPresents
    OneChangeOneWrite
    PlanRetains
