SPECIFICATION Spec
CONSTANTS
    delivery = delivery price = price
    TopicOrder <- MCTopicOrder
    Delivery = delivery
    Operators = {anna, binh}
    Owners = {"support"}
    Playbook = "commerce"
    Payloads <- MCPayloads
    Findings <- MCFindings
    Evidence = 2
    None = None
    MaxBuilds = 2
    MaxPatches = 2
    MaxCuts = 1
SYMMETRY Interchangeable

PROPERTY ReferencesAreFrozen
CHECK_DEADLOCK FALSE
