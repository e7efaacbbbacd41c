SPECIFICATION Spec
CONSTANT N = 2
INVARIANTS TypeOK SharesItsFuzzer
PROPERTIES ServersServe ServersReturn
