SPECIFICATION Spec
CONSTANTS
    bought = bought  flow = flow  run = run  step = step
    None = None
    Customer = Customer
    Orders = {bought}
    Workers = {w1, w2}
    Steps = {step}
    Runs = {run}
    Names = {flow}
    RunOf <- MCRunOf
    NameOf <- MCNameOf
    TriggerOf <- MCTriggerOf
    Converts <- MCConverts
    MaxChanges <- MCChanges
    MaxFaults = 1
INVARIANTS RunsAreComplete WhatLeavesIsSettled
PROPERTIES SettledForGood UndoneOrderIsUndone RowsConverge
