SPECIFICATION TravelSpec
CONSTANTS
  Calls = {c1, c2}
  Fares <- MCFares
  MaxRetries = 1
  OfferTtl = 2
  Lead = 2
  Threshold = 2
  MaxOrders = 2
  MaxTokens = 3
  Budgets <- MCBudgets
  Stocks <- MCStocks
  Queries <- MCQueries
  ShownHotels = 2
  ShownKeys = 2
  Prices = {1}
  HotelBudgets <- MCHotelBudgets
  ShownFares = 2
CHECK_DEADLOCK FALSE
INVARIANTS OrdersTrue HotelAnswersTrue
PROPERTIES DesksAnswer
